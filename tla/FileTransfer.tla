---------------------------- MODULE FileTransfer ----------------------------
(***************************************************************************)
(* The books on the card, what the device remembers of each (the sidecar   *)
(* with the reading position, settings.lastBookPath), and the file server  *)
(* that replaces, renames and deletes books: FileTransferServer.cpp,       *)
(* BookCache.cpp, and the reader's open and save.                          *)
(*                                                                         *)
(* The server serves one request at a time and blocks until it is done, so *)
(* pc names the point a request has reached; an upload waits at "body" for *)
(* the peer.  A card that fails, a peer that leaves, a power cut and the   *)
(* renaming of folders happen only where Trouble says so.                  *)
(*                                                                         *)
(* A file is the book it holds and how much of it was written.  Folders    *)
(* hold files only: deleteDirContents() recurses the same way into nested  *)
(* ones.  Paths hash without collisions.  preAllocate() is left out: the   *)
(* server's raw reader ends an upload only with every byte received, so    *)
(* the final truncate() has nothing to cut.                                *)
(***************************************************************************)
EXTENDS Integers

CONSTANTS
  Root, Folders,      \* the root and every folder name in use
  Names,              \* file names
  Books,              \* what a file may hold
  BookSize,           \* bytes of a book
  BufferSize,         \* kWriteBufferSize
  RecvMax,            \* HTTP_RAW_BUFLEN: bytes of one handleUploadChunk()
  Trouble,            \* what may go wrong
  NoBook, NoPath, NoFolder

Path   == Folders \X Names
Folder(p) == p[1]
In(f)  == {p \in Path : Folder(p) = f}
Forgotten == [path |-> NoPath, book |-> NoBook]

ASSUME TroubleAssumption == Trouble \subseteq {"power", "peer", "short", "stuck", "folders"}
ASSUME SizesAssumption ==
  /\ BookSize \in Nat \ {0} /\ BufferSize \in Nat \ {0} /\ RecvMax \in 1..BufferSize
ASSUME NamesAssumption ==
  Root \in Folders /\ NoBook \notin Books /\ NoPath \notin Path /\ NoFolder \notin Folders

VARIABLES
  book, len,   \* what each path holds, and the bytes of it on the card
  side,        \* the book each path's p_*.bin was saved in
  stale,       \* history: paths whose p_*.bin the card refused to remove
  last,        \* settings.lastBookPath (with the book that was read there)
  folders,     \* folders that exist
  mode,        \* "device" (menus and reader) or "serving"
  dest, open, success, filled,   \* UploadState: destPath, file, success, writeBufferPos
  room,        \* size of writeBuffer; 0 when begin() could not allocate it
  sent, got,   \* the upload being received: the peer's book, bytes so far
  spoilt,      \* history: the card failed the flush or close of the upload under way
  pc, request, \* where the request is, and what it is
  cur,         \* the path removeFor() is called for
  folder, todo \* deleteDirContents(): the folder, and its names still to remove

card == <<book, len, side, stale, last, folders>>
up   == <<dest, open, success, filled, room, sent, got, spoilt>>
job  == <<pc, request, cur, folder, todo>>
vars == <<card, mode, up, job>>

TypeOK ==
  /\ book \in [Path -> Books \union {NoBook}] /\ len \in [Path -> 0..BookSize]
  /\ side \in [Path -> Books \union {NoBook}] /\ stale \subseteq Path
  /\ last \in [path : Path \union {NoPath}, book : Books \union {NoBook}]
  /\ folders \subseteq Folders
  /\ mode \in {"device", "serving"}
  /\ dest \in Path \union {NoPath} /\ open \in BOOLEAN /\ success \in BOOLEAN
  /\ filled \in 0..BufferSize /\ room \in {0, BufferSize}
  /\ sent \in Books \union {NoBook} /\ got \in 0..BookSize /\ spoilt \in BOOLEAN
  /\ pc \in {"idle", "body", "delete", "drop", "forget", "answer"}
  /\ request \in {"none", "upload", "delete", "move"}
  /\ cur \in Path \union {NoPath}
  /\ folder \in Folders \union {NoFolder} /\ todo \subseteq Path
-----------------------------------------------------------------------------
Exists(p) == book[p] # NoBook
Ready     == mode = "serving" /\ pc = "idle"

\* Storage.remove(): the file goes, or, on a failing card, stays.
Remove(p) ==
  \/ /\ book' = [book EXCEPT ![p] = NoBook]
     /\ len'  = [len EXCEPT ![p] = 0]
  \/ "stuck" \in Trouble /\ UNCHANGED <<book, len>>

\* file.write(): all of due, or less on a failing card.
Written(due) == {due} \union IF "short" \in Trouble THEN 0..due ELSE {}

Begin(req) == Ready /\ request' = req
-----------------------------------------------------------------------------
\* handleUploadStart(): resetUpload(true) finds no open file (OpenOnlyInBody).
StartUpload(p, b) ==
  /\ Begin("upload")
  /\ dest' = p /\ sent' = b /\ got' = 0 /\ filled' = 0 /\ pc' = "body"
  /\ \/ /\ Folder(p) \in folders
        /\ open' = TRUE /\ success' = TRUE
        /\ book' = [book EXCEPT ![p] = b] /\ len' = [len EXCEPT ![p] = 0]
     \/ /\ Folder(p) \notin folders \/ "short" \in Trouble
        /\ open' = FALSE /\ success' = FALSE
        /\ UNCHANGED <<book, len>>
  /\ UNCHANGED <<side, stale, last, folders, mode, room, spoilt, cur, folder, todo>>

\* The early returns: no name, or an .xgf2 file.  destPath keeps its value.
RejectUpload ==
  /\ Begin("upload")
  /\ sent' = NoBook /\ got' = 0 /\ filled' = 0 /\ pc' = "body"
  /\ open' = FALSE /\ success' = FALSE
  /\ UNCHANGED <<card, mode, dest, room, spoilt, cur, folder, todo>>

\* Bytes handleUploadChunk() writes on receiving n more: all at once without a
\* buffer, a buffer that fills up, or none yet.
Due(n) == IF room = 0 THEN n ELSE IF filled + n >= room THEN room ELSE 0

\* Mutant: what did not fit the full buffer is dropped.
LeftNothing(n, w) == IF w = 0 THEN filled + n ELSE 0

\* Bytes still buffered when w of them went to the card.
Left(n, w) == IF w < Due(n) \/ room = 0 THEN 0 ELSE filled + n - w

\* handleUploadChunk()
Receive(n) ==
  /\ pc = "body" /\ got + n <= BookSize
  /\ got' = got + n
  /\ \/ /\ ~(success /\ open)
        /\ UNCHANGED <<len, success, filled>>
     \/ /\ success /\ open
        /\ \E w \in Written(Due(n)) :
             /\ len' = [len EXCEPT ![dest] = @ + w]
             /\ success' = (w = Due(n))
             /\ filled' = Left(n, w)
  /\ UNCHANGED <<book, side, stale, last, folders, mode, dest, open, room, sent, spoilt, job>>

\* flush() and close() of an upload of n bytes.  On a failing card any of them
\* may be missing; handleUploadEnd() does not look at what the calls return.
Close(n) ==
  \/ len' = [len EXCEPT ![dest] = n] /\ spoilt' = FALSE
  \/ /\ "short" \in Trouble /\ spoilt' = TRUE
     /\ \E m \in 0..n : len' = [len EXCEPT ![dest] = m]

\* handleUploadEnd(), every byte received.
FinishUpload ==
  /\ pc = "body" /\ got = BookSize
  /\ open' = FALSE /\ filled' = 0
  /\ \/ /\ success /\ open
        /\ \E w \in Written(filled) :
             /\ success' = (w = filled)
             /\ \/ /\ w = filled
                   /\ Close(len[dest] + w)
                   /\ pc' = "drop" /\ cur' = dest /\ UNCHANGED book
                \/ w < filled /\ Remove(dest) /\ pc' = "answer" /\ UNCHANGED <<cur, spoilt>>
     \/ /\ ~(success /\ open)
        /\ success' = FALSE /\ pc' = "answer"
        /\ IF dest = NoPath THEN UNCHANGED <<book, len>> ELSE Remove(dest)
        /\ UNCHANGED <<cur, spoilt>>
  /\ got' = 0
  /\ UNCHANGED <<side, stale, last, folders, mode, dest, room, sent, request, folder, todo>>

\* Mutant: a cut upload is left on the card.
KeepPartial == UNCHANGED <<book, len>>

\* resetUpload(true): the file under way is deleted.
DropPartial == IF open THEN Remove(dest) ELSE UNCHANGED <<book, len>>

\* Mutant: a read that brings nothing is tried again.
AbortWaits ==
  /\ "peer" \in Trouble
  /\ pc = "body" /\ got < BookSize
  /\ got' = 0
  /\ UNCHANGED <<card, mode, dest, open, success, filled, room, sent, spoilt, job>>

\* handleUploadAbort(): a read timed out or the peer closed the connection.
AbortUpload ==
  /\ "peer" \in Trouble
  /\ pc = "body" /\ got < BookSize
  /\ open' = FALSE /\ success' = FALSE /\ filled' = 0 /\ got' = 0
  /\ DropPartial
  /\ pc' = "idle" /\ request' = "none"
  /\ UNCHANGED <<side, stale, last, folders, mode, dest, room, sent, spoilt, cur, folder, todo>>
-----------------------------------------------------------------------------
\* Mutant: the p_*.bin sidecar is not among those dropped.
DropOldSidecars ==
  /\ pc = "drop" /\ pc' = "forget"
  /\ UNCHANGED <<card, mode, up, request, cur, folder, todo>>

\* The sidecar of p is written anew, or goes.
Sidecar(p, b) == side' = [side EXCEPT ![p] = b] /\ stale' = stale \ {p}

\* BookCache::removeFor(cur): the sidecars, then the settings.  A sidecar the card
\* refuses to remove stays, and removeFor() goes on.
DropSidecars ==
  /\ pc = "drop" /\ pc' = "forget"
  /\ \/ Sidecar(cur, NoBook)
     \/ /\ "stuck" \in Trouble /\ side[cur] # NoBook
        /\ stale' = stale \union {cur} /\ UNCHANGED side
  /\ UNCHANGED <<book, len, last, folders, mode, up, request, cur, folder, todo>>

\* Mutant: the destination of the last upload is forgotten.
LastAfterUpload == IF last.path = dest THEN Forgotten ELSE last

LastAfter == IF last.path = cur THEN Forgotten ELSE last

ForgetLast ==
  /\ pc = "forget"
  /\ \/ last' = LastAfter
     \/ "short" \in Trouble /\ UNCHANGED last     \* settings.save() failed
  /\ pc' = IF folder = NoFolder THEN "answer" ELSE "delete"
  /\ cur' = NoPath
  /\ UNCHANGED <<book, len, side, stale, folders, mode, up, request, folder, todo>>

Answer ==
  /\ pc = "answer"
  /\ pc' = "idle" /\ request' = "none" /\ spoilt' = FALSE
  /\ UNCHANGED <<card, mode, dest, open, success, filled, room, sent, got, cur, folder, todo>>
-----------------------------------------------------------------------------
\* handleDelete() of a file; nothing happens when remove() fails.
DeleteFile(p) ==
  /\ Begin("delete") /\ Exists(p)
  /\ book' = [book EXCEPT ![p] = NoBook] /\ len' = [len EXCEPT ![p] = 0]
  /\ pc' = "drop" /\ cur' = p
  /\ UNCHANGED <<side, stale, last, folders, mode, up, folder, todo>>

\* handleDelete() of a folder: its names are collected first.
DeleteFolder(f) ==
  /\ Begin("delete") /\ f # Root /\ f \in folders
  /\ folder' = f /\ todo' = {p \in In(f) : Exists(p)}
  /\ pc' = "delete"
  /\ UNCHANGED <<card, mode, up, cur>>

\* Mutant: only the file goes.
RemoveNextOnly(p) ==
  /\ pc = "delete" /\ p \in todo
  /\ book' = [book EXCEPT ![p] = NoBook] /\ len' = [len EXCEPT ![p] = 0]
  /\ todo' = todo \ {p}
  /\ UNCHANGED <<side, stale, last, folders, mode, up, pc, request, cur, folder>>

RemoveNext(p) ==
  /\ pc = "delete" /\ p \in todo
  /\ book' = [book EXCEPT ![p] = NoBook] /\ len' = [len EXCEPT ![p] = 0]
  /\ todo' = todo \ {p}
  /\ pc' = "drop" /\ cur' = p
  /\ UNCHANGED <<side, stale, last, folders, mode, up, request, folder>>

\* Mutant: the sidecars are dropped whether or not the file went.
DropsAnyway ==
  /\ "stuck" \in Trouble
  /\ pc = "delete" /\ pc' = "drop"
  /\ \E p \in todo : cur' = p /\ todo' = todo \ {p}
  /\ UNCHANGED <<card, mode, up, request, folder>>

\* The first failure ends deleteDirContents(); the rest of the folder stays.
RemoveFails ==
  /\ "stuck" \in Trouble
  /\ pc = "delete" /\ pc' = "answer"
  /\ folder' = NoFolder /\ todo' = {}
  /\ UNCHANGED <<card, mode, up, request, cur>>

RemoveFolder ==
  /\ pc = "delete" /\ todo = {}
  /\ folders' = folders \ {folder}
  /\ folder' = NoFolder /\ pc' = "answer"
  /\ UNCHANGED <<book, len, side, stale, last, mode, up, request, cur, todo>>

\* handleRename() and handleMove() of a file; rename() refuses a taken name.
MoveFile(p, q) ==
  /\ Begin("move") /\ Exists(p) /\ ~Exists(q) /\ Folder(q) \in folders
  /\ \/ Folder(p) = Folder(q)
     \/ p[2] = q[2]
  /\ book' = [book EXCEPT ![q] = book[p], ![p] = NoBook]
  /\ len'  = [len EXCEPT ![q] = len[p], ![p] = 0]
  /\ pc' = "drop" /\ cur' = p
  /\ UNCHANGED <<side, stale, last, folders, mode, up, folder, todo>>

\* handleRename() of a folder: removeFor() is given the folder's own path, for
\* which there is no sidecar.
RenameFolder(f, g) ==
  LET Source(p) == IF Folder(p) = g THEN <<f, p[2]>> ELSE p
      gone(p)   == Folder(p) = f
  IN
  /\ "folders" \in Trouble
  /\ Begin("move")
  /\ f # Root /\ f \in folders /\ g \notin folders
  /\ folders' = (folders \ {f}) \union {g}
  /\ book' = [p \in Path |-> IF gone(p) THEN NoBook ELSE book[Source(p)]]
  /\ len'  = [p \in Path |-> IF gone(p) THEN 0 ELSE len[Source(p)]]
  /\ pc' = "answer"
  /\ UNCHANGED <<side, stale, last, mode, up, cur, folder, todo>>

\* handleMkdir()
MakeFolder(f) ==
  /\ Ready /\ f \notin folders
  /\ folders' = folders \union {f}
  /\ UNCHANGED <<book, len, side, stale, last, mode, up, job>>
-----------------------------------------------------------------------------
\* FileTransferScreen::onEnter() and begin()
StartSession ==
  /\ mode = "device" /\ mode' = "serving"
  /\ room' \in {0, BufferSize}
  /\ UNCHANGED <<card, dest, open, success, filled, sent, got, spoilt, job>>

NothingReceived ==
  /\ dest' = NoPath /\ open' = FALSE /\ success' = FALSE /\ filled' = 0 /\ room' = 0
  /\ sent' = NoBook /\ got' = 0 /\ spoilt' = FALSE
Idle ==
  /\ pc' = "idle" /\ request' = "none" /\ cur' = NoPath
  /\ folder' = NoFolder /\ todo' = {}

\* onExit(): stop(), with no upload to cancel, and the restart.
EndSession ==
  /\ Ready
  /\ mode' = "device" /\ NothingReceived /\ Idle
  /\ UNCHANGED card

\* The battery or the user cuts the power.  How much of an open file survives
\* depends on what the card had synced.
PowerLost ==
  /\ "power" \in Trouble /\ pc # "idle"
  /\ mode' = "device" /\ NothingReceived /\ Idle
  /\ \/ ~open /\ UNCHANGED len
     \/ open /\ \E n \in 0..len[dest] : len' = [len EXCEPT ![dest] = n]
  /\ UNCHANGED <<book, side, stale, last, folders>>

\* A visit to the reader: onEnter() restores the saved page and notes the last
\* book, turning a page or leaving saves the page.  A cut file may still open.
\* Nobody looks at whether a save reached the card, whole, in part or not at all.
ReadBook(p) ==
  /\ mode = "device" /\ Exists(p) /\ len[p] > 0
  /\ \/ Sidecar(p, book[p])
     \/ "short" \in Trouble /\ (Sidecar(p, NoBook) \/ UNCHANGED <<side, stale>>)
  /\ \/ last' = [path |-> p, book |-> book[p]]
     \/ "short" \in Trouble /\ (last' = Forgotten \/ UNCHANGED last)
  /\ UNCHANGED <<book, len, folders, mode, up, job>>
-----------------------------------------------------------------------------
\* A card with folders but no books: every book arrives by upload.
Init ==
  /\ folders \in SUBSET Folders /\ Root \in folders
  /\ book = [p \in Path |-> NoBook] /\ len = [p \in Path |-> 0]
  /\ side = [p \in Path |-> NoBook] /\ stale = {} /\ last = Forgotten
  /\ mode = "device"
  /\ dest = NoPath /\ open = FALSE /\ success = FALSE /\ filled = 0 /\ room = 0
  /\ sent = NoBook /\ got = 0 /\ spoilt = FALSE
  /\ pc = "idle" /\ request = "none" /\ cur = NoPath /\ folder = NoFolder /\ todo = {}

\* A request under way: the server's own steps and the peer's next bytes.
Serve ==
  \/ \E n \in 1..RecvMax : Receive(n)
  \/ FinishUpload \/ AbortUpload
  \/ DropSidecars \/ ForgetLast \/ Answer
  \/ \E p \in Path : RemoveNext(p)
  \/ RemoveFails \/ RemoveFolder

NewRequest ==
  \/ \E p \in Path, b \in Books : StartUpload(p, b)
  \/ RejectUpload
  \/ \E p \in Path : DeleteFile(p)
  \/ \E p, q \in Path : MoveFile(p, q)
  \/ \E f, g \in Folders : RenameFolder(f, g)
  \/ \E f \in Folders : DeleteFolder(f) \/ MakeFolder(f)

Next ==
  \/ Serve \/ NewRequest
  \/ StartSession \/ EndSession \/ PowerLost
  \/ \E p \in Path : ReadBook(p)

Spec == Init /\ [][Next]_vars

\* handleClient() returns only when the request is done, and a read that brings
\* nothing times out.
FairSpec == Spec /\ WF_vars(Serve)
-----------------------------------------------------------------------------
\* The reading position kept for a path was saved in the book that is there
\* now: replacing, moving and deleting books hands a page number to another book
\* only where the card refused to remove the sidecar.
ProgressBelongs ==
  pc = "idle" => \A p \in Path : Exists(p) /\ side[p] # NoBook => side[p] = book[p] \/ p \in stale

\* "removeFor deletes them when a book is removed": no sidecar stays behind
\* when its book is gone, however far a deletion got, but one the card refused
\* to remove.
SidecarsGoWithBook ==
  pc = "idle" => \A p \in Path : side[p] # NoBook => Exists(p) \/ p \in stale

\* Continue reading on the home screen leads to the book last read, or is not
\* offered; it never opens another book that took over the path.
ContinueBelongs ==
  pc = "idle" /\ last.path # NoPath /\ book[last.path] # NoBook
    => book[last.path] = last.book

\* "File uploaded successfully" means the card holds every byte the peer sent,
\* in order, buffered or not, unless the card failed the final flush or close;
\* and nothing remembered of the book before it, unless it refused to forget it.
UploadOkIsWhole ==
  pc = "answer" /\ request = "upload" /\ success
    => /\ book[dest] = sent
       /\ len[dest] = BookSize \/ spoilt
       /\ side[dest] = NoBook \/ dest \in stale

\* A file under upload is closed whole or is gone: neither a peer that leaves nor
\* a short write leaves a cut book, on a card that lets go of files.  What leaves
\* one is a close that fails.
WholeOrGone ==
  [][open /\ ~open' /\ mode' = "serving" => len'[dest] \in {0, BookSize} \/ spoilt']_vars

\* The server deletes a reading position only after its book was removed or
\* replaced: a deletion the card refuses keeps it.
ProgressKept ==
  [][\A p \in Path : mode = "serving" /\ side[p] # NoBook /\ side'[p] = NoBook
       => book[p] = NoBook \/ (request = "upload" /\ p = dest /\ success)]_vars

\* Every request ends, also when the peer is gone or the card fails.
RequestsEnd == pc # "idle" ~> pc = "idle"

\* "If removePartial, delete the incomplete dest": an upload that fails deletes
\* only a file that is not complete.
OnlyIncompleteDeleted ==
  [][request = "upload" =>
       \A p \in Path : Exists(p) /\ book'[p] = NoBook => len[p] < BookSize]_vars
-----------------------------------------------------------------------------
\* removeFor(p) has begun, and has not yet reached the sidecar or the settings.
Sweeping(p)   == pc = "drop" /\ cur = p
Forgetting(p) == pc \in {"drop", "forget"} /\ cur = p

\* Refinement: a book counts from the end of its upload, and what is remembered
\* of one is gone when the request that removes the book has removed it, or would
\* have, had the card not refused.
Incoming(p) == open /\ p = dest
Unit(p) ==
  [book     |-> IF Incoming(p) THEN NoBook ELSE book[p],
   position |-> IF Incoming(p) \/ Sweeping(p) \/ p \in stale THEN NoBook ELSE side[p]]

Shelf == [p \in Path |-> Unit(p)]
Continued ==
  IF last.path # NoPath /\ (Forgetting(last.path) \/ Incoming(last.path)) THEN NoPath ELSE last.path

Abstract == INSTANCE Bookshelf WITH shelf <- Shelf, continue <- Continued

\* A book and what is remembered of it come and go in a single step.  The sidecar
\* and the settings follow steps later, and over several files: seen from where
\* the requests stand, no book loses or keeps one of them alone, and no other
\* book is touched; a sidecar the card refused to remove is not seen.
BooksAreUnits == Abstract!Spec
=============================================================================
