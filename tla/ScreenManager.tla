---------------------------- MODULE ScreenManager ----------------------------
(***************************************************************************)
(* The screen stack of src/src/core/ScreenManager.cpp and the navigation   *)
(* that the screens drive through it.                                      *)
(*                                                                         *)
(* There is one thread, the Arduino loop.  One call of                     *)
(* ScreenManager::loop() is drain the navigation slot, run the current     *)
(* screen, drain again, paint; pc says how far the call has got and "tick" *)
(* is the point between two calls.  applyPending() is one action per trip  *)
(* of its while loop.  A screen is a record:                               *)
(*   kind  its class                                                       *)
(*   id    its identity (heap address)                                     *)
(*   ref   the id of the screen it holds a C++ reference to, or NoId       *)
(*   st    what its state machine remembers ("new" before onEnter())       *)
(* Every allocation may fail (makeUniqueNoThrow returns nullptr).          *)
(***************************************************************************)
EXTENDS Naturals, Sequences, SequencesExt

CONSTANT Ids   \* identities of heap objects: at least one more than screens can be alive

ASSUME IdsAssumption == Ids \subseteq Nat \ {0}

NoId == 0

VARIABLES
  current,   \* the unique_ptr current, or NoScreen
  stack,     \* the covered screens, bottom first
  pending,   \* the screen in the single navigation slot, or NoScreen
  action,    \* pendingAction
  levels,    \* pendingPopLevels
  dirty,     \* a repaint is wanted
  pc,        \* where the loop task is
  painted,   \* id of the screen whose frame the panel shows, or NoId
  scratch,   \* XtchBook's static page buffer: "reserved" or "released"
  lastBook,  \* settings.lastBookPath names an existing .xtch file
  starved    \* history: Home or the first screen could not be allocated this run

vars == <<current, stack, pending, action, levels, dirty, pc, painted, scratch, lastBook, starved>>
nav  == <<pending, action, levels>>

Kinds == {"Home", "Browser", "Firmware", "Reader", "Chapters", "PageJump", "Settings",
          "Language", "LanguageSetup", "Update", "Message", "WifiList", "Keyboard", "Transfer"}

\* The sub-state each class keeps once onEnter() has run.
States(kind) ==
  CASE kind = "Home"     -> {"menu", "menuContinue"}
    [] kind = "Browser"  -> {"listed", "dropped"}
    [] kind = "Reader"   -> {"loaded", "failed"}
    [] kind = "Update"   -> {"Confirm", "Updating", "Failed"}
    [] kind = "WifiList" -> {"Scanning", "NetworkList", "Connecting", "Failed", "ClearPassword"}
    [] OTHER             -> {"ready"}

Screen == [kind : Kinds, id : Ids, ref : Ids \union {NoId},
           st : {"new"} \union UNION {States(k) : k \in Kinds}]
NoScreen == [kind |-> "None", id |-> NoId, ref |-> NoId, st |-> "new"]

PcValues == {"boot", "tick", "applyBefore", "run", "applyAfter", "draw"}

TypeOK ==
  /\ current \in Screen \union {NoScreen}
  /\ stack \in Seq(Screen)
  /\ pending \in Screen \union {NoScreen}
  /\ action \in {"None", "Push", "Pop", "Replace"}
  /\ levels \in {1, 2}
  /\ dirty \in BOOLEAN
  /\ pc \in PcValues
  /\ painted \in Ids \union {NoId}
  /\ scratch \in {"reserved", "released"}
  /\ lastBook \in BOOLEAN
  /\ starved \in BOOLEAN

-----------------------------------------------------------------------------
\* The screens alive in navigation order, bottom to top.
Path == IF current = NoScreen THEN stack ELSE Append(stack, current)
Live == ToSet(stack) \union ({current, pending} \ {NoScreen})

\* A new object gets an address that nothing live has or refers to.  Identity
\* is only ever compared, so the least such id stands for all of them.
Unused   == Ids \ ({s.id : s \in Live} \union {s.ref : s \in Live} \union {painted})
Fresh(i) == i \in Unused /\ \A j \in Unused : i <= j

New(kind, i, ref) == [kind |-> kind, id |-> i, ref |-> ref, st |-> "new"]

MenuState == IF lastBook THEN "menuContinue" ELSE "menu"

\* What onEnter() may leave in the screen.
EntryStates(s) ==
  CASE s.kind = "Home"     -> {MenuState}
    [] s.kind = "Browser"  -> {"listed"}
    [] s.kind = "Reader"   -> {"loaded", "failed"}
    [] s.kind = "Update"   -> {"Confirm", "Failed"}
    [] s.kind = "WifiList" -> {"Scanning"}
    [] OTHER               -> {"ready"}

\* Mutant: a screen without an onResume().
ResumedAsLeft(s) == s

\* What onResume() leaves in the screen.
Resumed(s) ==
  CASE s.kind = "Home"    -> [s EXCEPT !.st = MenuState]
    [] s.kind = "Browser" -> [s EXCEPT !.st = "listed"]
    [] OTHER              -> s

\* Mutant: one of the two Wi-Fi screens forgets to end the session.
OnlyTransferEnds(s) == s.kind = "Transfer"

\* Screens whose onExit() is WifiSession::end(), which restarts the chip.
EndsSession(s) == s.kind \in {"WifiList", "Transfer"}
-----------------------------------------------------------------------------
\* The three requests of ScreenManager.h.  Each overwrites the one slot.
RequestReplace(s) == pending' = s /\ action' = "Replace" /\ UNCHANGED levels
RequestPush(s)    == pending' = s /\ action' = "Push" /\ UNCHANGED levels
RequestPop(n)     == levels' = n /\ action' = "Pop" /\ UNCHANGED pending

\* makeScreen() and push(): the screen, or nothing when the heap is exhausted.
Allocates(kind, ref) == \E i \in Ids : Fresh(i) /\ RequestPush(New(kind, i, ref))
OutOfMemory == UNCHANGED nav
TryPush(kind, ref) == Allocates(kind, ref) \/ OutOfMemory

\* Nothing of the old run survives a restart but the SD card and the panel.
Restart ==
  /\ pc' = "boot"
  /\ current' = NoScreen
  /\ stack' = <<>>
  /\ pending' = NoScreen
  /\ action' = "None"
  /\ levels' = 1
  /\ dirty' = FALSE
  /\ painted' = NoId
  /\ starved' = FALSE
  /\ UNCHANGED <<scratch, lastBook>>
-----------------------------------------------------------------------------
\* setup(): the root screen is chosen once the card, the settings and the wake
\* reason are known.  Wi-Fi transfers may have added or removed the last book.
Boot ==
  /\ pc = "boot"
  /\ pc' = "tick"
  /\ scratch' = "reserved"
  /\ lastBook' \in BOOLEAN
  /\ \/ \E kind \in {"Message", "Firmware", "LanguageSetup", "Home"} :
          \E i \in Ids : Fresh(i) /\ RequestReplace(New(kind, i, NoId)) /\ UNCHANGED starved
     \/ lastBook' /\ Allocates("Reader", NoId) /\ UNCHANGED starved
     \/ OutOfMemory /\ starved' = TRUE
  /\ UNCHANGED <<current, stack, dirty, painted>>

\* loop() starts; power::maybeSleep() may end the run instead.
LoopStarts ==
  /\ pc = "tick"
  /\ pc' = "applyBefore"
  /\ UNCHANGED <<current, stack, nav, dirty, painted, scratch, lastBook, starved>>

DeepSleep == pc = "tick" /\ Restart

Applying == pc \in {"applyBefore", "applyAfter"}

\* Mutant: the uncovered screen is resumed but not asked to repaint.
UncoverQuietly(top) ==
  /\ current' = Resumed(top)
  /\ action' = "None"
  /\ levels' = 1
  /\ UNCHANGED dirty

\* The screen that ends up on top resumes and is repainted.
Uncover(top) ==
  /\ current' = Resumed(top)
  /\ action' = "None"
  /\ levels' = 1
  /\ dirty' = TRUE

\* Pop: one level per trip; a screen uncovered on the way is not resumed.
ApplyPop ==
  /\ Applying /\ action = "Pop"
  /\ current # NoScreen => ~EndsSession(current)
  /\ stack # <<>>
  /\ LET top == Last(stack) IN
     /\ stack' = Front(stack)
     /\ IF levels > 1
        THEN /\ current' = top
             /\ levels' = levels - 1
             /\ UNCHANGED <<action, dirty>>
        ELSE Uncover(top)
  /\ UNCHANGED <<pending, pc, painted, scratch, lastBook, starved>>

\* goHome() when no screen is left: the pop is marked done first, so the request survives.
HomeRequested ==
  \/ \E i \in Ids : Fresh(i) /\ pending' = New("Home", i, NoId)
                   /\ action' = "Replace" /\ UNCHANGED starved
  \/ action' = "None" /\ starved' = TRUE /\ UNCHANGED pending

\* Popping the root asks for Home; without the memory for it nothing is left.
ApplyPopRoot ==
  /\ Applying /\ action = "Pop"
  /\ current # NoScreen => ~EndsSession(current)
  /\ stack = <<>>
  /\ current' = NoScreen
  /\ levels' = 1
  /\ HomeRequested
  /\ UNCHANGED <<stack, dirty, pc, painted, scratch, lastBook>>

\* onExit() of the Wi-Fi screens never returns.
ApplyExitRestarts ==
  /\ Applying
  /\ current # NoScreen
  /\ EndsSession(current)
  /\ action = "Replace" => pending # NoScreen
  /\ action \in {"Pop", "Replace"}
  /\ Restart

\* onEnter() of the screen that becomes current.
Enter(s) ==
  /\ \E st \in EntryStates(s) : current' = [s EXCEPT !.st = st]
  /\ lastBook' = (lastBook \/ current'.st = "loaded")
  /\ scratch' = IF s.kind = "WifiList" THEN "released" ELSE scratch
  /\ pending' = NoScreen
  /\ action' = "None"
  /\ dirty' = TRUE
  /\ UNCHANGED <<levels, pc, painted>>

\* Mutant: a push drops what it should cover.
CoversNothing == <<>>

\* The screens below the one that is entered.
Covered == IF action = "Push" THEN Path ELSE <<>>

\* Push covers the current screen.  Replace ends it, and destroys the covered
\* screens without onExit().  An empty slot is only cleared.
ApplyEntry ==
  /\ Applying /\ action \in {"Push", "Replace"}
  /\ (action = "Replace" /\ current # NoScreen /\ pending # NoScreen) => ~EndsSession(current)
  /\ IF pending = NoScreen
     THEN action' = "None" /\ UNCHANGED <<current, stack, pending, levels, dirty, pc, painted, scratch, lastBook>>
     ELSE stack' = Covered /\ Enter(pending)
  /\ UNCHANGED starved

\* The while loop ends.
Applied ==
  /\ Applying /\ action = "None"
  /\ pc' = IF pc = "applyBefore" THEN "run" ELSE "draw"
  /\ UNCHANGED <<current, stack, nav, dirty, painted, scratch, lastBook, starved>>

\* if (dirty && current) render().  UpdateScreen paints its own progress.
Draw ==
  /\ pc = "draw"
  /\ pc' = "tick"
  /\ IF dirty /\ current # NoScreen
     THEN dirty' = FALSE /\ painted' = current.id
     ELSE UNCHANGED <<dirty, painted>>
  /\ UNCHANGED <<current, stack, nav, scratch, lastBook, starved>>
-----------------------------------------------------------------------------
\* The current screen's loop().  Runs(k) is the frame every handler shares.
Runs(kind) ==
  /\ pc = "run"
  /\ current.kind = kind
  /\ pc' = "applyAfter"
  /\ UNCHANGED <<painted, scratch, lastBook, starved>>

\* Mutant: a screen leaves by goHome() instead of finishing.
LeavesByGoHome == /\ \E i \in Ids : Fresh(i) /\ RequestReplace(New("Home", i, NoId))
                  /\ UNCHANGED <<current, stack, dirty>>

Becomes(st) == current' = [current EXCEPT !.st = st]
Stays    == UNCHANGED <<current, stack, nav>> /\ dirty' \in {dirty, TRUE}
Finishes == RequestPop(1) /\ UNCHANGED <<current, stack, dirty>>
Pushes(kind, ref) == TryPush(kind, ref) /\ UNCHANGED <<current, stack, dirty>>

NoScreenLoop ==
  /\ pc = "run" /\ current = NoScreen
  /\ pc' = "applyAfter"
  /\ UNCHANGED <<current, stack, nav, dirty, painted, scratch, lastBook, starved>>

HomeLoop ==
  /\ Runs("Home")
  /\ \/ Stays
     \/ current.st = "menuContinue" /\ Pushes("Reader", NoId)
     \/ \E kind \in {"Browser", "WifiList", "Settings"} : Pushes(kind, NoId)

\* The listing is dropped before the reader is allocated, and reloaded if it is not.
BrowserLoop ==
  /\ Runs("Browser")
  /\ \/ Stays
     \/ Finishes
     \/ /\ current.st = "listed"
        /\ \/ Allocates("Reader", NoId) /\ Becomes("dropped") /\ UNCHANGED <<stack, dirty>>
           \/ OutOfMemory /\ Becomes("listed") /\ dirty' = TRUE /\ UNCHANGED stack

FirmwareLoop == Runs("Firmware") /\ (Stays \/ Finishes \/ Pushes("Update", NoId))

\* A failed open offers only the way out.
ReaderLoop ==
  /\ Runs("Reader")
  /\ \/ Stays
     \/ Finishes
     \/ current.st = "loaded" /\ Pushes("Chapters", current.id)

\* Picking a chapter moves the reader underneath and repaints.
ChaptersLoop ==
  /\ Runs("Chapters")
  /\ \/ Stays
     \/ RequestPop(1) /\ dirty' \in {dirty, TRUE} /\ UNCHANGED <<current, stack>>
     \/ Pushes("PageJump", current.ref)

\* Go skips the chapter list; Back uncovers it.
PageJumpLoop ==
  /\ Runs("PageJump")
  /\ \/ Stays
     \/ Finishes
     \/ RequestPop(2) /\ dirty' \in {dirty, TRUE} /\ UNCHANGED <<current, stack>>

SettingsLoop ==
  /\ Runs("Settings")
  /\ \/ Stays
     \/ Finishes
     \/ \E kind \in {"Language", "Firmware"} : Pushes(kind, NoId)

LanguageLoop == (Runs("Language") \/ Runs("LanguageSetup")) /\ (Stays \/ Finishes)

MessageLoop ==
  /\ Runs("Message")
  /\ \/ Stays
     \/ /\ \E i \in Ids : Fresh(i) /\ RequestReplace(New("Home", i, NoId))
        /\ UNCHANGED <<current, stack, dirty>>

\* Confirm, then flash; a successful flash restarts into the new image.
UpdateLoop ==
  \/ /\ Runs("Update")
     /\ \/ current.st # "Updating" /\ Stays
        \/ current.st \in {"Confirm", "Failed"} /\ Finishes
        \/ current.st = "Confirm" /\ Becomes("Updating") /\ dirty' = TRUE /\ UNCHANGED <<stack, nav>>
        \/ current.st = "Updating" /\ Becomes("Failed") /\ dirty' = TRUE /\ UNCHANGED <<stack, nav>>
  \/ pc = "run" /\ current.kind = "Update" /\ current.st = "Updating" /\ Restart

\* WifiListScreen::loop(), reduced to the states navigation tells apart.
WifiListLoop ==
  /\ Runs("WifiList")
  /\ \/ Stays
     \/ current.st \notin {"Failed", "ClearPassword"} /\ Finishes
     \/ /\ \/ current.st = "Scanning" /\ \E st \in {"Connecting", "NetworkList"} : Becomes(st)
           \/ current.st = "NetworkList" /\ Becomes("Connecting")
           \/ current.st = "Connecting" /\ \E st \in {"NetworkList", "Failed", "ClearPassword"} : Becomes(st)
           \/ current.st \in {"Failed", "ClearPassword"} /\ Becomes("NetworkList")
        /\ dirty' = TRUE
        /\ UNCHANGED <<stack, nav>>
     \/ current.st \in {"NetworkList", "ClearPassword"} /\ Pushes("Keyboard", current.id)
     \/ current.st = "Connecting" /\ Pushes("Transfer", NoId)

\* The keyboard calls its parent, which is covered, before it finishes.
KeyboardLoop ==
  /\ Runs("Keyboard")
  /\ \/ Stays
     \/ /\ \E st \in {"Connecting", "NetworkList"} :
             stack' = [n \in DOMAIN stack |-> IF stack[n].id = current.ref
                                             THEN [stack[n] EXCEPT !.st = st] ELSE stack[n]]
        /\ dirty' = TRUE
        /\ RequestPop(1)
        /\ UNCHANGED current

TransferLoop == Runs("Transfer") /\ (Stays \/ Finishes)
-----------------------------------------------------------------------------
Init ==
  /\ pc = "boot"
  /\ current = NoScreen
  /\ stack = <<>>
  /\ pending = NoScreen
  /\ action = "None"
  /\ levels = 1
  /\ dirty = FALSE
  /\ painted = NoId
  /\ scratch = "reserved"
  /\ lastBook \in BOOLEAN
  /\ starved = FALSE

\* applyPending(), one trip of its loop or its exit.
ApplyPending ==
  \/ ApplyPop \/ ApplyPopRoot \/ ApplyExitRestarts
  \/ ApplyEntry \/ Applied

ScreenLoop ==
  \/ NoScreenLoop \/ HomeLoop \/ BrowserLoop \/ FirmwareLoop \/ ReaderLoop \/ ChaptersLoop
  \/ PageJumpLoop \/ SettingsLoop \/ LanguageLoop \/ MessageLoop \/ UpdateLoop
  \/ WifiListLoop \/ KeyboardLoop \/ TransferLoop

Next == Boot \/ LoopStarts \/ DeepSleep \/ ApplyPending \/ ScreenLoop \/ Draw

Spec == Init /\ [][Next]_vars
-----------------------------------------------------------------------------
\* Every reference a screen holds is to a live screen of the class it was taken
\* from, covered in the stack below it: ChapterSelectionScreen and PageJumpScreen
\* call ReaderScreen::jumpToPage, KeyboardScreen calls WifiListScreen, whatever
\* has been pushed, popped by one or by two levels, or failed to allocate.
ReferencesAreLive ==
  \A s \in Live : s.ref # NoId =>
    \E n \in DOMAIN stack \union {0} :
      LET target == IF n = 0 THEN current ELSE stack[n] IN
      /\ target.id = s.ref
      /\ target.kind = IF s.kind = "Keyboard" THEN "WifiList" ELSE "Reader"
      /\ target.st # "new"

\* A replace() is only ever applied with nothing covered.  The covered screens
\* would be destroyed without onExit(): a reader's position would be lost and a
\* Wi-Fi session would be left without its restart.
ReplaceDropsNothing == action = "Replace" => stack = <<>>

\* Between two calls of loop() the panel shows the screen that will get the next
\* key, so no key is ever answered by a screen the user cannot see.
ShownIsCurrent == (pc = "tick" /\ current # NoScreen) => painted = current.id

\* No reader is opened or uncovered while the page buffer it decodes into has
\* been given to the Wi-Fi stack; only the restart brings the buffer back.
ReaderHasScratch == scratch = "released" => \A s \in Live : s.kind # "Reader"

\* The screen that runs has been entered and refreshed: the browser has its
\* listing back and Home offers Continue exactly when there is a book.  There is
\* none only when the heap could not hold Home: popping the root always brings
\* Home back otherwise, and no navigation is lost on the way.
RunningIsFresh ==
  pc = "run" =>
    IF current = NoScreen THEN starved
    ELSE /\ current.st # "new"
         /\ current.kind = "Browser" => current.st = "listed"
         /\ current.kind = "Home" => current.st = MenuState
=============================================================================
