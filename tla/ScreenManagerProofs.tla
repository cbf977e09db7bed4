------------------------- MODULE ScreenManagerProofs -------------------------
(***************************************************************************)
(* Proofs about ScreenManager, for every set of addresses and every order  *)
(* of requests, refused allocations, restarts and deep sleeps.  The shapes *)
(* below say what the loop() of any screen may ask for; the invariant says *)
(* what the stack, the slot and the screens then have in common.           *)
(***************************************************************************)
EXTENDS ScreenManager, SequenceTheorems, TLAPS

USE IdsAssumption

\* The same screen, with another sub-state.
Moved(s, t) == t \in Screen /\ t.id = s.id /\ t.kind = s.kind /\ t.ref = s.ref /\ t.st # "new"

\* The screen that s refers to.
Target(t, s) ==
  /\ t.id = s.ref
  /\ t.kind = IF s.kind = "Keyboard" THEN "WifiList" ELSE "Reader"
  /\ t.st # "new"

Session == {"WifiList", "Keyboard", "Transfer"}

\* The slot is filled by a push or a replace and by nothing else.  The loop
\* runs and paints only with the slot applied.
SlotInv ==
  /\ (pending = NoScreen) <=> (action \in {"None", "Pop"})
  /\ action = "Push" => pending.kind \notin {"Home", "Message"}
  /\ action = "Replace" => pending.ref = NoId /\ pending.kind # "WifiList" /\ stack = <<>>
  /\ pc \in {"run", "draw", "boot"} => action = "None"

\* Nothing runs before setup().
BootInv == pc = "boot" => current = NoScreen /\ stack = <<>>

\* Home and the message screen are only ever at the bottom.
BottomInv ==
  /\ \A n \in 2 .. Len(stack) : stack[n].kind \notin {"Home", "Message"}
  /\ current.kind \in {"Home", "Message"} => stack = <<>>

\* Every screen but the one in the slot has been entered.
EnteredInv ==
  /\ current # NoScreen => current.st # "new"
  /\ \A n \in 1 .. Len(stack) : stack[n].st # "new"

\* A reference is to a screen further down.
RefInv ==
  /\ \A n \in 1 .. Len(stack) :
       stack[n].ref # NoId => \E k \in 1 .. n - 1 : Target(stack[k], stack[n])
  /\ current.ref # NoId => \E k \in 1 .. Len(stack) : Target(stack[k], current)
  /\ pending.ref # NoId => \/ Target(current, pending)
                           \/ \E k \in 1 .. Len(stack) : Target(stack[k], pending)

\* What is not shown is about to be repainted, or popped.
PaintInv ==
  /\ current # NoScreen /\ ~dirty /\ action # "Pop" => painted = current.id
  /\ pc = "tick" => current = NoScreen \/ (~dirty /\ action = "None")

\* The page buffer is only given away for a Wi-Fi session over Home.
SessionInv ==
  /\ pending.kind = "WifiList" => current.kind = "Home"
  /\ scratch = "released" /\ pc # "boot" =>
       /\ current.kind \in Session
       /\ current.kind = "WifiList" \/ \E n \in 1 .. Len(stack) : stack[n].kind = "WifiList"
       /\ \A n \in 1 .. Len(stack) : stack[n].kind \in Session \union {"Home"}
       /\ pending # NoScreen => pending.kind \in Session

\* What the screen that runs next must find.
FreshInv ==
  action = "None" =>
    /\ current = NoScreen /\ pc # "boot" => starved
    /\ current.kind = "Browser" => current.st = "listed"
    /\ current.kind = "Home" => current.st = MenuState

Inv ==
  /\ TypeOK /\ SlotInv /\ BootInv /\ BottomInv /\ EnteredInv
  /\ RefInv /\ PaintInv /\ SessionInv /\ FreshInv
-----------------------------------------------------------------------------
\* The names of the sub-states.
Names == {"menu", "menuContinue", "listed", "dropped", "loaded", "failed", "Confirm",
          "Updating", "Failed", "Scanning", "NetworkList", "Connecting", "ClearPassword", "ready"}

LEMMA NamesAreStates == Names \subseteq UNION {States(k) : k \in Kinds}
  <1>1. /\ {"menu", "menuContinue"} = States("Home") /\ {"listed", "dropped"} = States("Browser")
        /\ {"loaded", "failed"} = States("Reader")
        /\ {"Confirm", "Updating", "Failed"} = States("Update")
        /\ {"Scanning", "NetworkList", "Connecting", "Failed", "ClearPassword"} = States("WifiList")
        /\ {"ready"} = States("Settings")
    BY DEF States
  <1>2. {"Home", "Browser", "Reader", "Update", "WifiList", "Settings"} \subseteq Kinds
    BY DEF Kinds
  <1>3. ASSUME NEW k \in Kinds
        PROVE  States(k) \subseteq UNION {States(j) : j \in Kinds}
    BY <1>3
  <1>. QED
    BY <1>1, <1>2, <1>3 DEF Names

\* Screens as fields.
LEMMA Fields ==
  ASSUME NEW s \in Screen
  PROVE  /\ s.kind \in Kinds /\ s.id \in Ids /\ s.ref \in Ids \union {NoId}
         /\ s # NoScreen /\ s.id # NoId
  BY DEF Screen, NoScreen, NoId

LEMMA NoScreenFields ==
  /\ NoScreen.kind = "None" /\ NoScreen.id = NoId /\ NoScreen.ref = NoId /\ NoScreen.st = "new"
  /\ NoScreen.kind \notin Kinds /\ NoScreen.kind \notin Session \union {"Home", "Message", "Browser", "Reader"}
  BY DEF NoScreen, Kinds, Session

LEMMA Becoming ==
  ASSUME NEW s \in Screen, NEW st \in Names
  PROVE  Moved(s, [s EXCEPT !.st = st]) /\ [s EXCEPT !.st = st].st = st
  <1>1. st \in UNION {States(k) : k \in Kinds} /\ st # "new"
    BY NamesAreStates DEF Names
  <1> DEFINE all == UNION {States(k) : k \in Kinds}
  <1>2. st \in all
    BY <1>1
  <1>3. Screen = [kind : Kinds, id : Ids, ref : Ids \union {NoId}, st : {"new"} \union all]
    BY DEF Screen
  <1> HIDE DEF all
  <1>. QED
    BY <1>1, <1>2, <1>3 DEF Moved

LEMMA Made ==
  ASSUME NEW kind \in Kinds, NEW i \in Ids, NEW ref \in Ids \union {NoId}
  PROVE  /\ New(kind, i, ref) \in Screen /\ New(kind, i, ref).kind = kind
         /\ New(kind, i, ref).ref = ref /\ New(kind, i, ref).id = i
  <1> DEFINE all == UNION {States(k) : k \in Kinds}
  <1>1. Screen = [kind : Kinds, id : Ids, ref : Ids \union {NoId}, st : {"new"} \union all]
    BY DEF Screen
  <1> HIDE DEF all
  <1>. QED
    BY <1>1 DEF New

\* The screens made without a reference.
LEMMA MadeAlone ==
  ASSUME NEW i \in Ids
  PROVE  /\ \A kind \in Kinds : /\ New(kind, i, NoId) \in Screen /\ New(kind, i, NoId).kind = kind
                                /\ New(kind, i, NoId).ref = NoId
         /\ New("Home", i, NoId) \in Screen /\ New("Home", i, NoId).kind = "Home"
         /\ New("Home", i, NoId).ref = NoId
         /\ New("Reader", i, NoId) \in Screen /\ New("Reader", i, NoId).kind = "Reader"
         /\ New("Reader", i, NoId).ref = NoId
  <1> DEFINE all == UNION {States(k) : k \in Kinds}
  <1>1. Screen = [kind : Kinds, id : Ids, ref : Ids \union {NoId}, st : {"new"} \union all]
    BY DEF Screen
  <1>2. "Home" \in Kinds /\ "Reader" \in Kinds
    BY DEF Kinds
  <1> HIDE DEF all
  <1>. QED
    BY <1>1, <1>2 DEF New

LEMMA Entering ==
  ASSUME NEW s \in Screen, NEW st \in EntryStates(s)
  PROVE  /\ st \in Names
         /\ s.kind = "Browser" => st = "listed"
         /\ s.kind = "Home" => st = MenuState /\ st # "loaded"
  BY DEF EntryStates, Names, MenuState

LEMMA Resuming ==
  ASSUME NEW s \in Screen, s.st # "new"
  PROVE  /\ Moved(s, Resumed(s))
         /\ s.kind = "Browser" => Resumed(s).st = "listed"
         /\ s.kind = "Home" => Resumed(s).st = MenuState
  <1>1. MenuState \in Names /\ "listed" \in Names
    BY DEF MenuState, Names
  <1>2. /\ s.kind = "Home" => Resumed(s) = [s EXCEPT !.st = MenuState]
        /\ s.kind = "Browser" => Resumed(s) = [s EXCEPT !.st = "listed"]
        /\ s.kind \notin {"Home", "Browser"} => Resumed(s) = s
    BY DEF Resumed
  <1>3. Moved(s, s)
    BY DEF Moved
  <1>. QED
    BY <1>1, <1>2, <1>3, Becoming
-----------------------------------------------------------------------------
\* What the loop() of a screen does to the navigation: nothing, a pop, a push
\* or a replace.
StayShape ==
  /\ UNCHANGED <<stack, pending, action, levels>> /\ dirty' \in {dirty, TRUE}
  /\ \/ UNCHANGED current
     \/ /\ Moved(current, current') /\ current.kind # "Home"
        /\ current.kind = "Browser" => current'.st = "listed"

PopShape ==
  /\ action' = "Pop" /\ levels' \in {1, 2} /\ dirty' \in {dirty, TRUE}
  /\ UNCHANGED <<current, pending>>
  /\ stack' \in Seq(Screen) /\ Len(stack') = Len(stack)
  /\ \A n \in 1 .. Len(stack) : Moved(stack[n], stack'[n])

\* The references that a screen may hand to the one it pushes.
Handed ==
  \/ pending'.kind = "Chapters" /\ current.kind = "Reader" /\ pending'.ref = current.id
  \/ pending'.kind = "PageJump" /\ current.kind = "Chapters" /\ pending'.ref = current.ref
  \/ pending'.kind = "Keyboard" /\ current.kind = "WifiList" /\ pending'.ref = current.id

PushShape ==
  /\ action' = "Push" /\ UNCHANGED <<stack, levels, dirty>>
  /\ UNCHANGED current \/ Moved(current, current')
  /\ pending' \in Screen /\ pending'.kind \notin {"Home", "Message"}
  /\ pending'.ref # NoId => Handed
  /\ pending'.kind = "WifiList" => current.kind = "Home"
  /\ current.kind \in Session => pending'.kind \in Session

ReplaceShape ==
  /\ action' = "Replace" /\ UNCHANGED <<current, stack, levels, dirty>>
  /\ current.kind = "Message"
  /\ pending' \in Screen /\ pending'.kind = "Home" /\ pending'.ref = NoId

LoopShape ==
  /\ pc = "run" /\ pc' = "applyAfter" /\ UNCHANGED <<painted, scratch, lastBook, starved>>
  /\ StayShape \/ PopShape \/ PushShape \/ ReplaceShape

LEMMA StaysShaped ==
  ASSUME Stays
  PROVE  StayShape
  BY DEF Stays, StayShape, nav

LEMMA FinishShaped ==
  ASSUME Inv, RequestPop(1) \/ RequestPop(2), dirty' \in {dirty, TRUE}, UNCHANGED <<current, stack>>
  PROVE  PopShape
  <1>1. stack \in Seq(Screen)
    BY DEF Inv, TypeOK
  <1>2. \A n \in 1 .. Len(stack) : stack[n] \in Screen /\ stack[n].st # "new"
    BY <1>1 DEF Inv, EnteredInv
  <1>3. action' = "Pop" /\ levels' \in {1, 2} /\ UNCHANGED pending
    BY DEF RequestPop
  <1>. QED
    BY <1>1, <1>2, <1>3 DEF PopShape, Moved

\* A push that is refused changes nothing.
LEMMA PushShaped ==
  ASSUME Inv, NEW kind \in Kinds, NEW ref \in Ids \union {NoId}, Pushes(kind, ref),
         kind \notin {"Home", "Message"},
         kind = "WifiList" => current.kind = "Home",
         current.kind \in Session => kind \in Session,
         ref = NoId \/ (kind = "Chapters" /\ current.kind = "Reader" /\ ref = current.id)
                    \/ (kind = "PageJump" /\ current.kind = "Chapters" /\ ref = current.ref)
                    \/ (kind = "Keyboard" /\ current.kind = "WifiList" /\ ref = current.id)
  PROVE  StayShape \/ PushShape
  <1>1. UNCHANGED <<current, stack, dirty>>
    BY DEF Pushes
  <1>2. CASE OutOfMemory
    BY <1>1, <1>2 DEF OutOfMemory, StayShape, nav
  <1>3. CASE Allocates(kind, ref)
    <2>1. PICK i \in Ids : RequestPush(New(kind, i, ref))
      BY <1>3 DEF Allocates
    <2>2. /\ pending' \in Screen /\ pending'.kind = kind /\ pending'.ref = ref
          /\ action' = "Push" /\ UNCHANGED levels
      BY <2>1, Made DEF RequestPush
    <2>. QED
      BY <1>1, <2>2 DEF PushShape, Handed
  <1>. QED
    BY <1>2, <1>3 DEF Pushes, TryPush

LEMMA HomeShaped ==
  ASSUME Inv, HomeLoop
  PROVE  LoopShape
  <1>1. pc = "run" /\ pc' = "applyAfter" /\ UNCHANGED <<painted, scratch, lastBook, starved>> /\ current.kind = "Home"
    BY DEF HomeLoop, Runs
  <1>2. Stays \/ \E kind \in {"Reader", "Browser", "WifiList", "Settings"} : Pushes(kind, NoId)
    BY DEF HomeLoop
  <1>3. ASSUME NEW kind \in {"Reader", "Browser", "WifiList", "Settings"}, Pushes(kind, NoId)
        PROVE  StayShape \/ PushShape
    BY <1>1, <1>3, PushShaped DEF Kinds, Session
  <1>. QED
    BY <1>1, <1>2, <1>3, StaysShaped DEF LoopShape

LEMMA BrowserShaped ==
  ASSUME Inv, BrowserLoop
  PROVE  LoopShape
  <1>1. pc = "run" /\ pc' = "applyAfter" /\ UNCHANGED <<painted, scratch, lastBook, starved>> /\ current.kind = "Browser"
    BY DEF BrowserLoop, Runs
  <1>2. current \in Screen
    BY <1>1, NoScreenFields DEF Inv, TypeOK
  <1>3. CASE Stays
    BY <1>1, <1>3, StaysShaped DEF LoopShape
  <1>4. CASE Finishes
    BY <1>1, <1>4, FinishShaped DEF LoopShape, Finishes
  <1>5. CASE Allocates("Reader", NoId) /\ Becomes("dropped") /\ UNCHANGED <<stack, dirty>>
    <2>1. PICK i \in Ids : RequestPush(New("Reader", i, NoId))
      BY <1>5 DEF Allocates
    <2>2. /\ pending' \in Screen /\ pending'.kind = "Reader" /\ pending'.ref = NoId
          /\ action' = "Push" /\ UNCHANGED levels
      <3>2. /\ New("Reader", i, NoId) \in Screen /\ New("Reader", i, NoId).kind = "Reader"
            /\ New("Reader", i, NoId).ref = NoId
        BY MadeAlone
      <3>. QED
        BY <2>1, <3>2 DEF RequestPush
    <2>3. Moved(current, current')
      BY <1>2, <1>5, Becoming DEF Becomes, Names
    <2>. QED
      BY <1>1, <1>5, <2>2, <2>3 DEF LoopShape, PushShape, Session
  <1>6. CASE OutOfMemory /\ Becomes("listed") /\ dirty' = TRUE /\ UNCHANGED stack
    <2>1. Moved(current, current') /\ current'.st = "listed"
      BY <1>2, <1>6, Becoming DEF Becomes, Names
    <2>. QED
      BY <1>1, <1>6, <2>1 DEF LoopShape, StayShape, OutOfMemory, nav
  <1>. QED
    BY <1>3, <1>4, <1>5, <1>6 DEF BrowserLoop

LEMMA SettingsShaped ==
  ASSUME Inv, SettingsLoop \/ FirmwareLoop \/ LanguageLoop \/ TransferLoop \/ ReaderLoop
  PROVE  LoopShape
  <1>1. pc = "run" /\ pc' = "applyAfter" /\ UNCHANGED <<painted, scratch, lastBook, starved>>
    BY DEF SettingsLoop, FirmwareLoop, LanguageLoop, TransferLoop, ReaderLoop, Runs
  <1>2. \/ Stays \/ Finishes
        \/ current.kind \in {"Settings", "Firmware"} /\ \E kind \in {"Language", "Firmware", "Update"} : Pushes(kind, NoId)
        \/ current.kind = "Reader" /\ Pushes("Chapters", current.id)
    BY DEF SettingsLoop, FirmwareLoop, LanguageLoop, TransferLoop, ReaderLoop, Runs
  <1>3. CASE Stays
    BY <1>1, <1>3, StaysShaped DEF LoopShape
  <1>4. CASE Finishes
    BY <1>1, <1>4, FinishShaped DEF LoopShape, Finishes
  <1>5. CASE current.kind \in {"Settings", "Firmware"} /\ \E kind \in {"Language", "Firmware", "Update"} : Pushes(kind, NoId)
    <2>1. PICK kind \in {"Language", "Firmware", "Update"} : Pushes(kind, NoId)
      BY <1>5
    <2>2. StayShape \/ PushShape
      BY <1>5, <2>1, PushShaped DEF Kinds, Session
    <2>. QED
      BY <1>1, <2>2 DEF LoopShape
  <1>6. CASE current.kind = "Reader" /\ Pushes("Chapters", current.id)
    <2>1. current.id \in Ids
      BY <1>6, NoScreenFields, Fields DEF Inv, TypeOK
    <2>2. StayShape \/ PushShape
      BY <1>6, <2>1, PushShaped DEF Kinds, Session
    <2>. QED
      BY <1>1, <2>2 DEF LoopShape
  <1>. QED
    BY <1>2, <1>3, <1>4, <1>5, <1>6

LEMMA ChaptersShaped ==
  ASSUME Inv, ChaptersLoop \/ PageJumpLoop
  PROVE  LoopShape
  <1>1. pc = "run" /\ pc' = "applyAfter" /\ UNCHANGED <<painted, scratch, lastBook, starved>>
    BY DEF ChaptersLoop, PageJumpLoop, Runs
  <1>2. \/ Stays \/ Finishes
        \/ /\ RequestPop(1) \/ RequestPop(2)
           /\ dirty' \in {dirty, TRUE} /\ UNCHANGED <<current, stack>>
        \/ current.kind = "Chapters" /\ Pushes("PageJump", current.ref)
    BY DEF ChaptersLoop, PageJumpLoop, Runs
  <1>3. CASE Stays
    BY <1>1, <1>3, StaysShaped DEF LoopShape
  <1>4. CASE Finishes
    BY <1>1, <1>4, FinishShaped DEF LoopShape, Finishes
  <1>5. CASE /\ RequestPop(1) \/ RequestPop(2)
             /\ dirty' \in {dirty, TRUE} /\ UNCHANGED <<current, stack>>
    BY <1>1, <1>5, FinishShaped DEF LoopShape
  <1>6. CASE current.kind = "Chapters" /\ Pushes("PageJump", current.ref)
    <2>1. current.ref \in Ids \union {NoId}
      BY <1>6, NoScreenFields, Fields DEF Inv, TypeOK
    <2>2. StayShape \/ PushShape
      BY <1>6, <2>1, PushShaped DEF Kinds, Session
    <2>. QED
      BY <1>1, <2>2 DEF LoopShape
  <1>. QED
    BY <1>2, <1>3, <1>4, <1>5, <1>6

LEMMA MessageShaped ==
  ASSUME Inv, MessageLoop
  PROVE  LoopShape
  <1>1. pc = "run" /\ pc' = "applyAfter" /\ UNCHANGED <<painted, scratch, lastBook, starved>> /\ current.kind = "Message"
    BY DEF MessageLoop, Runs
  <1>2. CASE Stays
    BY <1>1, <1>2, StaysShaped DEF LoopShape
  <1>3. CASE /\ \E i \in Ids : Fresh(i) /\ RequestReplace(New("Home", i, NoId))
             /\ UNCHANGED <<current, stack, dirty>>
    <2>1. PICK i \in Ids : RequestReplace(New("Home", i, NoId))
      BY <1>3
    <2>2. /\ pending' \in Screen /\ pending'.kind = "Home" /\ pending'.ref = NoId
          /\ action' = "Replace" /\ UNCHANGED levels
      <3>2. /\ New("Home", i, NoId) \in Screen /\ New("Home", i, NoId).kind = "Home"
            /\ New("Home", i, NoId).ref = NoId
        BY MadeAlone
      <3>. QED
        BY <2>1, <3>2 DEF RequestReplace
    <2>. QED
      BY <1>1, <1>3, <2>2 DEF LoopShape, ReplaceShape
  <1>. QED
    BY <1>2, <1>3 DEF MessageLoop

\* A successful update restarts the device instead.
LEMMA UpdateShaped ==
  ASSUME Inv, UpdateLoop
  PROVE  LoopShape \/ Restart
  <1>1. CASE Restart
    BY <1>1
  <1>2. CASE /\ Runs("Update")
             /\ \/ Stays \/ Finishes
                \/ \E st \in {"Updating", "Failed"} : Becomes(st) /\ dirty' = TRUE /\ UNCHANGED <<stack, nav>>
    <2>1. pc = "run" /\ pc' = "applyAfter" /\ UNCHANGED <<painted, scratch, lastBook, starved>> /\ current.kind = "Update"
      BY <1>2 DEF Runs
    <2>2. CASE Stays
      BY <2>1, <2>2, StaysShaped DEF LoopShape
    <2>3. CASE Finishes
      BY <2>1, <2>3, FinishShaped DEF LoopShape, Finishes
    <2>4. CASE \E st \in {"Updating", "Failed"} : Becomes(st) /\ dirty' = TRUE /\ UNCHANGED <<stack, nav>>
      <3>1. current \in Screen
        BY <2>1, NoScreenFields DEF Inv, TypeOK
      <3>2. PICK st \in {"Updating", "Failed"} : Becomes(st)
        BY <2>4
      <3>3. st \in Names
        BY DEF Names
      <3>4. Moved(current, current')
        BY <3>1, <3>2, <3>3, Becoming DEF Becomes
      <3>. QED
        BY <2>1, <2>4, <3>4 DEF LoopShape, StayShape, nav
    <2>. QED
      BY <1>2, <2>2, <2>3, <2>4
  <1>. QED
    BY <1>1, <1>2 DEF UpdateLoop

LEMMA WifiListShaped ==
  ASSUME Inv, WifiListLoop
  PROVE  LoopShape
  <1>1. pc = "run" /\ pc' = "applyAfter" /\ UNCHANGED <<painted, scratch, lastBook, starved>> /\ current.kind = "WifiList"
    BY DEF WifiListLoop, Runs
  <1>2. current \in Screen
    BY <1>1, NoScreenFields DEF Inv, TypeOK
  <1>3. CASE Stays
    BY <1>1, <1>3, StaysShaped DEF LoopShape
  <1>4. CASE Finishes
    BY <1>1, <1>4, FinishShaped DEF LoopShape, Finishes
  <1>5. CASE /\ \E st \in {"Connecting", "NetworkList", "Failed", "ClearPassword"} : Becomes(st)
             /\ dirty' = TRUE /\ UNCHANGED <<stack, nav>>
    <2>0. PICK st \in {"Connecting", "NetworkList", "Failed", "ClearPassword"} : Becomes(st)
      BY <1>5
    <2>1. Moved(current, current')
      <3>1. st \in Names
        BY DEF Names
      <3>. QED
        BY <1>2, <2>0, <3>1, Becoming DEF Becomes
    <2>. QED
      BY <1>1, <1>5, <2>1 DEF LoopShape, StayShape, nav
  <1>6. CASE Pushes("Keyboard", current.id) \/ Pushes("Transfer", NoId)
    <2>1. current.id \in Ids
      BY <1>2, Fields
    <2>2. StayShape \/ PushShape
      BY <1>1, <1>6, <2>1, PushShaped DEF Kinds, Session
    <2>. QED
      BY <1>1, <2>2 DEF LoopShape
  <1>. QED
    BY <1>3, <1>4, <1>5, <1>6 DEF WifiListLoop

LEMMA KeyboardShaped ==
  ASSUME Inv, KeyboardLoop
  PROVE  LoopShape
  <1>1. pc = "run" /\ pc' = "applyAfter" /\ UNCHANGED <<painted, scratch, lastBook, starved>>
    BY DEF KeyboardLoop, Runs
  <1>2. CASE Stays
    BY <1>1, <1>2, StaysShaped DEF LoopShape
  <1>3. ASSUME NEW st \in {"Connecting", "NetworkList"},
               stack' = [n \in DOMAIN stack |-> IF stack[n].id = current.ref
                                                THEN [stack[n] EXCEPT !.st = st] ELSE stack[n]],
               dirty' = TRUE, RequestPop(1), UNCHANGED current
        PROVE  PopShape
    <2>1. stack \in Seq(Screen) /\ DOMAIN stack = 1 .. Len(stack)
      BY DEF Inv, TypeOK
    <2>2. \A n \in 1 .. Len(stack) : stack[n] \in Screen /\ stack[n].st # "new"
      BY <2>1 DEF Inv, EnteredInv
    <2>3. \A n \in 1 .. Len(stack) : Moved(stack[n], stack'[n])
      <3>1. ASSUME NEW n \in 1 .. Len(stack)
            PROVE  Moved(stack[n], [stack[n] EXCEPT !.st = st]) /\ Moved(stack[n], stack[n])
        <4>1. st \in Names
          BY DEF Names
        <4>. QED
          BY <2>2, <4>1, Becoming DEF Moved
      <3>. QED
        BY <1>3, <2>1, <3>1
    <2>4. stack' \in Seq(Screen) /\ Len(stack') = Len(stack)
      <3>1. DOMAIN stack' = 1 .. Len(stack) /\ \A n \in 1 .. Len(stack) : stack'[n] \in Screen
        BY <1>3, <2>1, <2>3 DEF Moved
      <3>2. stack' = [n \in 1 .. Len(stack) |-> stack'[n]]
        BY <1>3, <2>1
      <3>3. Len(stack) \in Nat
        BY <2>1
      <3>4. [n \in 1 .. Len(stack) |-> stack'[n]] \in Seq(Screen)
        BY <3>1, <3>3, IsASeq
      <3>. QED
        BY <3>1, <3>2, <3>3, <3>4, LenProperties
    <2>. QED
      BY <1>3, <2>3, <2>4 DEF PopShape, RequestPop
  <1>. QED
    BY <1>1, <1>2, <1>3 DEF KeyboardLoop, LoopShape

LEMMA LoopShaped ==
  ASSUME Inv, ScreenLoop
  PROVE  LoopShape \/ Restart
  <1>1. CASE NoScreenLoop
    BY <1>1 DEF NoScreenLoop, LoopShape, StayShape, nav
  <1>. QED
    BY <1>1, HomeShaped, BrowserShaped, SettingsShaped, ChaptersShaped, MessageShaped, UpdateShaped,
       WifiListShaped, KeyboardShaped DEF ScreenLoop
-----------------------------------------------------------------------------
\* A screen that moved is still the target it was.
LEMMA TargetMoves ==
  ASSUME NEW s, NEW t, NEW u, NEW v, Moved(t, v), Target(t, s), u.ref = s.ref, u.kind = s.kind
  PROVE  Target(v, u)
  BY DEF Moved, Target

LEMMA StayKeeps ==
  ASSUME Inv, LoopShape, StayShape
  PROVE  Inv'
  <1> USE DEF Inv
  <1>1. /\ pc = "run" /\ pc' = "applyAfter"
        /\ UNCHANGED <<painted, scratch, lastBook, starved, stack, pending, action, levels>>
        /\ dirty' \in {dirty, TRUE}
    BY DEF LoopShape, StayShape
  <1>2. CASE UNCHANGED current
    <2>1. TypeOK'
      BY <1>1, <1>2 DEF TypeOK, PcValues
    <2>2. SlotInv' /\ BootInv' /\ BottomInv' /\ EnteredInv'
      BY <1>1, <1>2 DEF SlotInv, BootInv, BottomInv, EnteredInv
    <2>3. RefInv' /\ SessionInv'
      BY <1>1, <1>2 DEF RefInv, Target, SessionInv
    <2>4. PaintInv' /\ FreshInv'
      BY <1>1, <1>2 DEF PaintInv, FreshInv, MenuState
    <2>. QED
      BY <2>1, <2>2, <2>3, <2>4
  <1>3. CASE /\ Moved(current, current') /\ current.kind # "Home"
             /\ current.kind = "Browser" => current'.st = "listed"
    <2>1. /\ current' \in Screen /\ current'.id = current.id /\ current'.kind = current.kind
          /\ current'.ref = current.ref /\ current'.st # "new"
      BY <1>3 DEF Moved
    <2>2. current' # NoScreen
      BY <2>1, Fields
    <2>3. current # NoScreen
      BY <2>1, NoScreenFields, Fields
    <2>4. TypeOK'
      BY <1>1, <2>1 DEF TypeOK, PcValues
    <2>5. SlotInv' /\ BootInv'
      BY <1>1 DEF SlotInv, BootInv
    <2>6. BottomInv' /\ EnteredInv'
      BY <1>1, <2>1 DEF BottomInv, EnteredInv
    <2>7. RefInv'
      BY <1>1, <2>1 DEF RefInv, Target
    <2>8. PaintInv'
      BY <1>1, <2>1, <2>3 DEF PaintInv
    <2>9. SessionInv'
      BY <1>1, <2>1 DEF SessionInv
    <2>10. FreshInv'
      BY <1>1, <1>3, <2>1, <2>2 DEF FreshInv
    <2>. QED
      BY <2>4, <2>5, <2>6, <2>7, <2>8, <2>9, <2>10
  <1>. QED
    BY <1>2, <1>3 DEF StayShape

LEMMA PopKeeps ==
  ASSUME Inv, LoopShape, PopShape
  PROVE  Inv'
  <1> USE DEF Inv
  <1>1. /\ pc = "run" /\ pc' = "applyAfter"
        /\ UNCHANGED <<painted, scratch, lastBook, starved, current, pending>>
        /\ action' = "Pop" /\ levels' \in {1, 2} /\ dirty' \in {dirty, TRUE}
    BY DEF LoopShape, PopShape
  <1>2. /\ stack' \in Seq(Screen) /\ Len(stack') = Len(stack) /\ Len(stack) \in Nat
        /\ \A n \in 1 .. Len(stack) : Moved(stack[n], stack'[n])
    BY DEF PopShape, TypeOK
  <1>3. \A n \in 1 .. Len(stack) : /\ stack'[n].kind = stack[n].kind /\ stack'[n].ref = stack[n].ref
                                  /\ stack'[n].st # "new"
    BY <1>2 DEF Moved
  <1>4. action = "None" /\ pending = NoScreen
    BY <1>1 DEF SlotInv
  <1>5. TypeOK'
    BY <1>1, <1>2 DEF TypeOK, PcValues
  <1>6. SlotInv' /\ BootInv'
    BY <1>1, <1>4 DEF SlotInv, BootInv
  <1>7. BottomInv' /\ EnteredInv'
    <2>1. stack = <<>> => stack' = <<>>
      BY <1>2
    <2>2. \A n \in 2 .. Len(stack) : n \in 1 .. Len(stack)
      BY <1>2
    <2>. QED
      BY <1>1, <1>2, <1>3, <2>1, <2>2 DEF BottomInv, EnteredInv
  <1>8. RefInv'
    <2>1. ASSUME NEW n \in 1 .. Len(stack), stack'[n].ref # NoId
          PROVE  \E k \in 1 .. n - 1 : Target(stack'[k], stack'[n])
      <3>1. PICK k \in 1 .. n - 1 : Target(stack[k], stack[n])
        BY <1>3, <2>1 DEF RefInv
      <3>2. k \in 1 .. Len(stack)
        BY <1>2
      <3>3. Target(stack'[k], stack'[n])
        BY <1>2, <1>3, <3>1, <3>2, TargetMoves
      <3>. QED
        BY <3>3
    <2>2. ASSUME current.ref # NoId
          PROVE  \E k \in 1 .. Len(stack) : Target(stack'[k], current)
      BY <1>2, <2>2, TargetMoves DEF RefInv
    <2>. QED
      BY <1>1, <1>2, <1>4, <2>1, <2>2, NoScreenFields DEF RefInv
  <1>9. PaintInv'
    BY <1>1 DEF PaintInv
  <1>10. SessionInv'
    BY <1>1, <1>2, <1>3 DEF SessionInv
  <1>11. FreshInv'
    BY <1>1 DEF FreshInv
  <1>. QED
    BY <1>5, <1>6, <1>7, <1>8, <1>9, <1>10, <1>11

LEMMA PushKeeps ==
  ASSUME Inv, LoopShape, PushShape
  PROVE  Inv'
  <1> USE DEF Inv
  <1>1. /\ pc = "run" /\ pc' = "applyAfter"
        /\ UNCHANGED <<painted, scratch, lastBook, starved, stack, levels, dirty>>
        /\ action' = "Push" /\ pending' \in Screen /\ pending'.kind \notin {"Home", "Message"}
    BY DEF LoopShape, PushShape
  <1>2. action = "None" /\ pending = NoScreen
    BY <1>1 DEF SlotInv
  <1>3. /\ current' \in Screen \union {NoScreen}
        /\ current'.id = current.id /\ current'.kind = current.kind /\ current'.ref = current.ref
        /\ current # NoScreen => current'.st # "new"
        /\ current = NoScreen => current' = NoScreen
    <2>1. CASE UNCHANGED current
      BY <2>1 DEF TypeOK, EnteredInv
    <2>2. CASE Moved(current, current')
      <3>1. current' \in Screen /\ current'.id = current.id
        BY <2>2 DEF Moved
      <3>2. current # NoScreen
        BY <3>1, NoScreenFields, Fields
      <3>. QED
        BY <2>2, <3>1, <3>2 DEF Moved
    <2>. QED
      BY <2>1, <2>2 DEF PushShape
  <1>4. current' # NoScreen => current # NoScreen
    BY <1>3
  <1>5. TypeOK'
    BY <1>1, <1>3 DEF TypeOK, PcValues
  <1>6. SlotInv' /\ BootInv'
    BY <1>1, Fields DEF SlotInv, BootInv
  <1>7. BottomInv' /\ EnteredInv'
    BY <1>1, <1>3, <1>4 DEF BottomInv, EnteredInv
  <1>8. RefInv'
    <2>1. ASSUME pending'.ref # NoId
          PROVE  \/ Target(current', pending')
                 \/ \E k \in 1 .. Len(stack) : Target(stack[k], pending')
      <3>1. Handed
        BY <2>1 DEF PushShape
      <3>2. CASE current.kind \in {"Reader", "WifiList"} /\ pending'.ref = current.id
                 /\ (current.kind = "WifiList" <=> pending'.kind = "Keyboard")
        <4>1. current # NoScreen
          BY <3>2, NoScreenFields
        <4>2. current'.st # "new"
          BY <1>3, <4>1
        <4>3. current'.kind = IF pending'.kind = "Keyboard" THEN "WifiList" ELSE "Reader"
          BY <1>3, <3>2
        <4>. QED
          BY <1>3, <3>2, <4>2, <4>3 DEF Target
      <3>3. CASE pending'.kind = "PageJump" /\ current.kind = "Chapters" /\ pending'.ref = current.ref
        <4>1. PICK k \in 1 .. Len(stack) : Target(stack[k], current)
          BY <2>1, <3>3 DEF RefInv
        <4>2. Target(stack[k], pending')
          BY <3>3, <4>1 DEF Target
        <4>. QED
          BY <4>2
      <3>. QED
        BY <3>1, <3>2, <3>3 DEF Handed
    <2>2. \A n \in 1 .. Len(stack) :
            stack[n].ref # NoId => \E k \in 1 .. n - 1 : Target(stack[k], stack[n])
      BY DEF RefInv
    <2>3. current'.ref # NoId => \E k \in 1 .. Len(stack) : Target(stack[k], current')
      BY <1>3 DEF RefInv, Target
    <2>. QED
      BY <1>1, <2>1, <2>2, <2>3 DEF RefInv
  <1>9. PaintInv'
    BY <1>1, <1>2, <1>3, <1>4 DEF PaintInv
  <1>10. SessionInv'
    BY <1>1, <1>3 DEF SessionInv, PushShape
  <1>11. FreshInv'
    BY <1>1 DEF FreshInv
  <1>. QED
    BY <1>5, <1>6, <1>7, <1>8, <1>9, <1>10, <1>11

LEMMA ReplaceKeeps ==
  ASSUME Inv, LoopShape, ReplaceShape
  PROVE  Inv'
  <1> USE DEF Inv
  <1>1. /\ pc = "run" /\ pc' = "applyAfter"
        /\ UNCHANGED <<painted, scratch, lastBook, starved, current, stack, levels, dirty>>
        /\ action' = "Replace" /\ current.kind = "Message"
        /\ pending' \in Screen /\ pending'.kind = "Home" /\ pending'.ref = NoId
    BY DEF LoopShape, ReplaceShape
  <1>2. action = "None" /\ stack = <<>>
    BY <1>1 DEF SlotInv, BottomInv
  <1>3. TypeOK'
    BY <1>1 DEF TypeOK, PcValues
  <1>4. SlotInv' /\ BootInv'
    BY <1>1, <1>2, Fields DEF SlotInv, BootInv
  <1>5. BottomInv' /\ EnteredInv'
    BY <1>1 DEF BottomInv, EnteredInv
  <1>6. RefInv'
    BY <1>1 DEF RefInv, Target
  <1>7. PaintInv' /\ FreshInv'
    BY <1>1, <1>2 DEF PaintInv, FreshInv
  <1>8. SessionInv'
    BY <1>1 DEF SessionInv, Session
  <1>. QED
    BY <1>3, <1>4, <1>5, <1>6, <1>7, <1>8
-----------------------------------------------------------------------------
\* The screen uncovered by a pop, and what is left below it.
LEMMA Popped ==
  ASSUME Inv, stack # <<>>
  PROVE  /\ Len(stack) \in Nat /\ Len(stack) >= 1
         /\ Last(stack) = stack[Len(stack)] /\ Last(stack) \in Screen
         /\ Front(stack) \in Seq(Screen) /\ Len(Front(stack)) = Len(stack) - 1
         /\ \A n \in 1 .. Len(stack) - 1 : Front(stack)[n] = stack[n]
         /\ Len(stack) = 1 => Front(stack) = <<>>
  <1>1. stack \in Seq(Screen)
    BY DEF Inv, TypeOK
  <1>2. Len(stack) \in Nat /\ Len(stack) >= 1 /\ Last(stack) = stack[Len(stack)] /\ Last(stack) \in Screen
    BY <1>1 DEF Last
  <1>3. Front(stack) = SubSeq(stack, 1, Len(stack) - 1)
    BY DEF Front
  <1>4. /\ SubSeq(stack, 1, Len(stack) - 1) \in Seq(Screen)
        /\ Len(SubSeq(stack, 1, Len(stack) - 1)) = Len(stack) - 1
        /\ \A n \in 1 .. Len(stack) - 1 : SubSeq(stack, 1, Len(stack) - 1)[n] = stack[n]
    <2> DEFINE m == Len(stack) - 1
    <2>1. m \in 0 .. Len(stack) /\ 1 \in 1 .. Len(stack) + 1
      BY <1>2
    <2> HIDE DEF m
    <2>2. /\ SubSeq(stack, 1, m) \in Seq(Screen) /\ Len(SubSeq(stack, 1, m)) = m
          /\ \A n \in 1 .. m : SubSeq(stack, 1, m)[n] = stack[n]
      BY <1>1, <1>2, <2>1
    <2>. QED
      BY <2>2 DEF m
  <1>5. Len(stack) = 1 => Front(stack) = <<>>
    BY <1>2, <1>3, <1>4
  <1>. QED
    BY <1>2, <1>3, <1>4, <1>5

\* A pop of one level, from a screen whose onExit() returns.
LEMMA PopApplied ==
  ASSUME Inv, ApplyPop
  PROVE  Inv'
  <1> USE DEF Inv
  <1> DEFINE top == Last(stack)
  <1>1. /\ Applying /\ action = "Pop" /\ stack # <<>> /\ stack' = Front(stack)
        /\ current # NoScreen => ~EndsSession(current)
        /\ UNCHANGED <<pending, pc, painted, scratch, lastBook, starved>>
    BY DEF ApplyPop
  <1>2. /\ Len(stack) \in Nat /\ Len(stack) >= 1 /\ top = stack[Len(stack)] /\ top \in Screen
        /\ Front(stack) \in Seq(Screen) /\ Len(Front(stack)) = Len(stack) - 1
        /\ \A n \in 1 .. Len(stack) - 1 : Front(stack)[n] = stack[n]
        /\ Len(stack) = 1 => Front(stack) = <<>>
    BY <1>1, Popped
  <1>3. top.st # "new"
    BY <1>2 DEF EnteredInv
  <1>4. /\ Moved(top, current') /\ levels' \in {1, 2} /\ dirty' \in {dirty, TRUE}
        /\ \/ action' = "Pop"
           \/ /\ action' = "None" /\ dirty' = TRUE
              /\ top.kind = "Browser" => current'.st = "listed"
              /\ top.kind = "Home" => current'.st = MenuState
    <2>1. CASE levels > 1
      BY <1>1, <1>2, <1>3, <2>1 DEF ApplyPop, Moved, TypeOK
    <2>2. CASE ~(levels > 1)
      <3>1. Uncover(top)
        BY <2>2 DEF ApplyPop
      <3>2. /\ Moved(top, Resumed(top))
            /\ top.kind = "Browser" => Resumed(top).st = "listed"
            /\ top.kind = "Home" => Resumed(top).st = MenuState
        BY <1>2, <1>3, Resuming
      <3>. QED
        BY <3>1, <3>2 DEF Uncover
    <2>. QED
      BY <2>1, <2>2
  <1> HIDE DEF top
  <1>5. /\ current' \in Screen /\ current'.kind = top.kind /\ current'.ref = top.ref
        /\ current'.st # "new" /\ current' # NoScreen
    BY <1>4, Fields DEF Moved
  <1>6. pending = NoScreen
    BY <1>1 DEF SlotInv
  <1>7. pc \in {"applyBefore", "applyAfter"}
    BY <1>1 DEF Applying
  <1>8. TypeOK'
    BY <1>1, <1>2, <1>4, <1>5 DEF TypeOK
  <1>9. SlotInv' /\ BootInv'
    BY <1>1, <1>4, <1>6, <1>7 DEF SlotInv, BootInv
  <1>10. BottomInv'
    <2>1. top.kind \in {"Home", "Message"} => Len(stack) = 1
      BY <1>2 DEF BottomInv
    <2>. QED
      BY <1>1, <1>2, <1>5, <2>1 DEF BottomInv
  <1>11. EnteredInv'
    BY <1>1, <1>2, <1>5 DEF EnteredInv
  <1>12. RefInv'
    <2>1. \A n \in 1 .. Len(stack) - 1 :
            stack[n].ref # NoId => \E k \in 1 .. n - 1 : Target(stack[k], stack[n])
      BY <1>2 DEF RefInv
    <2>2. ASSUME NEW n \in 1 .. Len(stack) - 1, NEW k \in 1 .. n - 1
          PROVE  k \in 1 .. Len(stack) - 1
      BY <1>2
    <2>3. ASSUME current'.ref # NoId
          PROVE  \E k \in 1 .. Len(stack) - 1 : Target(stack[k], current')
      <3>1. PICK k \in 1 .. Len(stack) - 1 : Target(stack[k], top)
        BY <1>2, <1>5, <2>3 DEF RefInv
      <3>2. Target(stack[k], current')
        BY <1>5, <3>1 DEF Target
      <3>. QED
        BY <3>2
    <2>. QED
      BY <1>1, <1>2, <1>6, <2>1, <2>2, <2>3, NoScreenFields DEF RefInv
  <1>13. PaintInv'
    BY <1>1, <1>4, <1>7 DEF PaintInv
  <1>14. SessionInv'
    <2>1. CASE scratch = "released"
      <3>1. /\ current.kind \in Session
            /\ current.kind = "WifiList" \/ \E n \in 1 .. Len(stack) : stack[n].kind = "WifiList"
            /\ \A n \in 1 .. Len(stack) : stack[n].kind \in Session \union {"Home"}
        BY <1>7, <2>1 DEF SessionInv
      <3>2. current.kind # "WifiList"
        BY <1>1, <3>1, NoScreenFields DEF EndsSession
      <3>3. PICK n \in 1 .. Len(stack) : stack[n].kind = "WifiList"
        BY <3>1, <3>2
      <3>4. top.kind # "Home"
        <4>1. CASE Len(stack) = 1
          BY <1>2, <3>3, <4>1
        <4>2. CASE Len(stack) # 1
          BY <1>2, <4>2 DEF BottomInv
        <4>. QED
          BY <4>1, <4>2
      <3>5. top.kind \in Session
        BY <1>2, <3>1, <3>4
      <3>6. top.kind = "WifiList" \/ n \in 1 .. Len(stack) - 1
        BY <1>2, <3>3
      <3>7. \A k \in 1 .. Len(stack) - 1 : stack[k].kind \in Session \union {"Home"}
        BY <1>2, <3>1
      <3>. QED
        BY <1>1, <1>2, <1>5, <1>6, <3>3, <3>5, <3>6, <3>7, NoScreenFields DEF SessionInv
    <2>2. CASE scratch # "released"
      BY <1>1, <1>6, <2>2, NoScreenFields DEF SessionInv
    <2>. QED
      BY <2>1, <2>2
  <1>15. FreshInv'
    <2>1. MenuState' = MenuState
      BY <1>1 DEF MenuState
    <2>. QED
      BY <1>4, <1>5, <2>1 DEF FreshInv
  <1>. QED
    BY <1>8, <1>9, <1>10, <1>11, <1>12, <1>13, <1>14, <1>15

LEMMA PopRootApplied ==
  ASSUME Inv, ApplyPopRoot
  PROVE  Inv'
  <1> USE DEF Inv
  <1>1. /\ Applying /\ action = "Pop" /\ stack = <<>> /\ current' = NoScreen /\ levels' = 1
        /\ current # NoScreen => ~EndsSession(current)
        /\ UNCHANGED <<stack, dirty, pc, painted, scratch, lastBook>>
    BY DEF ApplyPopRoot
  <1>2. pc \in {"applyBefore", "applyAfter"} /\ pending = NoScreen
    BY <1>1 DEF Applying, SlotInv
  <1>3. \/ /\ action' = "Replace" /\ UNCHANGED starved
           /\ pending' \in Screen /\ pending'.kind = "Home" /\ pending'.ref = NoId
        \/ action' = "None" /\ starved' = TRUE /\ pending' = NoScreen
    <2>1. HomeRequested
      BY DEF ApplyPopRoot
    <2>2. ASSUME NEW i \in Ids, pending' = New("Home", i, NoId)
          PROVE  pending' \in Screen /\ pending'.kind = "Home" /\ pending'.ref = NoId
      BY <2>2, MadeAlone
    <2>. QED
      BY <1>2, <2>1, <2>2 DEF HomeRequested
  <1>4. TypeOK'
    BY <1>1, <1>3 DEF TypeOK
  <1>5. SlotInv' /\ BootInv'
    BY <1>1, <1>2, <1>3, Fields DEF SlotInv, BootInv
  <1>6. BottomInv' /\ EnteredInv'
    BY <1>1, NoScreenFields DEF BottomInv, EnteredInv
  <1>7. RefInv'
    BY <1>1, <1>3, NoScreenFields DEF RefInv
  <1>8. PaintInv'
    BY <1>1, <1>2 DEF PaintInv
  <1>9. scratch # "released"
    <2>1. SUFFICES ASSUME scratch = "released"
                   PROVE  FALSE
      OBVIOUS
    <2>2. current.kind \in Session /\ current.kind = "WifiList"
      BY <1>1, <1>2, <2>1 DEF SessionInv
    <2>. QED
      BY <1>1, <2>2, NoScreenFields DEF EndsSession
  <1>10. SessionInv'
    BY <1>1, <1>3, <1>9, NoScreenFields DEF SessionInv
  <1>11. FreshInv'
    BY <1>1, <1>3, NoScreenFields DEF FreshInv
  <1>. QED
    BY <1>4, <1>5, <1>6, <1>7, <1>8, <1>10, <1>11

LEMMA RestartKeeps ==
  ASSUME Inv, Restart
  PROVE  Inv'
  <1> USE DEF Inv
  <1>1. /\ pc' = "boot" /\ current' = NoScreen /\ stack' = <<>> /\ pending' = NoScreen
        /\ action' = "None" /\ levels' = 1 /\ dirty' = FALSE /\ painted' = NoId /\ starved' = FALSE
        /\ UNCHANGED <<scratch, lastBook>>
    BY DEF Restart
  <1>2. TypeOK'
    <2>1. <<>> \in Seq(Screen)
      OBVIOUS
    <2>2. dirty' \in BOOLEAN /\ starved' \in BOOLEAN
      BY <1>1
    <2>. QED
      BY <1>1, <2>1, <2>2 DEF TypeOK, PcValues
  <1>3. SlotInv' /\ BootInv' /\ BottomInv' /\ EnteredInv' /\ RefInv'
    BY <1>1, NoScreenFields DEF SlotInv, BootInv, BottomInv, EnteredInv, RefInv
  <1>4. PaintInv' /\ SessionInv' /\ FreshInv'
    BY <1>1, NoScreenFields DEF PaintInv, SessionInv, FreshInv
  <1>. QED
    BY <1>2, <1>3, <1>4

\* The entry of the screen in the slot.
LEMMA EntryApplied ==
  ASSUME Inv, ApplyEntry
  PROVE  Inv'
  <1> USE DEF Inv
  <1>1. /\ Applying /\ action \in {"Push", "Replace"} /\ UNCHANGED starved
        /\ (action = "Replace" /\ current # NoScreen /\ pending # NoScreen) => ~EndsSession(current)
    BY DEF ApplyEntry
  <1>2. pc \in {"applyBefore", "applyAfter"} /\ pending # NoScreen /\ pending \in Screen
    BY <1>1 DEF Applying, SlotInv, TypeOK
  <1>3. stack' = Covered /\ Enter(pending)
    BY <1>2 DEF ApplyEntry
  <1>4. PICK st \in EntryStates(pending) : current' = [pending EXCEPT !.st = st]
    BY <1>3 DEF Enter
  <1>5. /\ st \in Names
        /\ pending.kind = "Browser" => st = "listed"
        /\ pending.kind = "Home" => st = MenuState /\ st # "loaded"
    BY <1>2, Entering
  <1>6. /\ current' \in Screen /\ current'.kind = pending.kind /\ current'.ref = pending.ref
        /\ current'.st = st /\ st # "new" /\ current' # NoScreen
    <2>1. Moved(pending, current') /\ current'.st = st
      BY <1>2, <1>4, <1>5, Becoming
    <2>. QED
      BY <2>1, Fields DEF Moved
  <1>7. /\ pending' = NoScreen /\ action' = "None" /\ dirty' = TRUE
        /\ UNCHANGED <<levels, pc, painted>>
        /\ lastBook' = (lastBook \/ st = "loaded")
        /\ scratch' = IF pending.kind = "WifiList" THEN "released" ELSE scratch
    BY <1>3, <1>6 DEF Enter
  <1>8. /\ stack' \in Seq(Screen) /\ Len(stack') \in Nat /\ Len(stack) \in Nat
        /\ \/ action = "Push" /\ current # NoScreen /\ stack' = Append(stack, current)
           \/ action = "Push" /\ current = NoScreen /\ stack' = stack
           \/ action = "Replace" /\ stack' = <<>>
    <2>1. stack \in Seq(Screen) /\ (current # NoScreen => current \in Screen)
      BY DEF TypeOK
    <2>2. \/ action = "Push" /\ current # NoScreen /\ stack' = Append(stack, current)
          \/ action = "Push" /\ current = NoScreen /\ stack' = stack
          \/ action = "Replace" /\ stack' = <<>>
      BY <1>1, <1>3 DEF Covered, Path
    <2>3. stack' \in Seq(Screen)
      <3>1. CASE current # NoScreen /\ stack' = Append(stack, current)
        BY <2>1, <3>1
      <3>2. CASE stack' = <<>>
        BY <3>2
      <3>. QED
        BY <2>1, <2>2, <3>1, <3>2
    <2>. QED
      BY <2>1, <2>2, <2>3
  \* The covered screens are those of the path.
  <1>9. ASSUME NEW n \in 1 .. Len(stack')
        PROVE  \/ n \in 1 .. Len(stack) /\ stack'[n] = stack[n] /\ stack' # <<>>
               \/ n = Len(stack) + 1 /\ stack'[n] = current /\ current # NoScreen
    <2>1. stack \in Seq(Screen)
      BY DEF TypeOK
    <2>2. CASE current # NoScreen /\ stack' = Append(stack, current)
      BY <2>1, <2>2
    <2>3. CASE stack' = stack
      BY <2>1, <2>3
    <2>4. CASE stack' = <<>>
      BY <2>4
    <2>. QED
      BY <1>8, <2>2, <2>3, <2>4
  <1>10. TypeOK'
    <2>1. lastBook' \in BOOLEAN
      BY <1>7
    <2>2. scratch' \in {"reserved", "released"}
      BY <1>7 DEF TypeOK
    <2>. QED
      BY <1>1, <1>6, <1>7, <1>8, <2>1, <2>2 DEF TypeOK
  <1>11. SlotInv' /\ BootInv'
    BY <1>2, <1>7 DEF SlotInv, BootInv
  <1>12. BottomInv'
    <2>1. ASSUME NEW n \in 2 .. Len(stack')
          PROVE  stack'[n].kind \notin {"Home", "Message"}
      <3>1. n \in 1 .. Len(stack')
        BY <1>8
      <3>2. CASE n \in 1 .. Len(stack) /\ stack'[n] = stack[n]
        BY <1>8, <3>2 DEF BottomInv
      <3>3. CASE n = Len(stack) + 1 /\ stack'[n] = current
        <4>1. stack # <<>>
          BY <1>8, <3>3
        <4>. QED
          BY <3>3, <4>1 DEF BottomInv
      <3>. QED
        BY <1>9, <3>1, <3>2, <3>3
    <2>2. current'.kind \in {"Home", "Message"} => stack' = <<>>
      BY <1>1, <1>6, <1>8 DEF SlotInv
    <2>. QED
      BY <2>1, <2>2 DEF BottomInv
  <1>13. EnteredInv'
    BY <1>6, <1>9 DEF EnteredInv
  <1>14. RefInv'
    <2>1. ASSUME NEW n \in 1 .. Len(stack'), stack'[n].ref # NoId
          PROVE  \E k \in 1 .. n - 1 : Target(stack'[k], stack'[n])
      <3>1. PICK k \in 1 .. n - 1 : k \in 1 .. Len(stack) /\ Target(stack[k], stack'[n])
        BY <1>8, <1>9, <2>1 DEF RefInv
      <3>2. k \in 1 .. Len(stack') /\ k # Len(stack) + 1
        BY <1>8, <3>1
      <3>3. stack'[k] = stack[k]
        BY <1>9, <3>2
      <3>. QED
        BY <3>1, <3>3
    <2>2. ASSUME current'.ref # NoId
          PROVE  \E k \in 1 .. Len(stack') : Target(stack'[k], current')
      <3>1. \/ Target(current, pending)
            \/ \E k \in 1 .. Len(stack) : Target(stack[k], pending)
        BY <1>6, <2>2 DEF RefInv
      <3>2. action = "Push"
        BY <1>1, <1>6, <2>2 DEF SlotInv
      <3>3. CASE Target(current, pending)
        <4>1. current # NoScreen
          BY <1>6, <2>2, <3>3, NoScreenFields DEF Target
        <4>2. stack' = Append(stack, current)
          BY <1>8, <3>2, <4>1
        <4>3. Len(stack) + 1 \in 1 .. Len(stack') /\ stack'[Len(stack) + 1] = current
          BY <4>2 DEF TypeOK
        <4>4. Target(current, current')
          BY <1>6, <3>3 DEF Target
        <4>. QED
          BY <4>3, <4>4
      <3>4. CASE \E k \in 1 .. Len(stack) : Target(stack[k], pending)
        <4>1. PICK k \in 1 .. Len(stack) : Target(stack[k], pending)
          BY <3>4
        <4>2. stack' = Append(stack, current) \/ stack' = stack
          BY <1>8, <3>2
        <4>3. k \in 1 .. Len(stack') /\ stack'[k] = stack[k]
          BY <4>2 DEF TypeOK
        <4>4. Target(stack'[k], current')
          BY <1>6, <4>1, <4>3 DEF Target
        <4>. QED
          BY <4>3, <4>4
      <3>. QED
        BY <3>1, <3>3, <3>4
    <2>. QED
      BY <1>7, <2>1, <2>2, NoScreenFields DEF RefInv
  <1>15. PaintInv'
    BY <1>2, <1>7 DEF PaintInv
  <1>16. SessionInv'
    <2>1. pending'.kind # "WifiList"
      BY <1>7, NoScreenFields
    <2>2. CASE pending.kind = "WifiList"
      <3>1. current.kind = "Home" /\ stack = <<>>
        BY <2>2 DEF SessionInv, BottomInv
      <3>2. \A n \in 1 .. Len(stack') : stack'[n].kind = "Home"
        <4>1. Len(stack) = 0
          BY <3>1
        <4>. QED
          BY <1>9, <3>1, <4>1
      <3>3. current'.kind = "WifiList" /\ "WifiList" \in Session
        BY <1>6, <2>2 DEF Session
      <3>. QED
        BY <1>7, <2>1, <3>2, <3>3 DEF SessionInv
    <2>3. CASE pending.kind # "WifiList" /\ scratch = "released"
      <3>1. /\ current.kind \in Session
            /\ current.kind = "WifiList" \/ \E n \in 1 .. Len(stack) : stack[n].kind = "WifiList"
            /\ \A n \in 1 .. Len(stack) : stack[n].kind \in Session \union {"Home"}
            /\ pending.kind \in Session
        BY <1>2, <2>3 DEF SessionInv
      <3>2. current # NoScreen
        BY <3>1, NoScreenFields
      <3>3. action = "Push"
        <4>1. SUFFICES ASSUME action = "Replace"
                       PROVE  FALSE
          BY <1>1
        <4>2. stack = <<>>
          BY <4>1 DEF SlotInv
        <4>3. current.kind = "WifiList"
          BY <3>1, <4>2
        <4>. QED
          BY <1>1, <1>2, <3>2, <4>1, <4>3 DEF EndsSession
      <3>4. stack' = Append(stack, current)
        BY <1>8, <3>2, <3>3
      <3>5. /\ Len(stack') = Len(stack) + 1 /\ stack'[Len(stack) + 1] = current
            /\ \A n \in 1 .. Len(stack) : stack'[n] = stack[n]
        BY <3>4 DEF TypeOK
      <3>6. \E n \in 1 .. Len(stack') : stack'[n].kind = "WifiList"
        <4>1. CASE current.kind = "WifiList"
          <5>1. Len(stack) + 1 \in 1 .. Len(stack')
            BY <1>8, <3>5
          <5>. QED
            BY <3>5, <4>1, <5>1
        <4>2. CASE \E n \in 1 .. Len(stack) : stack[n].kind = "WifiList"
          <5>1. PICK n \in 1 .. Len(stack) : stack[n].kind = "WifiList"
            BY <4>2
          <5>2. n \in 1 .. Len(stack')
            BY <1>8, <3>5
          <5>. QED
            BY <3>5, <5>1, <5>2
        <4>. QED
          BY <3>1, <4>1, <4>2
      <3>7. \A n \in 1 .. Len(stack') : stack'[n].kind \in Session \union {"Home"}
        BY <1>9, <3>1
      <3>. QED
        BY <1>6, <1>7, <2>1, <3>1, <3>6, <3>7 DEF SessionInv
    <2>4. CASE pending.kind # "WifiList" /\ scratch # "released"
      BY <1>7, <2>1, <2>4 DEF SessionInv
    <2>. QED
      BY <2>2, <2>3, <2>4
  <1>17. FreshInv'
    <2>1. pending.kind = "Home" => MenuState' = st
      BY <1>5, <1>7 DEF MenuState, TypeOK
    <2>. QED
      BY <1>5, <1>6, <2>1 DEF FreshInv
  <1>. QED
    BY <1>10, <1>11, <1>12, <1>13, <1>14, <1>15, <1>16, <1>17
-----------------------------------------------------------------------------
\* setup() with nothing on the stack yet.
LEMMA BootKeeps ==
  ASSUME Inv, Boot
  PROVE  Inv'
  <1> USE DEF Inv
  <1>1. /\ pc = "boot" /\ pc' = "tick" /\ scratch' = "reserved" /\ lastBook' \in BOOLEAN
        /\ UNCHANGED <<current, stack, dirty, painted>>
    BY DEF Boot
  <1>2. current = NoScreen /\ stack = <<>> /\ pending = NoScreen /\ action = "None"
    BY <1>1 DEF BootInv, SlotInv
  <1>3. UNCHANGED levels /\ starved' \in BOOLEAN
    BY DEF Boot, RequestReplace, Allocates, RequestPush, OutOfMemory, nav, TypeOK
  <1>4. \/ /\ pending' \in Screen /\ pending'.ref = NoId
           /\ \/ action' = "Replace" /\ pending'.kind # "WifiList"
              \/ action' = "Push" /\ pending'.kind = "Reader"
        \/ UNCHANGED <<pending, action>> /\ starved' = TRUE
    <2>1. ASSUME NEW kind \in {"Message", "Firmware", "LanguageSetup", "Home"}, NEW i \in Ids,
                 RequestReplace(New(kind, i, NoId))
          PROVE  /\ pending' \in Screen /\ pending'.ref = NoId
                 /\ action' = "Replace" /\ pending'.kind # "WifiList"
      <3>1. kind \in Kinds /\ kind # "WifiList"
        BY DEF Kinds
      <3>2. New(kind, i, NoId) \in Screen /\ New(kind, i, NoId).kind = kind /\ New(kind, i, NoId).ref = NoId
        BY <3>1, MadeAlone
      <3>. QED
        BY <2>1, <3>1, <3>2 DEF RequestReplace
    <2>2. ASSUME Allocates("Reader", NoId)
          PROVE  /\ pending' \in Screen /\ pending'.ref = NoId
                 /\ action' = "Push" /\ pending'.kind = "Reader"
      <3>1. PICK i \in Ids : RequestPush(New("Reader", i, NoId))
        BY <2>2 DEF Allocates
      <3>. QED
        BY <3>1, MadeAlone DEF RequestPush
    <2>. QED
      BY <2>1, <2>2 DEF Boot, OutOfMemory, nav
  <1>5. TypeOK'
    BY <1>1, <1>3, <1>4 DEF TypeOK, PcValues
  <1>6. SlotInv' /\ BootInv'
    BY <1>1, <1>2, <1>4, Fields DEF SlotInv, BootInv
  <1>7. BottomInv' /\ EnteredInv' /\ RefInv'
    BY <1>1, <1>2, <1>4, NoScreenFields DEF BottomInv, EnteredInv, RefInv
  <1>8. PaintInv' /\ SessionInv' /\ FreshInv'
    BY <1>1, <1>2, <1>4, NoScreenFields DEF PaintInv, SessionInv, FreshInv
  <1>. QED
    BY <1>5, <1>6, <1>7, <1>8

\* The steps of ScreenManager::loop() that leave the stack alone.
LEMMA StartKeeps ==
  ASSUME Inv, LoopStarts \/ Applied
  PROVE  Inv'
  <1> USE DEF Inv
  <1>1. /\ pc \in {"tick", "applyBefore", "applyAfter"} /\ pc' \in {"applyBefore", "run", "draw"}
        /\ pc' # "applyBefore" => action = "None"
        /\ UNCHANGED <<current, stack, pending, action, levels, dirty, painted, scratch, lastBook, starved>>
    BY DEF LoopStarts, Applied, Applying, nav
  <1>2. TypeOK'
    BY <1>1 DEF TypeOK, PcValues
  <1>3. SlotInv' /\ BootInv' /\ BottomInv' /\ EnteredInv'
    BY <1>1 DEF SlotInv, BootInv, BottomInv, EnteredInv
  <1>4. RefInv' /\ SessionInv'
    BY <1>1 DEF RefInv, Target, SessionInv
  <1>5. PaintInv' /\ FreshInv'
    BY <1>1 DEF PaintInv, FreshInv, MenuState
  <1>. QED
    BY <1>2, <1>3, <1>4, <1>5

LEMMA DrawKeeps ==
  ASSUME Inv, Draw
  PROVE  Inv'
  <1> USE DEF Inv
  <1>1. /\ pc = "draw" /\ pc' = "tick"
        /\ UNCHANGED <<current, stack, pending, action, levels, scratch, lastBook, starved>>
        /\ \/ dirty /\ current # NoScreen /\ dirty' = FALSE /\ painted' = current.id
           \/ ~(dirty /\ current # NoScreen) /\ UNCHANGED <<dirty, painted>>
    BY DEF Draw, nav
  <1>2. action = "None"
    BY <1>1 DEF SlotInv
  <1>3. current # NoScreen => current.id \in Ids
    BY Fields DEF TypeOK
  <1>4. TypeOK'
    <2>1. dirty' \in BOOLEAN
      BY <1>1 DEF TypeOK
    <2>2. painted' \in Ids \union {NoId}
      BY <1>1, <1>3 DEF TypeOK
    <2>. QED
      BY <1>1, <2>1, <2>2 DEF TypeOK, PcValues
  <1>5. SlotInv' /\ BootInv' /\ BottomInv' /\ EnteredInv'
    BY <1>1 DEF SlotInv, BootInv, BottomInv, EnteredInv
  <1>6. RefInv' /\ SessionInv'
    BY <1>1 DEF RefInv, Target, SessionInv
  <1>7. PaintInv'
    BY <1>1, <1>2 DEF PaintInv
  <1>8. FreshInv'
    BY <1>1 DEF FreshInv, MenuState
  <1>. QED
    BY <1>4, <1>5, <1>6, <1>7, <1>8

LEMMA InitKeeps == Init => Inv
  <1> SUFFICES ASSUME Init
               PROVE  Inv
    OBVIOUS
  <1>1. /\ pc = "boot" /\ current = NoScreen /\ stack = <<>> /\ pending = NoScreen /\ action = "None"
        /\ levels = 1 /\ dirty = FALSE /\ painted = NoId /\ scratch = "reserved" /\ lastBook \in BOOLEAN
        /\ starved = FALSE
    BY DEF Init
  <1>2. TypeOK
    <2>1. <<>> \in Seq(Screen)
      OBVIOUS
    <2>2. dirty \in BOOLEAN /\ starved \in BOOLEAN
      BY <1>1
    <2>. QED
      BY <1>1, <2>1, <2>2 DEF TypeOK, PcValues
  <1>3. SlotInv /\ BootInv /\ BottomInv /\ EnteredInv /\ RefInv
    BY <1>1, NoScreenFields DEF SlotInv, BootInv, BottomInv, EnteredInv, RefInv
  <1>4. PaintInv /\ SessionInv /\ FreshInv
    BY <1>1, NoScreenFields DEF PaintInv, SessionInv, FreshInv
  <1>. QED
    BY <1>2, <1>3, <1>4 DEF Inv

LEMMA NextKeeps == Inv /\ [Next]_vars => Inv'
  <1> SUFFICES ASSUME Inv, [Next]_vars
               PROVE  Inv'
    OBVIOUS
  <1>1. CASE Boot
    BY <1>1, BootKeeps
  <1>2. CASE LoopStarts \/ Applied
    BY <1>2, StartKeeps
  <1>3. CASE DeepSleep \/ ApplyExitRestarts
    BY <1>3, RestartKeeps DEF DeepSleep, ApplyExitRestarts
  <1>4. CASE ApplyPop
    BY <1>4, PopApplied
  <1>5. CASE ApplyPopRoot
    BY <1>5, PopRootApplied
  <1>6. CASE ApplyEntry
    BY <1>6, EntryApplied
  <1>7. CASE ScreenLoop
    <2>1. LoopShape \/ Restart
      BY <1>7, LoopShaped
    <2>2. CASE LoopShape
      BY <2>2, StayKeeps, PopKeeps, PushKeeps, ReplaceKeeps DEF LoopShape
    <2>. QED
      BY <2>1, <2>2, RestartKeeps
  <1>8. CASE Draw
    BY <1>8, DrawKeeps
  <1>9. CASE UNCHANGED vars
    <2>1. UNCHANGED <<current, stack, pending, action, levels, dirty, pc, painted, scratch, lastBook, starved>>
      BY <1>9 DEF vars
    <2>2. TypeOK' /\ SlotInv' /\ BootInv' /\ BottomInv' /\ EnteredInv'
      BY <2>1 DEF Inv, TypeOK, SlotInv, BootInv, BottomInv, EnteredInv
    <2>3. RefInv' /\ SessionInv'
      BY <2>1 DEF Inv, RefInv, Target, SessionInv
    <2>4. PaintInv' /\ FreshInv'
      BY <2>1 DEF Inv, PaintInv, FreshInv, MenuState
    <2>. QED
      BY <2>2, <2>3, <2>4 DEF Inv
  <1>. QED
    BY <1>1, <1>2, <1>3, <1>4, <1>5, <1>6, <1>7, <1>8, <1>9 DEF Next, ApplyPending

LEMMA Invariance == Spec => []Inv
  BY InitKeeps, NextKeeps, PTL DEF Spec

\* The slot, the stack and every screen keep their types through pushes, pops,
\* refused allocations and restarts.
THEOREM TypeCorrect == Spec => []TypeOK
  <1>1. Inv => TypeOK
    BY DEF Inv
  <1>. QED
    BY <1>1, Invariance, PTL

\* ChapterSelectionScreen, PageJumpScreen and KeyboardScreen hold C++ references
\* to a screen below them: it is alive for as long as they are.
THEOREM NothingDangles == Spec => []ReferencesAreLive
  <1>1. Inv => ReferencesAreLive
    <2> SUFFICES ASSUME Inv, NEW s \in Live, s.ref # NoId
                 PROVE  \E n \in DOMAIN stack \union {0} :
                          Target(IF n = 0 THEN current ELSE stack[n], s)
      BY DEF ReferencesAreLive, Target
    <2>1. stack \in Seq(Screen) /\ DOMAIN stack = 1 .. Len(stack) /\ Len(stack) \in Nat
      BY DEF Inv, TypeOK
    <2>2. ASSUME NEW n \in 1 .. Len(stack), Target(stack[n], s)
          PROVE  \E k \in DOMAIN stack \union {0} : Target(IF k = 0 THEN current ELSE stack[k], s)
      <3>1. n # 0 /\ n \in DOMAIN stack
        BY <2>1
      <3>. QED
        BY <2>2, <3>1
    <2>3. CASE \E n \in 1 .. Len(stack) : s = stack[n]
      <3>1. PICK n \in 1 .. Len(stack) : s = stack[n]
        BY <2>3
      <3>2. PICK k \in 1 .. n - 1 : Target(stack[k], s)
        BY <3>1 DEF Inv, RefInv
      <3>. QED
        BY <2>1, <2>2, <3>2
    <2>4. CASE s = current
      BY <2>2, <2>4 DEF Inv, RefInv
    <2>5. CASE s = pending
      <3>1. CASE Target(current, s)
        BY <3>1
      <3>. QED
        BY <2>2, <2>5, <3>1 DEF Inv, RefInv
    <2>. QED
      BY <2>1, <2>3, <2>4, <2>5 DEF Live, ToSet
  <1>. QED
    BY <1>1, Invariance, PTL

\* applyPending() destroys the covered screens on a replace: there are none.
THEOREM NothingIsDropped == Spec => []ReplaceDropsNothing
  <1>1. Inv => ReplaceDropsNothing
    BY DEF Inv, SlotInv, ReplaceDropsNothing
  <1>. QED
    BY <1>1, Invariance, PTL

\* ScreenManager::loop() never returns with another screen on the panel than
\* the one that takes the next key.
THEOREM KeysGoToWhatIsSeen == Spec => []ShownIsCurrent
  <1>1. Inv => ShownIsCurrent
    BY DEF Inv, PaintInv, ShownIsCurrent
  <1>. QED
    BY <1>1, Invariance, PTL

\* XtchBook::releaseScratch() lends the page buffer to the Wi-Fi stack: until the
\* restart there is no reader to decode into it.
THEOREM NoReaderWithoutScratch == Spec => []ReaderHasScratch
  <1>1. Inv => ReaderHasScratch
    <2> SUFFICES ASSUME Inv, scratch = "released", NEW s \in Live
                 PROVE  s.kind # "Reader"
      BY DEF ReaderHasScratch
    <2>1. stack \in Seq(Screen) /\ DOMAIN stack = 1 .. Len(stack)
      BY DEF Inv, TypeOK
    <2>2. CASE pc = "boot"
      <3>1. current = NoScreen /\ stack = <<>> /\ pending = NoScreen
        BY <2>2 DEF Inv, BootInv, SlotInv
      <3>2. Live = {}
        BY <3>1 DEF Live, ToSet
      <3>. QED
        BY <3>2
    <2>3. CASE pc # "boot"
      <3>1. /\ current.kind \in Session
            /\ \A n \in 1 .. Len(stack) : stack[n].kind \in Session \union {"Home"}
            /\ pending # NoScreen => pending.kind \in Session
        BY <2>3 DEF Inv, SessionInv
      <3>2. s.kind \in Session \union {"Home"}
        BY <2>1, <3>1 DEF Live, ToSet
      <3>. QED
        BY <3>2 DEF Session
    <2>. QED
      BY <2>2, <2>3
  <1>. QED
    BY <1>1, Invariance, PTL

\* The screen whose loop() runs was entered and resumed, and there is one
\* unless the memory for Home ran out.
THEOREM RunsWhatIsReady == Spec => []RunningIsFresh
  <1>1. Inv => RunningIsFresh
    BY DEF Inv, SlotInv, EnteredInv, FreshInv, RunningIsFresh
  <1>. QED
    BY <1>1, Invariance, PTL
=============================================================================
