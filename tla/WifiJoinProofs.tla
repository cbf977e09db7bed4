--------------------------- MODULE WifiJoinProofs ---------------------------
(***************************************************************************)
(* WifiJoin for every set of networks and passwords and every number of    *)
(* slots: no network has two slots and automatic attempts are quiet,       *)
(* whatever goes wrong; and while the card saves what it is given, only    *)
(* passwords that joined are saved and no saved network is lost.           *)
(***************************************************************************)
EXTENDS WifiJoin, FiniteSetTheorems, WellFoundedInduction, TLAPS

\* TypeOK in groups, which need different provers.
TypeAir     == /\ secret \in [Networks -> Typed]
               /\ radio \in {"idle", "trying", "joined", "refused", "lost"}
               /\ attempt \in [ssid : Named, password : Typed]
TypeFlags   == late \in BOOLEAN /\ usedSaved \in BOOLEAN /\ auto \in BOOLEAN /\ skip \in BOOLEAN
TypeSession == /\ screen \in {"off", "list", "keyboard", "transfer"}
               /\ state \in {"Scanning", "NetworkList", "Connecting", "Failed", "ClearPassword"}
               /\ found \subseteq Networks /\ pending \in Named /\ entered \in Typed
               /\ pc \in {"tick", "add", "last"}
TypeSaved   == store \in Store /\ file \in Store \union {Torn}

LEMMA TypeGroups == TypeOK <=> TypeAir /\ TypeFlags /\ TypeSession /\ TypeSaved
  BY DEF TypeOK, TypeAir, TypeFlags, TypeSession, TypeSaved

\* What is stored, and what a restart may load, has no network twice.
OneSlot(s) == \A i, j \in Index : s.ssid[i] # None /\ s.ssid[i] = s.ssid[j] => i = j
Distinct   == OneSlot(store) /\ (file = Torn \/ OneSlot(file))

IInv == TypeOK /\ Distinct
-----------------------------------------------------------------------------
LEMMA Smallest ==
  ASSUME NEW S, S \subseteq Nat, S # {}
  PROVE  \E x \in S : \A y \in S : x <= y
  <1> DEFINE Less == {ss \in Nat \X Nat : ss[1] < ss[2]}
  <1>1. IsWellFoundedOn(Less, Nat)
    BY NatLessThanWellFounded DEF OpToRel
  <1>2. PICK x \in S : \A y \in S : ~(<<y, x>> \in Less)
    <2> HIDE DEF Less
    <2>. QED
      BY <1>1, WFMin
  <1>3. ASSUME NEW y \in S
        PROVE  x <= y
    <2>1. x \in Nat /\ y \in Nat /\ <<y, x>> \in Nat \X Nat
      OBVIOUS
    <2>2. ~(y < x)
      BY <1>2, <2>1
    <2>. QED
      BY <2>1, <2>2
  <1>. QED
    BY <1>3

\* find() returns a slot that holds what was looked for.
LEMMA SlotForHolds ==
  ASSUME NEW s, NEW n, Holds(s, n)
  PROVE  SlotFor(s, n) \in Index /\ s.ssid[SlotFor(s, n)] = n
  <1> DEFINE S == {i \in Index : s.ssid[i] = n}
  <1>1. S \subseteq Nat /\ S # {}
    BY SlotAssumption DEF Holds, Index
  <1>2. PICK i \in S : \A j \in S : i <= j
    <2> HIDE DEF S
    <2>. QED
      BY <1>1, Smallest
  <1>3. i \in Index /\ s.ssid[i] = n
    OBVIOUS
  <1>4. ASSUME NEW j \in 0 .. i - 1
        PROVE  s.ssid[j] # n
    <2>1. j \in Index /\ j < i
      BY <1>3, SlotAssumption DEF Index
    <2>2. j \notin S
      BY <1>1, <1>2, <2>1
    <2>. QED
      BY <2>1, <2>2
  <1>. QED
    BY <1>3, <1>4 DEF SlotFor

\* What addOrUpdate() and remove() do to the slots: one of them gets a new content.
OnePut(s, t, i, n, p) ==
  \A j \in Index : /\ t.ssid[j] = IF j = i THEN n ELSE s.ssid[j]
                   /\ t.password[j] = IF j = i THEN p ELSE s.password[j]

LEMMA PutFields ==
  ASSUME NEW s \in Store, NEW i \in Index, NEW n \in Named, NEW p \in Typed
  PROVE  Put(s, i, n, p) \in Store /\ OnePut(s, Put(s, i, n, p), i, n, p)
  <1>1. s.ssid \in [Index -> Named] /\ s.password \in [Index -> Typed]
    BY DEF Store
  <1>2. Put(s, i, n, p) \in Store
    BY <1>1 DEF Put, Store
  <1>3. /\ Put(s, i, n, p).ssid = [s.ssid EXCEPT ![i] = n]
        /\ Put(s, i, n, p).password = [s.password EXCEPT ![i] = p]
    BY DEF Put, Store
  <1>. QED
    BY <1>1, <1>2, <1>3 DEF OnePut

LEMMA EvictedFields ==
  ASSUME NEW s \in Store
  PROVE  Evicted(s) \in Store /\ Evicted(s).ssid = s.ssid /\ Evicted(s).password = s.password
  <1>1. NextVictim(s.nextEvict) \in Index
    BY SlotAssumption DEF NextVictim, Index, Store
  <1>. QED
    BY <1>1 DEF Evicted, LastCleared, Store, Named

\* Putting a network in its own slot, or a new one in any slot, makes no second slot.
LEMMA PutOneSlot ==
  ASSUME NEW s \in Store, NEW i \in Index, NEW n \in Named, NEW p \in Typed, OneSlot(s),
         n = None \/ s.ssid[i] = n \/ ~Holds(s, n)
  PROVE  OneSlot(Put(s, i, n, p))
  <1>1. \A j \in Index : Put(s, i, n, p).ssid[j] = IF j = i THEN n ELSE s.ssid[j]
    BY PutFields DEF OnePut
  <1>2. n = None \/ \A j \in Index : s.ssid[j] = n => j = i
    BY DEF OneSlot, Holds
  <1>. QED
    BY <1>1, <1>2 DEF OneSlot

LEMMA AddedFields ==
  ASSUME NEW s \in Store, NEW n \in Named, NEW p \in Typed, OneSlot(s)
  PROVE  /\ Added(s, n, p) \in Store /\ OneSlot(Added(s, n, p))
         /\ \E i \in Index : /\ OnePut(s, Added(s, n, p), i, n, p)
                             /\ Holds(s, n) \/ Holds(s, None) => s.ssid[i] \in {n, None}
  <1>1. CASE Holds(s, n)
    <2>1. SlotFor(s, n) \in Index /\ s.ssid[SlotFor(s, n)] = n
      BY <1>1, SlotForHolds
    <2>2. Added(s, n, p) = Put(s, SlotFor(s, n), n, p)
      BY <1>1 DEF Added
    <2>3. Added(s, n, p) \in Store /\ OneSlot(Added(s, n, p))
      BY <2>1, <2>2, PutFields, PutOneSlot
    <2>4. OnePut(s, Added(s, n, p), SlotFor(s, n), n, p)
      BY <2>1, <2>2, PutFields
    <2>. QED
      BY <2>1, <2>3, <2>4
  <1>2. CASE ~Holds(s, n) /\ Holds(s, None)
    <2>1. SlotFor(s, None) \in Index /\ s.ssid[SlotFor(s, None)] = None
      BY <1>2, SlotForHolds
    <2>2. Added(s, n, p) = Put(s, SlotFor(s, None), n, p)
      BY <1>2 DEF Added
    <2>3. Added(s, n, p) \in Store /\ OneSlot(Added(s, n, p))
      BY <1>2, <2>1, <2>2, PutFields, PutOneSlot DEF Named
    <2>4. OnePut(s, Added(s, n, p), SlotFor(s, None), n, p)
      BY <2>1, <2>2, PutFields
    <2>. QED
      BY <2>1, <2>3, <2>4
  <1>3. CASE ~Holds(s, n) /\ ~Holds(s, None)
    <2>1. s.nextEvict \in Index
      BY DEF Store
    <2>2. Added(s, n, p) = Put(Evicted(s), s.nextEvict, n, p)
      BY <1>3 DEF Added
    <2>3. Evicted(s) \in Store /\ Evicted(s).ssid = s.ssid /\ Evicted(s).password = s.password
      BY EvictedFields
    <2>4. OneSlot(Evicted(s)) /\ ~Holds(Evicted(s), n)
      BY <1>3, <2>3 DEF OneSlot, Holds
    <2>5. Added(s, n, p) \in Store /\ OneSlot(Added(s, n, p))
      BY <2>1, <2>2, <2>3, <2>4, PutFields, PutOneSlot
    <2>6. OnePut(s, Added(s, n, p), s.nextEvict, n, p)
      BY <2>1, <2>2, <2>3, PutFields DEF OnePut
    <2>. QED
      BY <1>3, <2>1, <2>5, <2>6
  <1>. QED
    BY <1>1, <1>2, <1>3

LEMMA RemovedFields ==
  ASSUME NEW s \in Store, NEW n, OneSlot(s)
  PROVE  /\ Removed(s, n) \in Store /\ OneSlot(Removed(s, n))
         /\ \/ Removed(s, n) = s
            \/ \E i \in Index : s.ssid[i] = n /\ OnePut(s, Removed(s, n), i, None, NoPassword)
  <1>1. CASE Holds(s, n)
    <2> DEFINE c == LastCleared(s, n)
    <2>1. c \in Store /\ c.ssid = s.ssid /\ c.password = s.password
      BY DEF LastCleared, Store, Named
    <2>2. SlotFor(s, n) \in Index /\ s.ssid[SlotFor(s, n)] = n
      BY <1>1, SlotForHolds
    <2>3. Removed(s, n) = Put(c, SlotFor(s, n), None, NoPassword)
      BY <1>1 DEF Removed
    <2>4. None \in Named /\ NoPassword \in Typed
      BY DEF Named, Typed
    <2>. HIDE DEF c
    <2>5. OneSlot(c)
      BY <2>1 DEF OneSlot
    <2>6. Removed(s, n) \in Store /\ OneSlot(Removed(s, n))
      BY <2>1, <2>2, <2>3, <2>4, <2>5, PutFields, PutOneSlot
    <2>7. OnePut(s, Removed(s, n), SlotFor(s, n), None, NoPassword)
      BY <2>1, <2>2, <2>3, <2>4, PutFields DEF OnePut
    <2>. QED
      BY <2>2, <2>6, <2>7
  <1>2. CASE ~Holds(s, n)
    BY <1>2 DEF Removed
  <1>. QED
    BY <1>1, <1>2
-----------------------------------------------------------------------------
\* The members, the radio and the flags keep their types.
Typed3 == TypeAir /\ TypeFlags /\ TypeSession

LEMMA StaysTyped ==
  ASSUME Typed3, UNCHANGED <<air, session, pc>>
  PROVE  Typed3'
  BY DEF Typed3, TypeAir, TypeFlags, TypeSession, air, session

LEMMA NamesTyped == None \in Named /\ NoPassword \in Typed /\ Networks \subseteq Named
  BY DEF Named, Typed

LEMMA SelectTyped ==
  ASSUME Typed3, TypeSaved, NEW n \in Networks, NEW b \in BOOLEAN, Select(n, b),
         UNCHANGED secret, found' \subseteq Networks, skip' \in BOOLEAN, UNCHANGED pc
  PROVE  Typed3'
  <1>1. Holds(store, n) => PasswordOf(store, n) \in Typed
    <2>1. Holds(store, n) => SlotFor(store, n) \in Index
      BY SlotForHolds
    <2>. QED
      BY <2>1 DEF PasswordOf, TypeSaved, Store
  <1>2. entered' \in Typed /\ pending' \in Named
    BY <1>1, NamesTyped DEF Select, EnteredFor
  <1>3. TypeAir'
    BY <1>1, NamesTyped DEF Select, Connects, Typed3, TypeAir
  <1>4. TypeFlags'
    BY DEF Select, Connects, Typed3, TypeFlags
  <1>5. TypeSession'
    BY <1>2 DEF Select, Connects, KeyboardShown, NoKeyboard, Typed3, TypeSession
  <1>. QED
    BY <1>3, <1>4, <1>5 DEF Typed3

LEMMA RestartTyped ==
  ASSUME Typed3, Restart
  PROVE  Typed3'
  BY NamesTyped DEF Restart, Fresh, Typed3, TypeAir, TypeFlags, TypeSession

LEMMA PollTyped ==
  ASSUME Typed3, Poll
  PROVE  Typed3'
  <1>1. CASE PollJoined
    BY <1>1 DEF PollJoined, air, session, Typed3, TypeAir, TypeFlags, TypeSession
  <1>2. CASE PollFails
    BY <1>2 DEF PollFails, Typed3, TypeAir, TypeFlags, TypeSession
  <1>3. CASE AddOrUpdate
    BY <1>3 DEF AddOrUpdate, air, session, Typed3, TypeAir, TypeFlags, TypeSession
  <1>4. CASE SetLastConnected
    BY <1>4 DEF SetLastConnected, air, Typed3, TypeAir, TypeFlags, TypeSession
  <1>. QED
    BY <1>1, <1>2, <1>3, <1>4 DEF Poll

LEMMA UserTyped ==
  ASSUME Typed3, TypeSaved, User
  PROVE  Typed3'
  <1>1. CASE Enter
    BY <1>1, NamesTyped DEF Enter, Fresh, air, Typed3, TypeAir, TypeFlags, TypeSession
  <1>2. CASE Interrupt
    BY <1>2 DEF Interrupt, ShowsList, Typed3, TypeAir, TypeFlags, TypeSession
  <1>3. CASE BackToList
    BY <1>3 DEF BackToList, ShowsList, air, Typed3, TypeAir, TypeFlags, TypeSession
  <1>4. CASE ClearPassword
    BY <1>4, NamesTyped DEF ClearPassword, KeyboardShown, NoKeyboard, ShowsList, air,
                            Typed3, TypeAir, TypeFlags, TypeSession
  <1>5. CASE CancelPassword
    BY <1>5 DEF CancelPassword, ShowsList, air, Typed3, TypeAir, TypeFlags, TypeSession
  <1>6. CASE EndSession
    BY <1>6, RestartTyped DEF EndSession
  <1>7. ASSUME NEW n \in Networks, Choose(n)
        PROVE  Typed3'
    BY <1>7, SelectTyped DEF Choose, Typed3, TypeFlags, TypeSession
  <1>8. ASSUME NEW p \in Typed, EnterPassword(p)
        PROVE  Typed3'
    BY <1>8 DEF EnterPassword, Connects, Typed3, TypeAir, TypeFlags, TypeSession
  <1>. QED
    BY <1>1, <1>2, <1>3, <1>4, <1>5, <1>6, <1>7, <1>8 DEF User

LEMMA WorldTyped ==
  ASSUME Typed3, World
  PROVE  Typed3'
  <1>1. CASE RadioJoins
    BY <1>1 DEF RadioJoins, session, Typed3, TypeAir, TypeFlags, TypeSession
  <1>2. CASE RadioFails
    BY <1>2 DEF RadioFails, session, Typed3, TypeAir, TypeFlags, TypeSession
  <1>3. CASE TimePasses
    BY <1>3 DEF TimePasses, session, Typed3, TypeAir, TypeFlags, TypeSession
  <1>4. CASE RouterChanges
    BY <1>4 DEF RouterChanges, session, Typed3, TypeAir, TypeFlags, TypeSession
  <1>5. CASE PowerLost
    BY <1>5, RestartTyped DEF PowerLost
  <1>. QED
    BY <1>1, <1>2, <1>3, <1>4, <1>5 DEF World

LEMMA ScanTyped ==
  ASSUME Typed3, TypeSaved, Scan
  PROVE  Typed3'
  <1>1. skip' \in BOOLEAN
    BY DEF Scan, Typed3, TypeFlags
  <1>2. CASE UNCHANGED <<air, screen, state, found, pending, entered, usedSaved, auto>>
    BY <1>1, <1>2 DEF Scan, air, Typed3, TypeAir, TypeFlags, TypeSession
  <1>3. ASSUME NEW f \in SUBSET Networks, found' = f, NEW n \in AutoTargets(f), Select(n, TRUE)
        PROVE  Typed3'
    <2>1. n \in Networks
      BY <1>3 DEF AutoTargets, Candidates
    <2>. QED
      BY <1>1, <1>3, <2>1, SelectTyped DEF Scan
  <1>4. ASSUME NEW f \in SUBSET Networks, found' = f, ShowsList,
               UNCHANGED <<radio, attempt, late, screen, pending, entered>>
        PROVE  Typed3'
    BY <1>1, <1>4 DEF Scan, ShowsList, Typed3, TypeAir, TypeFlags, TypeSession
  <1>. QED
    BY <1>2, <1>3, <1>4 DEF Scan
-----------------------------------------------------------------------------
\* The steps that touch the store or its file: two saves of a connection, the
\* removal of a password, and a restart.
LEMMA WhoSaves ==
  ASSUME [Next]_vars
  PROVE  \/ UNCHANGED saved
         \/ AddOrUpdate
         \/ SetLastConnected
         \/ ClearPassword
         \/ EndSession
         \/ PowerLost
  <1>1. Scan => UNCHANGED saved
    BY DEF Scan
  <1>2. PollJoined \/ PollFails => UNCHANGED saved
    BY DEF PollJoined, PollFails
  <1>3. Enter \/ Interrupt \/ BackToList \/ CancelPassword => UNCHANGED saved
    BY DEF Enter, Interrupt, BackToList, CancelPassword
  <1>4. \A n \in Networks : Choose(n) => UNCHANGED saved
    BY DEF Choose
  <1>5. \A p \in Typed : EnterPassword(p) => UNCHANGED saved
    BY DEF EnterPassword
  <1>6. RadioJoins \/ RadioFails \/ TimePasses \/ RouterChanges => UNCHANGED saved
    BY DEF RadioJoins, RadioFails, TimePasses, RouterChanges
  <1>7. UNCHANGED vars => UNCHANGED saved
    BY DEF vars
  <1>. QED
    BY <1>1, <1>2, <1>3, <1>4, <1>5, <1>6, <1>7 DEF Next, Poll, User, World

\* A restart keeps what the file holds, or nothing.
LEMMA WhoRestarts ==
  ASSUME EndSession \/ PowerLost
  PROVE  Restart /\ file' \in {file, Torn}
  BY DEF EndSession, PowerLost

LEMMA EmptyStore == Empty \in Store /\ OneSlot(Empty)
  BY SlotAssumption, NamesTyped DEF Empty, Store, OneSlot, Index

LEMMA SavesKeeps ==
  ASSUME TypeSaved, Distinct, NEW s \in Store, OneSlot(s), Saves(s)
  PROVE  TypeSaved' /\ Distinct'
  BY DEF TypeSaved, Distinct, Saves, OneSlot

\* addOrUpdate(), setLastConnected() and remove() leave a store.
LEMMA LastSlots ==
  ASSUME TypeSaved, TypeSession, OneSlot(store)
  PROVE  /\ [store EXCEPT !.last = pending] \in Store
         /\ [store EXCEPT !.last = pending].ssid = store.ssid
         /\ [store EXCEPT !.last = pending].password = store.password
         /\ OneSlot([store EXCEPT !.last = pending])
  BY DEF TypeSaved, TypeSession, Store, OneSlot

LEMMA SavedInv ==
  ASSUME IInv, [Next]_vars
  PROVE  TypeSaved' /\ Distinct'
  <1>1. TypeSaved /\ TypeSession /\ Distinct
    BY TypeGroups DEF IInv
  <1>2. store \in Store /\ OneSlot(store) /\ pending \in Named /\ entered \in Typed
    BY <1>1 DEF TypeSaved, TypeSession, Distinct
  <1>3. CASE UNCHANGED saved
    BY <1>1, <1>3 DEF saved, TypeSaved, Distinct, OneSlot
  <1>4. CASE AddOrUpdate
    BY <1>1, <1>2, <1>4, AddedFields, SavesKeeps DEF AddOrUpdate
  <1>5. CASE SetLastConnected
    BY <1>1, <1>2, <1>5, LastSlots, SavesKeeps DEF SetLastConnected
  <1>6. CASE ClearPassword
    BY <1>1, <1>2, <1>6, RemovedFields, SavesKeeps DEF ClearPassword
  <1>7. CASE EndSession \/ PowerLost
    <2>1. file' \in {file, Torn} /\ store' = Loaded(file')
      BY <1>7, WhoRestarts DEF Restart
    <2>. QED
      BY <1>1, <2>1, EmptyStore DEF Loaded, TypeSaved, Distinct, OneSlot
  <1>. QED
    BY <1>3, <1>4, <1>5, <1>6, <1>7, WhoSaves

LEMMA InitIInv == Init => IInv
  <1> SUFFICES ASSUME Init PROVE IInv
    OBVIOUS
  <1>1. TypeSaved /\ Distinct
    BY EmptyStore DEF Init, TypeSaved, Distinct
  <1>2. Typed3
    BY NamesTyped DEF Init, Typed3, TypeAir, TypeFlags, TypeSession
  <1>. QED
    BY <1>1, <1>2, TypeGroups DEF IInv, Typed3

LEMMA NextIInv == IInv /\ [Next]_vars => IInv'
  <1> SUFFICES ASSUME IInv, [Next]_vars PROVE IInv'
    OBVIOUS
  <1>1. Typed3 /\ TypeSaved
    BY TypeGroups DEF IInv, Typed3
  <1>2. Typed3'
    <2>1. CASE UNCHANGED vars
      BY <1>1, <2>1, StaysTyped DEF vars
    <2>2. CASE Next
      BY <1>1, <2>2, ScanTyped, PollTyped, UserTyped, WorldTyped DEF Next
    <2>. QED
      BY <2>1, <2>2
  <1>3. TypeSaved' /\ Distinct'
    BY SavedInv
  <1>4. TypeOK'
    BY <1>2, <1>3 DEF Typed3, TypeOK, TypeAir, TypeFlags, TypeSession, TypeSaved
  <1>. QED
    BY <1>3, <1>4 DEF IInv

THEOREM Invariance == Spec => []IInv
  BY InitIInv, NextIInv, PTL DEF Spec

\* Every variable keeps its range: no eviction leads outside of the slots
\* (WifiCredentialStore.cpp addOrUpdate()).
THEOREM TypeCorrect == Spec => []TypeOK
  <1>1. IInv => TypeOK
    BY DEF IInv
  <1>. QED
    BY <1>1, Invariance, PTL

\* No network ever has two slots, whatever is saved, evicted, removed or torn
\* (WifiCredentialStore.cpp addOrUpdate(), remove(), load()).
THEOREM NoSecondSlot == Spec => []OneSlotEach
  <1>1. IInv => OneSlotEach
    BY DEF IInv, Distinct, OneSlot, OneSlotEach
  <1>. QED
    BY <1>1, Invariance, PTL
-----------------------------------------------------------------------------
\* AutoIsQuiet is inductive: an attempt the screen made itself goes on only while it
\* is connecting, and saving does not forget the network it joined.
LEMMA AddedHolds ==
  ASSUME IInv, AddOrUpdate
  PROVE  Holds(store', pending)
  <1>1. store \in Store /\ OneSlot(store) /\ pending \in Named /\ entered \in Typed
    BY DEF IInv, TypeOK, Distinct
  <1>2. store' = Added(store, pending, entered)
    BY DEF AddOrUpdate, Saves
  <1>. QED
    BY <1>1, <1>2, AddedFields DEF OnePut, Holds

LEMMA QuietInv ==
  ASSUME IInv, AutoIsQuiet, [Next]_vars
  PROVE  AutoIsQuiet'
  <1>1. CASE Scan
    <2>1. CASE UNCHANGED <<air, screen, state, found, pending, entered, usedSaved, auto>>
      BY <1>1, <2>1 DEF Scan, Runs, AutoIsQuiet
    <2>2. ASSUME NEW f \in SUBSET Networks, NEW n \in AutoTargets(f), Select(n, TRUE)
          PROVE  AutoIsQuiet'
      <3>1. ~skip' /\ Holds(store, n)
        BY <2>2 DEF AutoTargets, Candidates
      <3>2. state' = "Connecting" /\ screen' = "list" /\ pending' = n
        BY <1>1, <2>2, <3>1 DEF Select, Connects, Scan, Runs
      <3>3. store' = store
        BY <1>1 DEF Scan, saved
      <3>. QED
        BY <3>1, <3>2, <3>3 DEF AutoIsQuiet
    <2>3. CASE ShowsList
      BY <2>3 DEF ShowsList, AutoIsQuiet
    <2>. QED
      BY <1>1, <2>1, <2>2, <2>3 DEF Scan
  <1>2. CASE PollJoined
    BY <1>2 DEF PollJoined, session, saved, AutoIsQuiet
  <1>3. CASE PollFails
    BY <1>3 DEF PollFails, AutoIsQuiet
  <1>4. CASE AddOrUpdate
    BY <1>4, AddedHolds DEF AddOrUpdate, session, AutoIsQuiet
  <1>5. CASE SetLastConnected
    BY <1>5, LastSlots DEF SetLastConnected, Saves, AutoIsQuiet, Holds, IInv, TypeOK, TypeSaved, TypeSession, Distinct
  <1>6. CASE Enter \/ EndSession \/ PowerLost
    BY <1>6 DEF Enter, EndSession, PowerLost, Restart, Fresh, AutoIsQuiet
  <1>7. CASE Interrupt \/ BackToList \/ CancelPassword
    BY <1>7 DEF Interrupt, BackToList, CancelPassword, ShowsList, AutoIsQuiet
  <1>8. CASE ClearPassword
    BY <1>8 DEF ClearPassword, Runs, ShowsList, AutoIsQuiet
  <1>9. ASSUME NEW n \in Networks, Choose(n)
        PROVE  AutoIsQuiet'
    BY <1>9 DEF Choose, Select, AutoIsQuiet
  <1>10. ASSUME NEW p \in Typed, EnterPassword(p)
         PROVE  AutoIsQuiet'
    BY <1>10 DEF EnterPassword, AutoIsQuiet
  <1>11. CASE RadioJoins \/ RadioFails \/ TimePasses \/ RouterChanges
    BY <1>11 DEF RadioJoins, RadioFails, TimePasses, RouterChanges, session, saved, AutoIsQuiet
  <1>12. CASE UNCHANGED vars
    BY <1>12 DEF vars, session, saved, AutoIsQuiet
  <1>. QED
    BY <1>1, <1>2, <1>3, <1>4, <1>5, <1>6, <1>7, <1>8, <1>9, <1>10, <1>11, <1>12
       DEF Next, Poll, User, World

\* The screen connects by itself only to a saved network, and never again once the
\* user has asked to choose (WifiListScreen.cpp tryAutoJoin(), loop()).
THEOREM AutomaticIsQuiet == Spec => []AutoIsQuiet
  <1>1. Init => AutoIsQuiet
    BY DEF Init, AutoIsQuiet
  <1>. QED
    BY <1>1, QuietInv, Invariance, PTL DEF Spec
-----------------------------------------------------------------------------
\* While the card saves what it is given, memory and file agree between two steps.
FileIsStore == file = store \/ (file = Torn /\ store = Empty)

\* The radio was given what the screen will save if it joins.
AttemptIsEntered == state = "Connecting" => attempt = [ssid |-> pending, password |-> entered]

\* Between the two saves of a connection nothing else has happened.
StillJoined == pc # "tick" => screen = "list" /\ state = "Connecting" /\ radio = "joined"

JInv == AttemptIsEntered /\ StillJoined

LEMMA SelectAttempt ==
  ASSUME NEW n \in Networks, NEW b \in BOOLEAN, Select(n, b), state # "Connecting"
  PROVE  AttemptIsEntered'
  BY DEF Select, EnteredFor, Connects, AttemptIsEntered

LEMMA JoinInv ==
  ASSUME JInv, [Next]_vars
  PROVE  JInv'
  <1> USE DEF JInv, AttemptIsEntered, StillJoined
  <1>1. CASE Scan
    <2>1. pc' = "tick"
      BY <1>1 DEF Scan, Runs
    <2>2. CASE UNCHANGED <<air, screen, state, found, pending, entered, usedSaved, auto>>
      BY <2>1, <2>2 DEF air
    <2>3. ASSUME NEW f \in SUBSET Networks, NEW n \in AutoTargets(f), Select(n, TRUE)
          PROVE  JInv'
      <3>1. n \in Networks /\ state # "Connecting"
        BY <1>1, <2>3 DEF AutoTargets, Candidates, Scan, Runs
      <3>. QED
        BY <2>1, <2>3, <3>1, SelectAttempt
    <2>4. CASE ShowsList
      BY <2>1, <2>4 DEF ShowsList
    <2>. QED
      BY <1>1, <2>2, <2>3, <2>4 DEF Scan
  <1>2. CASE PollJoined
    BY <1>2 DEF PollJoined, Runs, air, session
  <1>3. CASE PollFails
    BY <1>3 DEF PollFails, Runs
  <1>4. CASE AddOrUpdate
    BY <1>4 DEF AddOrUpdate, air, session
  <1>5. CASE SetLastConnected
    BY <1>5 DEF SetLastConnected, air
  <1>6. CASE Enter
    BY <1>6 DEF Enter, Fresh
  <1>7. CASE EndSession \/ PowerLost
    BY <1>7 DEF EndSession, PowerLost, Restart, Fresh
  <1>8. CASE Interrupt \/ BackToList \/ CancelPassword
    BY <1>8 DEF Interrupt, BackToList, CancelPassword, ShowsList, Runs
  <1>9. CASE ClearPassword
    BY <1>9 DEF ClearPassword, ShowsList, Runs
  <1>10. ASSUME NEW n \in Networks, Choose(n)
         PROVE  JInv'
    BY <1>10, SelectAttempt DEF Choose, Runs
  <1>11. ASSUME NEW p \in Typed, EnterPassword(p)
         PROVE  JInv'
    BY <1>11 DEF EnterPassword, Connects
  <1>12. CASE RadioJoins \/ RadioFails \/ TimePasses \/ RouterChanges
    BY <1>12 DEF RadioJoins, RadioFails, TimePasses, RouterChanges, Runs, session
  <1>13. CASE UNCHANGED vars
    BY <1>13 DEF vars, air, session
  <1>. QED
    BY <1>1, <1>2, <1>3, <1>4, <1>5, <1>6, <1>7, <1>8, <1>9, <1>10, <1>11, <1>12, <1>13
       DEF Next, Poll, User, World

LEMMA FileInv ==
  ASSUME IInv, FileIsStore, [Next]_vars, "card" \notin Trouble
  PROVE  FileIsStore'
  <1>1. CASE UNCHANGED saved
    BY <1>1 DEF saved, FileIsStore
  <1>2. CASE AddOrUpdate \/ SetLastConnected \/ ClearPassword
    BY <1>2 DEF AddOrUpdate, SetLastConnected, ClearPassword, Saves, FileIsStore
  <1>3. CASE EndSession \/ PowerLost
    <2>1. file' \in {file, Torn} /\ store' = Loaded(file')
      BY <1>3, WhoRestarts DEF Restart
    <2>. QED
      BY <2>1 DEF Loaded, FileIsStore
  <1>. QED
    BY <1>1, <1>2, <1>3, WhoSaves

\* The slots a step leaves as they were: it saves nothing new and forgets nothing.
LEMMA OldSlots ==
  ASSUME IInv, NEW i \in Index, store.ssid[i] # None
  PROVE  Holds(store, store.ssid[i]) /\ PasswordOf(store, store.ssid[i]) = store.password[i]
  <1>1. Holds(store, store.ssid[i])
    BY DEF Holds
  <1>2. SlotFor(store, store.ssid[i]) \in Index
        /\ store.ssid[SlotFor(store, store.ssid[i])] = store.ssid[i]
    BY <1>1, SlotForHolds
  <1>3. SlotFor(store, store.ssid[i]) = i
    BY <1>2 DEF IInv, Distinct, OneSlot
  <1>. QED
    BY <1>1, <1>3 DEF PasswordOf

\* A restart loses everything or nothing.
LEMMA RestartStore ==
  ASSUME IInv, FileIsStore, EndSession \/ PowerLost
  PROVE  store' = store \/ (file' = Torn /\ store' = Empty)
  <1>1. file' \in {file, Torn} /\ store' = Loaded(file')
    BY WhoRestarts DEF Restart
  <1>. QED
    BY <1>1 DEF Loaded, FileIsStore

\* What a step may newly find in a slot.
NewlySaved ==
  \A i \in Index :
    LET n == store'.ssid[i]
        p == store'.password[i]
    IN  n # None /\ ~(Holds(store, n) /\ PasswordOf(store, n) = p)
          => radio = "joined" /\ attempt = [ssid |-> n, password |-> p]

\* A slot that kept its content holds nothing new.
LEMMA KeptIsOld ==
  ASSUME IInv, NEW i \in Index,
         store'.ssid[i] = store.ssid[i], store'.password[i] = store.password[i]
  PROVE  LET n == store'.ssid[i]
             p == store'.password[i]
         IN  n # None => Holds(store, n) /\ PasswordOf(store, n) = p
  BY OldSlots

\* A restart takes what the file holds, or nothing.
ReadBack == screen' = "off" /\ store' \in {Loaded(file), Empty}

LEMMA JoinedOrReadBack ==
  ASSUME IInv, JInv, [Next]_vars
  PROVE  NewlySaved \/ ReadBack
  <1>1. store \in Store /\ OneSlot(store) /\ pending \in Named /\ entered \in Typed
    BY DEF IInv, TypeOK, Distinct
  <1>2. CASE store' = store
    BY <1>2, KeptIsOld DEF NewlySaved
  <1>3. CASE AddOrUpdate
    <2>1. store' = Added(store, pending, entered) /\ pc = "add"
      BY <1>3 DEF AddOrUpdate, Saves
    <2>2. PICK k \in Index : OnePut(store, store', k, pending, entered)
      BY <1>1, <2>1, AddedFields
    <2>3. radio = "joined" /\ attempt = [ssid |-> pending, password |-> entered]
      BY <2>1 DEF JInv, StillJoined, AttemptIsEntered
    <2>4. \A i \in Index : i # k =>
            store'.ssid[i] = store.ssid[i] /\ store'.password[i] = store.password[i]
      BY <2>2 DEF OnePut
    <2>5. store'.ssid[k] = pending /\ store'.password[k] = entered
      BY <2>2 DEF OnePut
    <2>. QED
      BY <2>3, <2>4, <2>5, KeptIsOld DEF NewlySaved
  <1>4. CASE SetLastConnected
    <2>1. store'.ssid = store.ssid /\ store'.password = store.password
      BY <1>1, <1>4, LastSlots DEF SetLastConnected, Saves, IInv, TypeOK, TypeSaved, TypeSession
    <2>. QED
      BY <2>1, KeptIsOld DEF NewlySaved
  <1>5. CASE ClearPassword
    <2>1. store' = Removed(store, pending)
      BY <1>5 DEF ClearPassword, Saves
    <2>2. PICK k \in Index : OnePut(store, store', k, None, NoPassword) \/ store' = store
      BY <1>1, <2>1, RemovedFields, SlotAssumption DEF Index
    <2>3. \A i \in Index : store'.ssid[i] # None =>
            store'.ssid[i] = store.ssid[i] /\ store'.password[i] = store.password[i]
      BY <2>2 DEF OnePut
    <2>. QED
      BY <2>3, KeptIsOld DEF NewlySaved
  <1>6. CASE EndSession \/ PowerLost
    BY <1>6, WhoRestarts DEF Restart, Loaded, ReadBack
  <1>7. CASE UNCHANGED saved
    BY <1>2, <1>7 DEF saved
  <1>. QED
    BY <1>3, <1>4, <1>5, <1>6, <1>7, WhoSaves

LEMMA SavesJoined ==
  ASSUME IInv, JInv, FileIsStore, [Next]_vars
  PROVE  NewlySaved
  <1>1. CASE store' = store
    BY <1>1, KeptIsOld DEF NewlySaved
  <1>2. CASE store' = Empty
    BY <1>2 DEF Empty, NewlySaved
  <1>3. Loaded(file) \in {store, Empty}
    BY DEF FileIsStore, Loaded
  <1>. QED
    BY <1>1, <1>2, <1>3, JoinedOrReadBack DEF ReadBack

\* Why a network may be forgotten.
ForgottenFor(n) ==
  \/ state = "ClearPassword" /\ n = pending
  \/ pc = "add" /\ ~Holds(store, None) /\ ~Holds(store, pending)
  \/ file' = Torn

LEMMA ForgetsAsked ==
  ASSUME IInv, FileIsStore, [Next]_vars,
         NEW n \in Networks, Holds(store, n), ~Holds(store', n)
  PROVE  ForgottenFor(n)
  <1>1. store \in Store /\ OneSlot(store) /\ pending \in Named /\ entered \in Typed
    BY DEF IInv, TypeOK, Distinct
  <1>2. n # None
    BY NamesAssumption
  <1>3. PICK i \in Index : store.ssid[i] = n
    BY DEF Holds
  <1>4. store'.ssid[i] # n
    BY DEF Holds
  <1>5. CASE AddOrUpdate
    <2>1. store' = Added(store, pending, entered) /\ pc = "add"
      BY <1>5 DEF AddOrUpdate, Saves
    <2>2. PICK k \in Index : /\ OnePut(store, store', k, pending, entered)
                             /\ Holds(store, pending) \/ Holds(store, None)
                                  => store.ssid[k] \in {pending, None}
      BY <1>1, <2>1, AddedFields
    <2>3. k = i /\ pending # n
      BY <1>3, <1>4, <2>2 DEF OnePut
    <2>. QED
      BY <1>2, <1>3, <2>1, <2>2, <2>3 DEF ForgottenFor
  <1>6. CASE SetLastConnected
    <2>1. store'.ssid = store.ssid
      BY <1>1, <1>6, LastSlots DEF SetLastConnected, Saves, IInv, TypeOK, TypeSaved, TypeSession
    <2>. QED
      BY <1>3, <1>4, <2>1
  <1>7. CASE ClearPassword
    <2>1. store' = Removed(store, pending) /\ state = "ClearPassword"
      BY <1>7 DEF ClearPassword, Runs, Saves
    <2>2. PICK k \in Index : store.ssid[k] = pending /\ OnePut(store, store', k, None, NoPassword)
      BY <1>1, <1>3, <1>4, <2>1, RemovedFields
    <2>3. k = i
      BY <1>3, <1>4, <2>2 DEF OnePut
    <2>. QED
      BY <1>3, <2>1, <2>2, <2>3 DEF ForgottenFor
  <1>8. CASE EndSession \/ PowerLost
    BY <1>3, <1>4, <1>8, RestartStore DEF ForgottenFor
  <1>9. CASE UNCHANGED saved
    BY <1>3, <1>4, <1>9 DEF saved
  <1>. QED
    BY <1>5, <1>6, <1>7, <1>8, <1>9, WhoSaves

LEMMA Joined ==
  ASSUME "card" \notin Trouble
  PROVE  Spec => [](JInv /\ FileIsStore)
  <1>1. Init => JInv /\ FileIsStore
    BY DEF Init, JInv, AttemptIsEntered, StillJoined, FileIsStore
  <1>2. IInv /\ JInv /\ FileIsStore /\ [Next]_vars => JInv' /\ FileIsStore'
    BY JoinInv, FileInv
  <1>. QED
    BY <1>1, <1>2, Invariance, PTL DEF Spec

\* Whatever the card does with a save, a password enters memory as the one the radio
\* has just joined with or out of the file, and the file only out of memory: none is
\* ever made up, taken from another network or from an attempt that failed
\* (WifiListScreen.cpp goToFileTransfer(), WifiCredentialStore.cpp load(), save()).
THEOREM NoneIsMadeUp ==
  Spec => [][(NewlySaved \/ ReadBack) /\ file' \in {file, store', Torn}]_vars
  <1>1. Init => JInv
    BY DEF Init, JInv, AttemptIsEntered, StillJoined
  <1>2. JInv /\ [Next]_vars => JInv'
    BY JoinInv
  <1>3. [Next]_vars => file' \in {file, store', Torn}
    <2>1. UNCHANGED saved => file' = file
      BY DEF saved
    <2>2. AddOrUpdate \/ SetLastConnected \/ ClearPassword => file' \in {file, store', Torn}
      BY DEF AddOrUpdate, SetLastConnected, ClearPassword, Saves
    <2>. QED
      BY <2>1, <2>2, WhoRestarts, WhoSaves
  <1>4. IInv /\ JInv /\ [Next]_vars
          => [(NewlySaved \/ ReadBack) /\ file' \in {file, store', Torn}]_vars
    BY <1>3, JoinedOrReadBack
  <1>. QED
    BY <1>1, <1>2, <1>4, Invariance, PTL DEF Spec

\* While the card saves what it is given, a password enters the store only as the
\* one the radio has just joined with (WifiListScreen.cpp goToFileTransfer()).
THEOREM OnlyJoinedIsSaved ==
  ASSUME "card" \notin Trouble
  PROVE  Spec => SavesWhatJoined
  <1>1. IInv /\ JInv /\ FileIsStore /\ [Next]_vars => NewlySaved
    BY SavesJoined
  <1>. QED
    BY <1>1, Joined, Invariance, PTL DEF Spec, SavesWhatJoined, NewlySaved

\* And a saved network is forgotten only when the user clears it, a new one needs
\* its slot, or a save was cut (WifiCredentialStore.cpp addOrUpdate(), load()).
THEOREM SavedIsKept ==
  ASSUME "card" \notin Trouble
  PROVE  Spec => NothingForgotten
  <1>1. IInv /\ FileIsStore /\ [Next]_vars
          => \A n \in Networks : Holds(store, n) /\ ~Holds(store', n) => ForgottenFor(n)
    BY ForgetsAsked
  <1>. QED
    BY <1>1, Joined, Invariance, PTL DEF Spec, NothingForgotten, ForgottenFor
-----------------------------------------------------------------------------
\* The table of a store.
KeysOf(s) == [n \in Saved(s) |-> PasswordOf(s, n)]

\* A network's password is that of its slot.
LEMMA KeyAt ==
  ASSUME NEW s, OneSlot(s), NEW i \in Index, NEW n \in Networks, s.ssid[i] = n
  PROVE  n \in Saved(s) /\ PasswordOf(s, n) = s.password[i]
  <1>1. Holds(s, n) /\ n # None
    BY NamesAssumption DEF Holds
  <1>2. SlotFor(s, n) \in Index /\ s.ssid[SlotFor(s, n)] = n
    BY <1>1, SlotForHolds
  <1>3. SlotFor(s, n) = i
    BY <1>1, <1>2 DEF OneSlot
  <1>. QED
    BY <1>1, <1>3 DEF Saved, PasswordOf

\* A new content of one slot is a new entry in the place of the old one.
LEMMA PutKeys ==
  ASSUME NEW s, NEW t, OneSlot(s), OneSlot(t), NEW i \in Index, NEW n \in Networks, NEW p,
         OnePut(s, t, i, n, p)
  PROVE  KeysOf(t) = Abstract!With(Abstract!Without(KeysOf(s), s.ssid[i]), n, p)
  <1> DEFINE m == s.ssid[i]
             k == Abstract!With(Abstract!Without(KeysOf(s), m), n, p)
  <1>1. DOMAIN KeysOf(t) = Saved(t) /\ DOMAIN KeysOf(s) = Saved(s)
    BY DEF KeysOf
  <1>2. k = [x \in (Saved(s) \ {m}) \union {n} |-> IF x = n THEN p ELSE PasswordOf(s, x)]
    BY DEF Abstract!With, Abstract!Without, KeysOf
  <1>3. n \in Saved(t) /\ PasswordOf(t, n) = p
    BY KeyAt DEF OnePut
  <1>4. ASSUME NEW x \in Networks, x # n, x \in Saved(s), x # m
        PROVE  x \in Saved(t) /\ PasswordOf(t, x) = PasswordOf(s, x)
    <2>1. PICK j \in Index : s.ssid[j] = x
      BY <1>4 DEF Saved, Holds
    <2>2. j # i /\ t.ssid[j] = x /\ t.password[j] = s.password[j]
      BY <1>4, <2>1 DEF OnePut
    <2>. QED
      BY <2>1, <2>2, KeyAt
  <1>5. ASSUME NEW x \in Saved(t), x # n
        PROVE  x \in Saved(s) /\ x # m
    <2>1. PICK j \in Index : t.ssid[j] = x
      BY DEF Saved, Holds
    <2>2. j # i /\ s.ssid[j] = x
      BY <1>5, <2>1 DEF OnePut
    <2>3. x \in Saved(s)
      BY <2>2 DEF Saved, Holds
    <2>4. x # m
      BY <2>2, NamesAssumption DEF OneSlot, Saved
    <2>. QED
      BY <2>3, <2>4
  <1>6. Saved(t) = (Saved(s) \ {m}) \union {n} /\ Saved(t) \subseteq Networks
    BY <1>3, <1>4, <1>5 DEF Saved
  <1>7. \A x \in Saved(t) : PasswordOf(t, x) = IF x = n THEN p ELSE PasswordOf(s, x)
    BY <1>3, <1>4, <1>5, <1>6
  <1>. QED
    BY <1>2, <1>6, <1>7 DEF KeysOf

LEMMA RemoveKeys ==
  ASSUME NEW s, NEW t, OneSlot(s), OneSlot(t), NEW i \in Index, NEW n \in Networks, NEW p,
         s.ssid[i] = n, OnePut(s, t, i, None, p)
  PROVE  KeysOf(t) = Abstract!Without(KeysOf(s), n)
  <1>1. Abstract!Without(KeysOf(s), n) = [x \in Saved(s) \ {n} |-> PasswordOf(s, x)]
    BY DEF Abstract!Without, KeysOf
  <1>2. ASSUME NEW x \in Saved(s), x # n
        PROVE  x \in Saved(t) /\ PasswordOf(t, x) = PasswordOf(s, x)
    <2>1. PICK j \in Index : s.ssid[j] = x
      BY <1>2 DEF Saved, Holds
    <2>2. x \in Networks /\ j # i /\ t.ssid[j] = x /\ t.password[j] = s.password[j]
      BY <1>2, <2>1 DEF OnePut, Saved
    <2>. QED
      BY <2>1, <2>2, KeyAt
  <1>3. ASSUME NEW x \in Saved(t)
        PROVE  x \in Saved(s) /\ x # n
    <2>1. PICK j \in Index : t.ssid[j] = x
      BY DEF Saved, Holds
    <2>2. x \in Networks /\ x # None
      BY NamesAssumption DEF Saved
    <2>3. j # i /\ s.ssid[j] = x
      BY <2>1, <2>2 DEF OnePut
    <2>. QED
      BY <2>2, <2>3 DEF OneSlot, Saved, Holds
  <1>4. Saved(t) = Saved(s) \ {n}
    BY <1>2, <1>3
  <1>. QED
    BY <1>1, <1>2, <1>4 DEF KeysOf

LEMMA SameKeys ==
  ASSUME NEW s, NEW t, s.ssid = t.ssid, s.password = t.password
  PROVE  KeysOf(s) = KeysOf(t)
  BY DEF KeysOf, Saved, Holds, PasswordOf, SlotFor

\* An entry that only replaces itself, or none, is added.
LEMMA WithOwn ==
  ASSUME NEW k, NEW n, NEW p, NEW m, m = n \/ m \notin DOMAIN k
  PROVE  Abstract!With(Abstract!Without(k, m), n, p) = Abstract!With(k, n, p)
  <1>1. Abstract!With(Abstract!Without(k, m), n, p)
          = [x \in (DOMAIN k \ {m}) \union {n} |-> IF x = n THEN p ELSE k[x]]
    BY DEF Abstract!With, Abstract!Without
  <1>2. (DOMAIN k \ {m}) \union {n} = DOMAIN k \union {n}
    OBVIOUS
  <1>. QED
    BY <1>1, <1>2 DEF Abstract!With

\* The table is as large as the slots in use.
LEMMA TableSize ==
  ASSUME NEW s \in Store, OneSlot(s)
  PROVE  /\ Holds(s, None) => Cardinality(Saved(s)) < SlotCount
         /\ ~Holds(s, None) => Cardinality(Saved(s)) = SlotCount
  <1> DEFINE used == {i \in Index : s.ssid[i] # None}
             f    == [i \in used |-> s.ssid[i]]
  <1>1. s.ssid \in [Index -> Named]
    BY DEF Store
  <1>2. f \in Bijection(used, Saved(s))
    <2>1. f \in [used -> Saved(s)]
      BY <1>1 DEF Saved, Holds, Named
    <2>2. \A i, j \in used : f[i] = f[j] => i = j
      BY DEF OneSlot
    <2>3. \A n \in Saved(s) : \E i \in used : f[i] = n
      BY NamesAssumption DEF Saved, Holds
    <2>. HIDE DEF f, used
    <2>. QED
      BY <2>1, <2>2, <2>3 DEF Bijection, Injection, Surjection, IsInjective
  <1>3. IsFiniteSet(Index) /\ Cardinality(Index) = SlotCount
    BY FS_Interval, SlotAssumption DEF Index
  <1>4. IsFiniteSet(used) /\ Cardinality(used) <= SlotCount
        /\ (Cardinality(used) = SlotCount => used = Index)
    BY <1>3, FS_Subset
  <1>5. Cardinality(used) = Cardinality(Saved(s)) /\ Cardinality(used) \in Nat
    <2>. HIDE DEF f, used
    <2>. QED
      BY <1>2, <1>4, FS_Bijection, FS_CardinalityType DEF ExistsBijection
  <1>6. used = Index <=> ~Holds(s, None)
    BY DEF Holds
  <1>. HIDE DEF used
  <1>. QED
    BY <1>3, <1>4, <1>5, <1>6, SlotAssumption

\* addOrUpdate() is a change of the table, remove() and a lost file as well.
LEMMA AddedTable ==
  ASSUME NEW s \in Store, OneSlot(s), NEW n \in Networks, NEW p \in Typed
  PROVE  \/ /\ n \in Saved(s) \/ Cardinality(Saved(s)) < SlotCount
            /\ KeysOf(Added(s, n, p)) = Abstract!With(KeysOf(s), n, p)
            /\ Added(s, n, p).last = s.last
         \/ \E m \in Saved(s) :
              /\ n \notin Saved(s) /\ Cardinality(Saved(s)) = SlotCount
              /\ KeysOf(Added(s, n, p)) = Abstract!With(Abstract!Without(KeysOf(s), m), n, p)
              /\ Added(s, n, p).last = IF s.last = m THEN None ELSE s.last
  <1> DEFINE t == Added(s, n, p)
  <1>1. n \in Named /\ n # None /\ None \in Named /\ None \notin Networks
    BY NamesAssumption DEF Named
  <1>2. t \in Store /\ OneSlot(t)
    BY <1>1, AddedFields
  <1>3. DOMAIN KeysOf(s) = Saved(s) /\ (n \in Saved(s) <=> Holds(s, n)) /\ None \notin Saved(s)
    BY <1>1 DEF KeysOf, Saved
  <1>4. CASE Holds(s, n)
    <2>1. SlotFor(s, n) \in Index /\ s.ssid[SlotFor(s, n)] = n
      BY <1>4, SlotForHolds
    <2>2. t = Put(s, SlotFor(s, n), n, p)
      BY <1>4 DEF Added
    <2>3. OnePut(s, t, SlotFor(s, n), n, p)
      BY <1>1, <2>1, <2>2, PutFields
    <2>4. t.last = s.last
      BY <2>2 DEF Put, Store
    <2>. HIDE DEF t
    <2>5. KeysOf(t) = Abstract!With(Abstract!Without(KeysOf(s), n), n, p)
      BY <1>2, <2>1, <2>3, PutKeys
    <2>6. KeysOf(t) = Abstract!With(KeysOf(s), n, p)
      BY <2>5, WithOwn
    <2>. QED
      BY <1>3, <1>4, <2>4, <2>6 DEF t
  <1>5. CASE ~Holds(s, n) /\ Holds(s, None)
    <2>1. SlotFor(s, None) \in Index /\ s.ssid[SlotFor(s, None)] = None
      BY <1>5, SlotForHolds
    <2>2. t = Put(s, SlotFor(s, None), n, p)
      BY <1>5 DEF Added
    <2>3. OnePut(s, t, SlotFor(s, None), n, p)
      BY <1>1, <2>1, <2>2, PutFields
    <2>4. t.last = s.last
      BY <2>2 DEF Put, Store
    <2>5. Cardinality(Saved(s)) < SlotCount
      BY <1>5, TableSize
    <2>. HIDE DEF t
    <2>6. KeysOf(t) = Abstract!With(Abstract!Without(KeysOf(s), None), n, p)
      BY <1>2, <2>1, <2>3, PutKeys
    <2>7. KeysOf(t) = Abstract!With(KeysOf(s), n, p)
      BY <1>3, <2>6, WithOwn
    <2>. QED
      BY <2>4, <2>5, <2>7 DEF t
  <1>6. CASE ~Holds(s, n) /\ ~Holds(s, None)
    <2> DEFINE m == s.ssid[s.nextEvict]
    <2>1. s.nextEvict \in Index /\ s.ssid \in [Index -> Named]
      BY DEF Store
    <2>2. m \in Networks /\ m \in Saved(s)
      BY <1>6, <2>1 DEF Holds, Named, Saved
    <2>3. t = Put(Evicted(s), s.nextEvict, n, p)
      BY <1>6 DEF Added
    <2>4. Evicted(s) \in Store /\ Evicted(s).ssid = s.ssid /\ Evicted(s).password = s.password
      BY EvictedFields
    <2>5. OnePut(s, t, s.nextEvict, n, p)
      BY <1>1, <2>1, <2>3, <2>4, PutFields DEF OnePut
    <2>6. Evicted(s).last = IF s.last = m THEN None ELSE s.last
      BY DEF Evicted, LastCleared, Store
    <2>7. t.last = Evicted(s).last
      BY <2>3, <2>4 DEF Put, Store
    <2>8. Cardinality(Saved(s)) = SlotCount
      BY <1>6, TableSize
    <2>. HIDE DEF t
    <2>9. KeysOf(t) = Abstract!With(Abstract!Without(KeysOf(s), m), n, p)
      BY <1>2, <2>1, <2>5, PutKeys
    <2>. HIDE DEF m
    <2>. QED
      BY <1>3, <1>6, <2>2, <2>6, <2>7, <2>8, <2>9 DEF t
  <1>. QED
    BY <1>4, <1>5, <1>6

LEMMA RemovedTable ==
  ASSUME NEW s \in Store, OneSlot(s), NEW n \in Networks, Holds(s, n)
  PROVE  /\ n \in Saved(s)
         /\ KeysOf(Removed(s, n)) = Abstract!Without(KeysOf(s), n)
         /\ Removed(s, n).last = IF s.last = n THEN None ELSE s.last
  <1> DEFINE t == Removed(s, n)
             c == LastCleared(s, n)
  <1>1. SlotFor(s, n) \in Index /\ s.ssid[SlotFor(s, n)] = n
    BY SlotForHolds
  <1>2. c \in Store /\ c.ssid = s.ssid /\ c.password = s.password
        /\ c.last = IF s.last = n THEN None ELSE s.last
    BY DEF LastCleared, Store, Named
  <1>3. t = Put(c, SlotFor(s, n), None, NoPassword)
    BY DEF Removed
  <1>4. t \in Store /\ OneSlot(t)
    BY RemovedFields
  <1>. HIDE DEF c
  <1>5. OnePut(s, t, SlotFor(s, n), None, NoPassword)
    BY <1>1, <1>2, <1>3, NamesTyped, PutFields DEF OnePut
  <1>6. t.last = c.last
    BY <1>2, <1>3 DEF Put, Store
  <1>. HIDE DEF t
  <1>7. KeysOf(t) = Abstract!Without(KeysOf(s), n)
    BY <1>1, <1>4, <1>5, RemoveKeys
  <1>. QED
    BY <1>2, <1>6, <1>7 DEF Saved, t

LEMMA EmptyTable == KeysOf(Empty) = Abstract!Nothing
  <1>1. Saved(Empty) = {}
    BY NamesAssumption DEF Saved, Holds, Empty
  <1>. QED
    BY <1>1 DEF KeysOf, Abstract!Nothing
-----------------------------------------------------------------------------
\* What is connected to, cleared or asked for is a network of the air, and only a
\* password that is one is saved.
Asked ==
  /\ state \in {"Connecting", "ClearPassword"} \/ screen = "keyboard" => pending \in Networks
  /\ pc = "add" => entered \in Passwords

LEMMA AskedInv ==
  ASSUME IInv, JInv, Asked, [Next]_vars
  PROVE  Asked'
  <1> USE DEF Asked
  <1>1. CASE Scan
    <2>1. pc' = "tick"
      BY <1>1 DEF Scan, Runs
    <2>2. CASE UNCHANGED <<air, screen, state, found, pending, entered, usedSaved, auto>>
      BY <2>1, <2>2
    <2>3. ASSUME NEW f \in SUBSET Networks, NEW n \in AutoTargets(f), Select(n, TRUE)
          PROVE  Asked'
      <3>1. n \in Networks
        BY <2>3 DEF AutoTargets, Candidates
      <3>. QED
        BY <2>1, <2>3, <3>1 DEF Select
    <2>4. CASE ShowsList /\ UNCHANGED screen
      BY <1>1, <2>1, <2>4 DEF ShowsList, Scan, Runs
    <2>. QED
      BY <1>1, <2>2, <2>3, <2>4 DEF Scan
  <1>2. CASE PollJoined
    <2>1. entered \in Typed
      BY DEF IInv, TypeOK
    <2>. QED
      BY <1>2, <2>1 DEF PollJoined, Runs, session, Typed
  <1>3. CASE PollFails
    BY <1>3 DEF PollFails, Runs
  <1>4. CASE AddOrUpdate
    BY <1>4 DEF AddOrUpdate, session
  <1>5. CASE SetLastConnected
    BY <1>5 DEF SetLastConnected, JInv, StillJoined
  <1>6. CASE Enter
    BY <1>6 DEF Enter, Fresh, JInv, StillJoined
  <1>7. CASE EndSession \/ PowerLost
    BY <1>7 DEF EndSession, PowerLost, Restart, Fresh
  <1>8. CASE Interrupt \/ BackToList \/ CancelPassword
    BY <1>8 DEF Interrupt, BackToList, CancelPassword, ShowsList, Runs, JInv, StillJoined
  <1>9. CASE ClearPassword
    BY <1>9 DEF ClearPassword, Runs
  <1>10. ASSUME NEW n \in Networks, Choose(n)
         PROVE  Asked'
    BY <1>10 DEF Choose, Select, Runs
  <1>11. ASSUME NEW p \in Typed, EnterPassword(p)
         PROVE  Asked'
    BY <1>11 DEF EnterPassword, Connects, JInv, StillJoined
  <1>12. CASE RadioJoins \/ RadioFails \/ TimePasses \/ RouterChanges
    BY <1>12 DEF RadioJoins, RadioFails, TimePasses, RouterChanges, Runs, session
  <1>13. CASE UNCHANGED vars
    BY <1>13 DEF vars, session
  <1>. QED
    BY <1>1, <1>2, <1>3, <1>4, <1>5, <1>6, <1>7, <1>8, <1>9, <1>10, <1>11, <1>12, <1>13
       DEF Next, Poll, User, World
-----------------------------------------------------------------------------
\* What a step does to the table.
Maps == [Abstract!Next]_<<Keys, store.last>>

LEMMA SameCount == \A S : Abstract!Cardinality(S) = Cardinality(S)
  BY DEF Abstract!Cardinality, Cardinality

LEMMA KeysAre == Keys = KeysOf(store) /\ Keys' = KeysOf(store') /\ DOMAIN Keys = Saved(store)
  BY DEF Keys, KeysOf

LEMMA AddMaps ==
  ASSUME IInv, JInv, Asked, AddOrUpdate
  PROVE  Maps
  <1>1. pending \in Networks /\ entered \in Passwords /\ store' = Added(store, pending, entered)
    BY DEF AddOrUpdate, Saves, Asked, JInv, StillJoined
  <1>2. store \in Store /\ OneSlot(store) /\ entered \in Typed
    BY <1>1 DEF IInv, TypeOK, Distinct, Typed
  <1>3. CASE /\ pending \in Saved(store) \/ Cardinality(Saved(store)) < SlotCount
             /\ KeysOf(store') = Abstract!With(KeysOf(store), pending, entered)
             /\ store'.last = store.last
    <2>1. Abstract!Learn(pending, entered)
      BY <1>3, KeysAre, SameCount DEF Abstract!Learn
    <2>. QED
      BY <1>1, <2>1 DEF Maps, Abstract!Next
  <1>4. ASSUME NEW m \in Saved(store),
               pending \notin Saved(store), Cardinality(Saved(store)) = SlotCount,
               KeysOf(store') = Abstract!With(Abstract!Without(KeysOf(store), m), pending, entered),
               store'.last = IF store.last = m THEN None ELSE store.last
        PROVE  Maps
    <2>1. Abstract!Replace(m, pending, entered) /\ m \in DOMAIN Keys
      BY <1>4, KeysAre, SameCount DEF Abstract!Replace, Abstract!LastWithout
    <2>. QED
      BY <1>1, <2>1 DEF Maps, Abstract!Next
  <1>. QED
    BY <1>1, <1>2, <1>3, <1>4, AddedTable

LEMMA JoinMaps ==
  ASSUME IInv, JInv, Asked, SetLastConnected
  PROVE  Maps
  <1>1. pending \in Networks /\ store' = [store EXCEPT !.last = pending]
    BY DEF SetLastConnected, Saves, Asked, JInv, StillJoined
  <1>2. store \in Store
    BY DEF IInv, TypeOK
  <1>3. store'.ssid = store.ssid /\ store'.password = store.password /\ store'.last = pending
    BY <1>1, <1>2 DEF Store
  <1>4. Abstract!Join(pending)
    BY <1>3, KeysAre, SameKeys DEF Abstract!Join
  <1>. QED
    BY <1>1, <1>4 DEF Maps, Abstract!Next

LEMMA ClearMaps ==
  ASSUME IInv, JInv, Asked, ClearPassword
  PROVE  Maps
  <1>1. pending \in Networks /\ store' = Removed(store, pending)
    BY DEF ClearPassword, Runs, Saves, Asked
  <1>2. store \in Store /\ OneSlot(store)
    BY DEF IInv, TypeOK, Distinct
  <1>3. CASE Holds(store, pending)
    <2>1. /\ pending \in Saved(store)
          /\ KeysOf(store') = Abstract!Without(KeysOf(store), pending)
          /\ store'.last = IF store.last = pending THEN None ELSE store.last
      BY <1>1, <1>2, <1>3, RemovedTable
    <2>2. Abstract!Forget(pending) /\ pending \in DOMAIN Keys
      BY <2>1, KeysAre DEF Abstract!Forget, Abstract!LastWithout
    <2>. QED
      BY <2>2 DEF Maps, Abstract!Next
  <1>4. CASE ~Holds(store, pending)
    <2>1. store' = store
      BY <1>1, <1>4 DEF Removed
    <2>. QED
      BY <2>1, KeysAre DEF Maps
  <1>. QED
    BY <1>3, <1>4

LEMMA StepMaps ==
  ASSUME IInv, JInv, FileIsStore, Asked, [Next]_vars
  PROVE  Maps
  <1>0. ASSUME store' = store
        PROVE  Maps
    <2>1. Keys' = Keys /\ store'.last = store.last
      BY <1>0, KeysAre
    <2>. QED
      BY <2>1 DEF Maps
  <1>1. CASE UNCHANGED saved
    BY <1>0, <1>1 DEF saved
  <1>2. CASE EndSession \/ PowerLost
    <2>1. CASE store' = store
      BY <1>0, <2>1
    <2>2. CASE store' = Empty
      <3>1. store'.last = None
        BY <2>2 DEF Empty
      <3>2. Abstract!LoseAll
        BY <2>2, <3>1, KeysAre, EmptyTable DEF Abstract!LoseAll
      <3>. QED
        BY <3>2 DEF Maps, Abstract!Next
    <2>. QED
      BY <1>2, <2>1, <2>2, RestartStore
  <1>. QED
    BY <1>1, <1>2, AddMaps, JoinMaps, ClearMaps, WhoSaves

\* Slots, holes, victims and the two saves of a connection implement one table of at
\* most SlotCount passwords and the network joined last: nothing is found that was
\* not saved for that network, a full table alone gives up one for another, and a
\* restart finds all of it or, after a cut save, nothing
\* (WifiCredentialStore.cpp find(), addOrUpdate(), remove(), setLastConnected(), load()).
THEOREM TableIsKept ==
  ASSUME "card" \notin Trouble
  PROVE  Spec => KeychainIsKept
  <1>1. Init => Abstract!Init /\ Asked
    <2>1. Init => store = Empty /\ store.last = None
      BY DEF Init, Empty
    <2>. QED
      BY <2>1, KeysAre, EmptyTable DEF Init, Abstract!Init, Asked
  <1>2. IInv /\ JInv /\ Asked /\ [Next]_vars => Asked'
    BY AskedInv
  <1>3. IInv /\ JInv /\ FileIsStore /\ Asked /\ [Next]_vars => Maps
    BY StepMaps
  <1>. QED
    BY <1>1, <1>2, <1>3, Joined, Invariance, PTL
       DEF Spec, KeychainIsKept, Abstract!Spec, Maps
=============================================================================
