------------------------------ MODULE WifiJoin ------------------------------
(***************************************************************************)
(* Joining a Wi-Fi network: WifiListScreen with KeyboardScreen on top of   *)
(* it, WifiManager, and the credential store with its file.                *)
(*                                                                         *)
(* The screen's loop() is one action per branch.  Connecting goes through  *)
(* two saves of the store before the transfer screen is pushed; pc names   *)
(* the point between them, where the power may go.  Every session ends in  *)
(* a restart, so a session starts with a radio that does nothing.          *)
(*                                                                         *)
(* The radio is not in the repository: it joins only with what the access  *)
(* point asks for, may refuse or lose any attempt, and is not joined after *)
(* disconnect().  An open network's password is NoPassword, as is an       *)
(* unused slot's network None; a network name is never empty.              *)
(***************************************************************************)
EXTENDS Integers

CONSTANTS
  Networks,      \* SSIDs
  Passwords,     \* what may be typed, apart from nothing
  SlotCount,     \* kMaxNetworks
  Trouble,       \* what may go wrong
  None, NoPassword, Torn

Index  == 0 .. SlotCount - 1
Typed  == Passwords \union {NoPassword}
Named  == Networks \union {None}
Store  == [ssid : [Index -> Named], password : [Index -> Typed],
           nextEvict : Index, last : Named]
Empty  == [ssid |-> [i \in Index |-> None], password |-> [i \in Index |-> NoPassword],
           nextEvict |-> 0, last |-> None]

ASSUME SlotAssumption == SlotCount \in Nat \ {0}
ASSUME NamesAssumption == None \notin Networks /\ NoPassword \notin Passwords /\ Torn \notin Store
ASSUME TroubleAssumption == Trouble \subseteq {"power", "memory", "card"}

VARIABLES
  secret,        \* what each access point asks for
  radio, attempt, late,   \* the radio, what it was given, and the attempt's timeout
  screen,        \* "off" (anywhere else), "list", "keyboard" on top of it, "transfer"
  state,         \* WifiListScreen: its state machine,
  found, pending, entered,           \* networks, pendingSsid, enteredPassword
  usedSaved, auto, skip,             \* usedSavedPassword, autoConnecting, skipAutoJoin
  pc,            \* "tick", or where goToFileTransfer() is
  store, file    \* wifiCredentials, and what wifi.bin holds

air     == <<secret, radio, attempt, late>>
session == <<screen, state, found, pending, entered, usedSaved, auto, skip>>
saved   == <<store, file>>
vars    == <<air, session, pc, saved>>

TypeOK ==
  /\ secret \in [Networks -> Typed]
  /\ radio \in {"idle", "trying", "joined", "refused", "lost"}
  /\ attempt \in [ssid : Named, password : Typed] /\ late \in BOOLEAN
  /\ screen \in {"off", "list", "keyboard", "transfer"}
  /\ state \in {"Scanning", "NetworkList", "Connecting", "Failed", "ClearPassword"}
  /\ found \subseteq Networks /\ pending \in Named /\ entered \in Typed
  /\ usedSaved \in BOOLEAN /\ auto \in BOOLEAN /\ skip \in BOOLEAN
  /\ pc \in {"tick", "add", "last"}
  /\ store \in Store /\ file \in Store \union {Torn}
-----------------------------------------------------------------------------
\* find(): the first slot of n; of None, the first unused one.
Holds(s, n)    == \E i \in Index : s.ssid[i] = n
SlotFor(s, n)  == CHOOSE i \in Index : s.ssid[i] = n /\ \A j \in 0 .. i - 1 : s.ssid[j] # n
PasswordOf(s, n) == s.password[SlotFor(s, n)]

Put(s, i, n, p) == [s EXCEPT !.ssid[i] = n, !.password[i] = p]

\* Mutant: lastConnectedSsid outlives its slot.
LastStays(s, n) == s

\* lastConnectedSsid is emptied when its slot goes.
LastCleared(s, n) == IF s.last = n THEN [s EXCEPT !.last = None] ELSE s

NextVictim(i) == (i + 1) % SlotCount

Evicted(s) == [LastCleared(s, s.ssid[s.nextEvict]) EXCEPT !.nextEvict = NextVictim(s.nextEvict)]

\* addOrUpdate(): the network's own slot, else an unused one, else the victim's.
Added(s, n, p) ==
  IF Holds(s, n) THEN Put(s, SlotFor(s, n), n, p)
  ELSE IF Holds(s, None) THEN Put(s, SlotFor(s, None), n, p)
  ELSE Put(Evicted(s), s.nextEvict, n, p)

\* remove()
Removed(s, n) == IF Holds(s, n) THEN Put(LastCleared(s, n), SlotFor(s, n), None, NoPassword) ELSE s

\* Mutant: only memory changes.
SavesLater(s) == store' = s /\ UNCHANGED file

\* The change and save(): a card that fails leaves the old file or a torn one.
Saves(s) ==
  /\ store' = s
  /\ file' \in {s} \union IF "card" \in Trouble THEN {file, Torn} ELSE {}

\* load(): a torn file is ignored.
Loaded(f) == IF f = Torn THEN Empty ELSE f
-----------------------------------------------------------------------------
Runs(st) == screen = "list" /\ pc = "tick" /\ state = st

Encrypted(n) == secret[n] # NoPassword

ShowsList == state' = "NetworkList" /\ auto' = FALSE /\ usedSaved' = FALSE

\* startConnecting() and connect(): any attempt before it is aborted.
Connects(n, p) ==
  /\ radio' = "trying" /\ attempt' = [ssid |-> n, password |-> p] /\ late' = FALSE
  /\ state' = "Connecting"

\* promptPassword(): the keyboard, or no memory for it.
KeyboardShown == screen' = "keyboard"
NoKeyboard    == "memory" \in Trouble /\ UNCHANGED screen

\* Mutant: what was entered before is kept for a network without a password.
EnteredKept(n) == IF Encrypted(n) /\ Holds(store, n) THEN PasswordOf(store, n) ELSE entered

\* enteredPassword, after a network was selected.
EnteredFor(n) == IF Encrypted(n) /\ Holds(store, n) THEN PasswordOf(store, n) ELSE NoPassword

\* selectNetwork()
Select(n, automatic) ==
  /\ pending' = n /\ entered' = EnteredFor(n)
  /\ auto' = automatic /\ usedSaved' = (Encrypted(n) /\ Holds(store, n))
  /\ \/ ~Encrypted(n) /\ Connects(n, NoPassword) /\ UNCHANGED screen
     \/ Encrypted(n) /\ Holds(store, n) /\ Connects(n, PasswordOf(store, n)) /\ UNCHANGED screen
     \/ /\ Encrypted(n) /\ ~Holds(store, n)
        /\ KeyboardShown \/ NoKeyboard
        /\ UNCHANGED <<state, radio, attempt, late>>

\* tryAutoJoin(): the last network if it is here, else the strongest saved one.
Candidates(f) ==
  IF store.last \in f /\ Holds(store, store.last) THEN {store.last}
  ELSE {n \in f : Holds(store, n)}

\* Mutant: an interruption counts from the next tick on.
AutoTargetsEarly(f) == IF skip THEN {} ELSE Candidates(f)

AutoTargets(f) == IF skip' THEN {} ELSE Candidates(f)
-----------------------------------------------------------------------------
\* The screen's members, before anything was found.
Fresh ==
  /\ state' = "Scanning" /\ found' = {} /\ pending' = None /\ entered' = NoPassword
  /\ usedSaved' = FALSE /\ auto' = FALSE /\ skip' = FALSE

\* onEnter()
Enter ==
  /\ screen = "off" /\ screen' = "list"
  /\ Fresh
  /\ UNCHANGED <<air, pc, saved>>

\* Confirm gives up the automatic attempt, also in the tick that ends the scan.
Scan ==
  /\ Runs("Scanning")
  /\ skip' \in {skip, TRUE}
  /\ \/ UNCHANGED <<air, screen, state, found, pending, entered, usedSaved, auto>>
     \/ \E f \in SUBSET Networks :
          /\ found' = f
          /\ \/ \E n \in AutoTargets(f) : Select(n, TRUE)
             \/ /\ AutoTargets(f) = {}
                /\ ShowsList
                /\ UNCHANGED <<radio, attempt, late, screen, pending, entered>>
  /\ UNCHANGED <<secret, pc, saved>>

Choose(n) ==
  /\ Runs("NetworkList") /\ n \in found
  /\ Select(n, FALSE)
  /\ UNCHANGED <<secret, found, skip, pc, saved>>

Interrupt ==
  /\ Runs("Connecting") /\ auto
  /\ radio' = "idle" /\ skip' = TRUE
  /\ ShowsList
  /\ UNCHANGED <<secret, attempt, late, screen, found, pending, entered, pc, saved>>

\* pollConnect() finds the connection; goToFileTransfer() saves before it pushes.
PollJoined ==
  /\ Runs("Connecting") /\ radio = "joined"
  /\ pc' = (IF entered = NoPassword THEN "last" ELSE "add")
  /\ UNCHANGED <<air, session, saved>>

\* Mutant: only a refusal ends an attempt.
GivesUpRefused == radio = "refused"

GivesUp == radio = "refused" \/ (radio # "joined" /\ late)

\* pollConnect() and onConnectFailed()
PollFails ==
  /\ Runs("Connecting") /\ GivesUp
  /\ radio' = "idle" /\ auto' = FALSE
  /\ state' = (IF usedSaved THEN "ClearPassword" ELSE "Failed")
  /\ UNCHANGED <<secret, attempt, late, screen, found, pending, entered, usedSaved, skip, pc, saved>>

AddOrUpdate ==
  /\ pc = "add" /\ pc' = "last"
  /\ Saves(Added(store, pending, entered))
  /\ UNCHANGED <<air, session>>

\* setLastConnected() and the push; without memory the next tick polls again.
SetLastConnected ==
  /\ pc = "last" /\ pc' = "tick"
  /\ Saves([store EXCEPT !.last = pending])
  /\ screen' \in {"transfer"} \union IF "memory" \in Trouble THEN {"list"} ELSE {}
  /\ UNCHANGED <<air, state, found, pending, entered, usedSaved, auto, skip>>

\* The message of a failure is left, or the saved password is kept.
BackToList ==
  /\ Runs("Failed") \/ Runs("ClearPassword")
  /\ ShowsList
  /\ UNCHANGED <<air, screen, found, pending, entered, skip, pc, saved>>

ClearPassword ==
  /\ Runs("ClearPassword")
  /\ Saves(Removed(store, pending))
  /\ entered' = NoPassword /\ usedSaved' = FALSE
  /\ \/ KeyboardShown /\ UNCHANGED <<state, auto>>
     \/ NoKeyboard /\ ShowsList
  /\ UNCHANGED <<air, found, pending, skip, pc>>

\* KeyboardScreen: Done, with anything typed, or Back.
EnterPassword(p) ==
  /\ screen = "keyboard" /\ screen' = "list"
  /\ entered' = p /\ usedSaved' = FALSE /\ auto' = FALSE
  /\ Connects(pending, p)
  /\ UNCHANGED <<secret, found, pending, skip, pc, saved>>

CancelPassword ==
  /\ screen = "keyboard" /\ screen' = "list"
  /\ ShowsList
  /\ UNCHANGED <<air, found, pending, entered, skip, pc, saved>>
-----------------------------------------------------------------------------
\* The radio, the clock and the access points.
RadioJoins ==
  /\ screen = "list" /\ pc = "tick"
  /\ radio = "trying" /\ attempt.password = secret[attempt.ssid]
  /\ radio' = "joined"
  /\ UNCHANGED <<secret, attempt, late, session, pc, saved>>

RadioFails ==
  /\ screen = "list" /\ pc = "tick"
  /\ \/ radio = "trying" /\ radio' = "refused"
     \/ radio = "joined" /\ radio' = "lost"
  /\ UNCHANGED <<secret, attempt, late, session, pc, saved>>

TimePasses ==
  /\ Runs("Connecting") /\ ~late
  /\ late' = TRUE
  /\ UNCHANGED <<secret, radio, attempt, session, pc, saved>>

RouterChanges ==
  /\ screen = "off"
  /\ \E n \in Networks, p \in Typed : secret' = [secret EXCEPT ![n] = p]
  /\ UNCHANGED <<radio, attempt, late, session, pc, saved>>
-----------------------------------------------------------------------------
\* RAM is gone, and setup() loads the file again.
Restart ==
  /\ screen' = "off" /\ pc' = "tick"
  /\ Fresh
  /\ radio' = "idle" /\ attempt' = [ssid |-> None, password |-> NoPassword] /\ late' = FALSE
  /\ store' = Loaded(file')
  /\ UNCHANGED secret

\* onExit() of either screen restarts the chip.
EndSession ==
  /\ pc = "tick"
  /\ screen = "transfer" \/ (screen = "list" /\ state \notin {"Failed", "ClearPassword"})
  /\ UNCHANGED file /\ Restart

\* A save that is under way truncates the file first.
Saving == pc # "tick" \/ Runs("ClearPassword")

PowerLost ==
  /\ "power" \in Trouble /\ screen # "off"
  /\ file' \in {file} \union IF Saving THEN {Torn} ELSE {}
  /\ Restart

Init ==
  /\ secret \in [Networks -> Typed]
  /\ radio = "idle" /\ attempt = [ssid |-> None, password |-> NoPassword] /\ late = FALSE
  /\ screen = "off" /\ state = "Scanning" /\ found = {} /\ pending = None
  /\ entered = NoPassword /\ usedSaved = FALSE /\ auto = FALSE /\ skip = FALSE
  /\ pc = "tick"
  /\ store = Empty /\ file = Empty

Poll == PollJoined \/ PollFails \/ AddOrUpdate \/ SetLastConnected

User ==
  \/ Enter \/ Interrupt \/ BackToList \/ ClearPassword \/ CancelPassword \/ EndSession
  \/ \E n \in Networks : Choose(n)
  \/ \E p \in Typed : EnterPassword(p)

World == RadioJoins \/ RadioFails \/ TimePasses \/ RouterChanges \/ PowerLost

Next == Scan \/ Poll \/ User \/ World

Spec == Init /\ [][Next]_vars

\* Every tick polls, and the clock runs.
FairSpec == Spec /\ WF_vars(Poll) /\ WF_vars(TimePasses)
-----------------------------------------------------------------------------
\* No network is saved twice, so the password that is found is the newest.
OneSlotEach ==
  \A i, j \in Index : store.ssid[i] # None /\ store.ssid[i] = store.ssid[j] => i = j

\* A password enters the store only as the one the radio has just joined with, for
\* that network: nothing typed for another network, refused, cleared or
\* interrupted is saved, and no restart brings a cleared password back.
SavesWhatJoined ==
  [][\A i \in Index :
       LET n == store'.ssid[i]
           p == store'.password[i]
       IN  n # None /\ ~(Holds(store, n) /\ PasswordOf(store, n) = p)
             => radio = "joined" /\ attempt = [ssid |-> n, password |-> p]]_vars

\* A saved network is forgotten only when the user clears it, when a new one needs
\* its slot, or when a save was cut: no restart loses it otherwise.
NothingForgotten ==
  [][\A n \in Networks : Holds(store, n) /\ ~Holds(store', n)
       => \/ state = "ClearPassword" /\ n = pending
          \/ pc = "add" /\ ~Holds(store, None) /\ ~Holds(store, pending)
          \/ file' = Torn]_vars

\* Refinement: the passwords that can be found, and lastConnectedSsid.
Saved(s) == {n \in Networks : Holds(s, n)}
Keys     == [n \in Saved(store) |-> PasswordOf(store, n)]

Abstract == INSTANCE Keychain WITH
  Capacity <- SlotCount, keys <- Keys, last <- store.last

\* Slots, victims, holes, the two saves of a connection and the file behind them
\* come to one table: it is changed in single steps, each of which a restart finds
\* again, and only a full table gives up a network for another.
KeychainIsKept == Abstract!Spec

\* An automatic attempt is only made to a saved network, and never once the user
\* has asked to choose.
AutoIsQuiet ==
  auto => ~skip /\ state = "Connecting" /\ screen # "keyboard" /\ Holds(store, pending)

\* Every attempt ends, or stays connected without the memory for the next screen.
AttemptsEnd ==
  (screen = "list" /\ state = "Connecting") ~>
    (screen # "list" \/ state # "Connecting" \/ radio = "joined")
=============================================================================
