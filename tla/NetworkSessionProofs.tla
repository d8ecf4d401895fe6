------------------------ MODULE NetworkSessionProofs -------------------------
(***************************************************************************)
(* The pages after the network page are only shown with a connection, and  *)
(* a session waits exactly as long as its own backend works for it.        *)
(***************************************************************************)
EXTENDS NetworkSession, TLAPS

(***************************************************************************)
(* The inductive invariant.  Every entry before the present one is         *)
(* destroyed, none after it has begun, so that of all the operations that  *)
(* may still end only that of the present entry is heard; and what the     *)
(* Next button of the network page was drawn from is still the snapshot.   *)
(***************************************************************************)
EntriesInOrder ==
  \A e \in Entries :
    /\ e < entry => e \in destroyed
    /\ e > entry => e \notin destroyed /\ ~InFlight(e)

PresentEntry ==
  /\ gui.open => entry \notin destroyed
  /\ ~gui.open /\ entry \notin destroyed => ~InFlight(entry)

OperationsKnown ==
  \A e \in Entries :
    /\ e \in backendBusy <=> InFlight(e)
    /\ ops[e].attempt < Attempts
    /\ ops[e].found.state \notin {"SCANNING", "CONNECTING"}

NextAsDrawn ==
  gui.open /\ gui.page = Network /\ gui.next => HasConnection(snapshot)

NetworkInv ==
  /\ TypeOK /\ EntriesInOrder /\ PresentEntry /\ OperationsKnown
  /\ NextAsDrawn /\ PastNetwork /\ BusyIsOperation

\* The pages by number, and the records the steps are made of.
LEMMA PagesAre == DOMAIN Pages = 1..6
BY DEF Pages

Windows ==
  [open : BOOLEAN, advanced : BOOLEAN, page : 1..6,
   disk : BOOLEAN, next : BOOLEAN, selected : Networks \cup {"none"}]

\* The types of the session, part by part.
LEMMA BasicsTyped ==
  /\ Reset \in Snapshots /\ NoOperation \in Operations
  /\ Attempts \in Nat \ {0} /\ MaxEntries \in Nat \ {0}
  /\ Opened(TRUE) \in Windows /\ Opened(FALSE) \in Windows
<1>1. Attempts \in Nat \ {0} /\ MaxEntries \in Nat \ {0}
  BY NetworkAssumption
<1>2. Reset \in Snapshots
  BY DEF Reset, Snapshots
<1>3. NoOperation \in Operations
  BY <1>1, <1>2 DEF NoOperation, Operations
<1> QED BY <1>1, <1>2, <1>3 DEF Opened, Windows, Network, Disk

\* What Next may be drawn as; on the network page it follows the connection.
LEMMA CanNextIs ==
  ASSUME NEW g \in Windows, NEW s, NEW n \in CanNext(g, s)
  PROVE  n \in BOOLEAN /\ (g.page = Network => n = HasConnection(s))
<1>1. HasConnection(s) \in BOOLEAN
  BY DEF HasConnection
<1>2. n \in {g.disk, HasConnection(s)} \cup BOOLEAN
  BY DEF CanNext
<1>3. g.page = Network => n = HasConnection(s)
  BY DEF CanNext, Network, Disk
<1> QED BY <1>1, <1>2, <1>3 DEF Windows

\* A redrawn window shows the same page, with nothing selected; on the network
\* page Next follows the connection.
LEMMA RedrawnIs ==
  ASSUME NEW g \in Windows, NEW s \in Snapshots, NEW h \in Redrawn(g, s)
  PROVE  /\ h \in Windows /\ h.open = g.open /\ h.page = g.page
         /\ g.page = Network => h.next = HasConnection(s)
<1>1. PICK n \in CanNext(g, s) : h = [g EXCEPT !.selected = "none", !.next = n]
  BY DEF Redrawn
<1>2. n \in BOOLEAN /\ (g.page = Network => n = HasConnection(s))
  BY CanNextIs
<1> QED BY <1>1, <1>2 DEF Windows

\* A request of the present entry is never refused while nothing is going on:
\* the session waits for the operation it has started.
LEMMA RequestsInv ==
  ASSUME NetworkInv, gui.open, ~busy, NEW g \in Windows, g.open,
         g.page = Network, NEW kind \in {"refresh", "connect"},
         NEW s \in {"SCANNING", "CONNECTING"},
         Requests(g, entry, kind, s), UNCHANGED <<entry, destroyed>>
  PROVE  NetworkInv'
<1> USE DEF NetworkInv
<1>1. ~Refused(entry) /\ entry \in Entries
  BY DEF Refused, PresentEntry, BusyIsOperation, TypeOK
<1>2. /\ busy' = TRUE /\ snapshot' = [snapshot EXCEPT !.state = s]
      /\ gui' \in Redrawn(g, snapshot') /\ backendBusy' = backendBusy \cup {entry}
      /\ ops' = [ops EXCEPT ![entry] = [NoOperation EXCEPT !.kind = kind, !.at = "bus"]]
  BY <1>1 DEF Requests
<1>3. snapshot' \in Snapshots /\ snapshot'.state = s
  BY <1>2 DEF TypeOK, Snapshots
<1>4. gui' \in Windows /\ gui'.open /\ gui'.page = Network
      /\ gui'.next = HasConnection(snapshot')
  BY <1>2, <1>3, RedrawnIs
<1> DEFINE op == [NoOperation EXCEPT !.kind = kind, !.at = "bus"]
<1>5. /\ op \in Operations /\ op.at = "bus" /\ op.attempt = 0
      /\ op.found.state \notin {"SCANNING", "CONNECTING"}
  BY BasicsTyped DEF NoOperation, Operations, Reset
<1> HIDE DEF op
<1>6. ops' = [ops EXCEPT ![entry] = op]
  BY <1>2 DEF op
<1>7. TypeOK'
  BY <1>1, <1>2, <1>3, <1>4, <1>5, <1>6, PagesAre DEF TypeOK, Windows
<1>8. /\ ops'[entry] = op
      /\ \A e \in Entries \ {entry} : ops'[e] = ops[e]
  BY <1>1, <1>6 DEF TypeOK
<1>9. EntriesInOrder' /\ PresentEntry'
  BY <1>4, <1>8 DEF EntriesInOrder, PresentEntry, InFlight, TypeOK, Entries
<1>10. OperationsKnown'
  <2> SUFFICES ASSUME NEW e \in Entries
               PROVE  /\ e \in backendBusy' <=> ops'[e].at # "none"
                      /\ ops'[e].attempt < Attempts
                      /\ ops'[e].found.state \notin {"SCANNING", "CONNECTING"}
    BY DEF OperationsKnown, InFlight
  <2>1. CASE e = entry
    <3>1. ops'[e] = op /\ e \in backendBusy'
      BY <1>2, <1>8, <2>1
    <3>2. 0 < Attempts
      BY BasicsTyped
    <3> QED BY <1>5, <3>1, <3>2
  <2>2. CASE e # entry
    BY <1>2, <1>8, <2>2 DEF OperationsKnown, InFlight
  <2> QED BY <2>1, <2>2
<1>11. NextAsDrawn' /\ PastNetwork'
  BY <1>4 DEF NextAsDrawn, PastNetwork, Network
<1>12. BusyIsOperation'
  BY <1>1, <1>2, <1>3, <1>5, <1>8 DEF BusyIsOperation, InFlight
<1> QED BY <1>7, <1>9, <1>10, <1>11, <1>12

\* Another page is shown: the network page looks, the later ones are only
\* reached over a connection.
LEMMA SetPageInv ==
  ASSUME NetworkInv, gui.open, NEW page \in 1..6, SetPage(page),
         UNCHANGED <<entry, destroyed>>,
         page > Network => ~busy /\ HasConnection(snapshot)
  PROVE  NetworkInv'
<1> DEFINE g == [gui EXCEPT !.page = page]
<1>1. gui \in Windows
  BY PagesAre DEF NetworkInv, TypeOK, Windows
<1>2. g \in Windows /\ g.open /\ g.page = page
  BY <1>1 DEF Windows
<1>3. CASE page = Network /\ ~busy
  <2>1. Requests(g, entry, "refresh", "SCANNING")
    BY <1>3 DEF SetPage
  <2> HIDE DEF g
  <2> QED BY <1>2, <1>3, <2>1, RequestsInv
<1>4. CASE ~(page = Network /\ ~busy)
  <2>1. PICK n \in CanNext(g, snapshot) : gui' = [g EXCEPT !.next = n]
    BY <1>4 DEF SetPage
  <2>2. UNCHANGED <<snapshot, busy, backendBusy, ops>>
    BY <1>4 DEF SetPage
  <2>3. n \in BOOLEAN /\ (page = Network => n = HasConnection(snapshot))
    <3> HIDE DEF g
    <3> QED BY <1>2, CanNextIs
  <2> HIDE DEF g
  <2>4. /\ gui' \in Windows /\ gui'.open /\ gui'.page = page
        /\ page = Network => gui'.next = HasConnection(snapshot)
    BY <1>2, <2>1, <2>3 DEF Windows
  <2>5. TypeOK'
    BY <2>2, <2>4, PagesAre DEF NetworkInv, TypeOK, Windows
  <2> QED BY <2>2, <2>4, <2>5
          DEF NetworkInv, EntriesInOrder, PresentEntry, OperationsKnown,
              NextAsDrawn, PastNetwork, BusyIsOperation, InFlight, HasConnection
<1> QED BY <1>3, <1>4

-----------------------------------------------------------------------------
\* The window goes: its entry is destroyed, and what it waited for is nobody's.
LEMMA LeaveInv ==
  ASSUME NetworkInv, gui.open, Leave
  PROVE  NetworkInv'
<1> USE DEF NetworkInv
<1>1. gui \in Windows
  BY PagesAre DEF TypeOK, Windows
<1>2. gui' \in Windows /\ ~gui'.open
  BY <1>1 DEF Leave, Closed, Windows
<1>3. TypeOK'
  BY <1>2, BasicsTyped, PagesAre DEF Leave, TypeOK, Windows
<1>4. EntriesInOrder'
  BY DEF Leave, EntriesInOrder, InFlight, TypeOK, Entries
<1> QED BY <1>2, <1>3, <1>4
        DEF Leave, PresentEntry, OperationsKnown, NextAsDrawn, PastNetwork,
            BusyIsOperation, InFlight

\* The window opens: this entry, or one after it, which nothing has touched.
LEMMA EnterInv ==
  ASSUME NetworkInv, Enter
  PROVE  NetworkInv'
<1> USE DEF NetworkInv
<1>1. /\ ~gui.open /\ entry' \in Entries /\ entry \in Entries
      /\ entry' = (IF entry \in destroyed THEN entry + 1 ELSE entry)
      /\ destroyed' = destroyed
  BY DEF Enter, TypeOK
<1>2. entry' \notin destroyed /\ ~InFlight(entry')
  BY <1>1 DEF EntriesInOrder, PresentEntry, Entries
<1>3. \A e \in Entries :
        /\ e < entry' => e \in destroyed
        /\ e > entry' => e \notin destroyed /\ ~InFlight(e)
  BY <1>1 DEF EntriesInOrder, Entries
<1>4. CASE /\ busy' = FALSE /\ snapshot' = Reset /\ gui' = Opened(FALSE)
           /\ UNCHANGED <<backendBusy, ops>>
  <2>1. gui' \in Windows /\ gui'.open /\ gui'.page = Disk
    BY <1>4, BasicsTyped DEF Opened
  <2>2. TypeOK'
    BY <1>1, <1>4, <2>1, BasicsTyped, PagesAre DEF TypeOK, Windows
  <2>3. BusyIsOperation'
    BY <1>1, <1>2, <1>4 DEF BusyIsOperation, OperationsKnown, InFlight, Reset
  <2>4. EntriesInOrder' /\ OperationsKnown'
    BY <1>1, <1>3, <1>4 DEF EntriesInOrder, OperationsKnown, InFlight
  <2>5. PresentEntry' /\ NextAsDrawn' /\ PastNetwork'
    BY <1>1, <1>2, <2>1 DEF PresentEntry, NextAsDrawn, PastNetwork, Disk, Network
  <2> QED BY <2>2, <2>3, <2>4, <2>5
<1>5. CASE /\ busy' = TRUE /\ snapshot' = [Reset EXCEPT !.state = "SCANNING"]
           /\ gui' \in Redrawn(Opened(TRUE), snapshot')
           /\ backendBusy' = backendBusy \cup {entry'}
           /\ ops' = [ops EXCEPT ![entry'] = [NoOperation EXCEPT !.at = "bus"]]
  <2>1. snapshot' \in Snapshots /\ snapshot'.state = "SCANNING"
    BY <1>5, BasicsTyped DEF Snapshots
  <2>2. Opened(TRUE).open /\ Opened(TRUE).page = Network
    BY DEF Opened
  <2>3. gui' \in Windows /\ gui'.open /\ gui'.page = Network
        /\ gui'.next = HasConnection(snapshot')
    BY <1>5, <2>1, <2>2, BasicsTyped, RedrawnIs
  <2> DEFINE op == [NoOperation EXCEPT !.at = "bus"]
  <2>4. /\ op \in Operations /\ op.at = "bus" /\ op.attempt = 0
        /\ op.found.state \notin {"SCANNING", "CONNECTING"}
    BY BasicsTyped DEF NoOperation, Operations, Reset
  <2> HIDE DEF op
  <2>5. ops' = [ops EXCEPT ![entry'] = op]
    BY <1>5 DEF op
  <2>6. /\ ops'[entry'] = op
        /\ \A e \in Entries \ {entry'} : ops'[e] = ops[e]
    BY <1>1, <2>5 DEF TypeOK
  <2>7. TypeOK'
    BY <1>1, <1>5, <2>1, <2>3, <2>4, <2>5, PagesAre DEF TypeOK, Windows
  <2>8. EntriesInOrder'
    BY <1>1, <1>3, <2>6 DEF EntriesInOrder, InFlight, Entries
  <2>9. OperationsKnown'
    <3> SUFFICES ASSUME NEW e \in Entries
                 PROVE  /\ e \in backendBusy' <=> ops'[e].at # "none"
                        /\ ops'[e].attempt < Attempts
                        /\ ops'[e].found.state \notin {"SCANNING", "CONNECTING"}
      BY DEF OperationsKnown, InFlight
    <3>1. CASE e = entry'
      <4>1. ops'[e] = op /\ e \in backendBusy'
        BY <1>5, <2>6, <3>1
      <4>2. 0 < Attempts
        BY BasicsTyped
      <4> QED BY <2>4, <4>1, <4>2
    <3>2. CASE e # entry'
      BY <1>5, <2>6, <3>2 DEF OperationsKnown, InFlight
    <3> QED BY <3>1, <3>2
  <2>10. PresentEntry' /\ NextAsDrawn' /\ PastNetwork'
    BY <1>1, <1>2, <2>3 DEF PresentEntry, NextAsDrawn, PastNetwork, Network
  <2>11. BusyIsOperation'
    BY <1>5, <2>1, <2>4, <2>6 DEF BusyIsOperation, InFlight
  <2> QED BY <2>7, <2>8, <2>9, <2>10, <2>11
<1> QED BY <1>4, <1>5 DEF Enter

\* What the user does in the window.
LEMMA UserInv ==
  ASSUME NetworkInv,
         \/ SelectDisk \/ GoNext \/ Back \/ SelectWifi
         \/ RefreshClicked \/ ConnectClicked
  PROVE  NetworkInv'
<1> USE DEF NetworkInv
<1>1. gui \in Windows
  BY PagesAre DEF TypeOK, Windows
<1>2. ASSUME gui' \in Windows, gui'.open, gui'.page = gui.page, gui.open,
             gui.page = Network => gui'.next = gui.next,
             UNCHANGED <<snapshot, busy, entry, destroyed, backendBusy, ops>>
      PROVE  NetworkInv'
  <2>1. TypeOK'
    BY <1>2, PagesAre DEF TypeOK, Windows
  <2> QED BY <1>2, <2>1 DEF EntriesInOrder, PresentEntry, OperationsKnown,
                  NextAsDrawn, PastNetwork, BusyIsOperation, InFlight
<1>3. CASE SelectDisk
  <2>1. gui' = [gui EXCEPT !.disk = TRUE, !.next = TRUE] /\ gui.page # Network
    BY <1>3 DEF SelectDisk, Disk, Network
  <2>2. gui' \in Windows /\ gui'.open = gui.open /\ gui'.page = gui.page
    BY <1>1, <2>1 DEF Windows
  <2> QED BY <1>2, <1>3, <2>1, <2>2 DEF SelectDisk
<1>4. CASE GoNext
  <2>1. gui.page + 1 \in 1..6 /\ gui.open /\ SetPage(gui.page + 1)
    BY <1>1, <1>4 DEF GoNext, Windows, Summary
  <2>2. gui.page + 1 > Network => ~busy /\ HasConnection(snapshot)
    BY <1>1, <1>4 DEF GoNext, NextAsDrawn, PastNetwork, BusyIsOperation,
                      HasConnection, Windows, Network
  <2> QED BY <1>4, <2>1, <2>2, SetPageInv DEF GoNext
<1>5. CASE Back
  <2>1. CASE Leave
    BY <1>5, <2>1, LeaveInv DEF Back
  <2>2. CASE /\ gui.page # Disk /\ SetPage(gui.page - 1)
             /\ UNCHANGED <<entry, destroyed>>
    <3>1. gui.page - 1 \in 1..6 /\ gui.open
      BY <1>1, <1>5, <2>2 DEF Back, Windows, Disk
    <3>2. gui.page - 1 > Network => ~busy /\ HasConnection(snapshot)
      BY <1>1, <3>1 DEF PastNetwork, Windows, Network
    <3> QED BY <2>2, <3>1, <3>2, SetPageInv
  <2> QED BY <1>5, <2>1, <2>2 DEF Back
<1>6. CASE SelectWifi
  <2>1. PICK w \in snapshot.listed \ Enterprise : gui' = [gui EXCEPT !.selected = w]
    BY <1>6 DEF SelectWifi
  <2>2. w \in Networks
    BY <2>1 DEF TypeOK, Snapshots
  <2> QED BY <1>1, <1>2, <1>6, <2>1, <2>2 DEF SelectWifi, Sensitive, Windows
<1>7. CASE RefreshClicked
  BY <1>1, <1>7, RequestsInv DEF RefreshClicked, Sensitive
<1>8. CASE ConnectClicked
  <2>1. CASE Requests(gui, entry, "connect", "CONNECTING")
    BY <1>1, <1>8, <2>1, RequestsInv DEF ConnectClicked, Sensitive
  <2>2. CASE UNCHANGED <<gui, snapshot, busy, backendBusy, ops>>
    BY <1>1, <1>2, <1>8, <2>2 DEF ConnectClicked, Sensitive
  <2> QED BY <1>8, <2>1, <2>2 DEF ConnectClicked
<1> QED BY <1>3, <1>4, <1>5, <1>6, <1>7, <1>8

-----------------------------------------------------------------------------
\* A step of an operation's thread changes nothing but the operation.
LEMMA MovesInv ==
  ASSUME NetworkInv, NEW e \in Entries, InFlight(e), NEW op \in Operations,
         op.at # "none", op.attempt < Attempts,
         op.found.state \notin {"SCANNING", "CONNECTING"}, Moves(e, op)
  PROVE  NetworkInv'
<1> USE DEF NetworkInv
<1>1. /\ UNCHANGED <<gui, snapshot, busy, entry, destroyed, backendBusy>>
      /\ ops' = [ops EXCEPT ![e] = op]
  BY DEF Moves
<1>2. /\ ops'[e] = op
      /\ \A x \in Entries \ {e} : ops'[x] = ops[x]
  BY <1>1 DEF TypeOK
<1>3. TypeOK'
  BY <1>1 DEF TypeOK
<1>4. \A x \in Entries : InFlight(x)' <=> InFlight(x)
  BY <1>2 DEF InFlight
<1>5. OperationsKnown'
  <2> SUFFICES ASSUME NEW x \in Entries
               PROVE  /\ x \in backendBusy' <=> InFlight(x)'
                      /\ ops'[x].attempt < Attempts
                      /\ ops'[x].found.state \notin {"SCANNING", "CONNECTING"}
    BY DEF OperationsKnown
  <2>1. x \in backendBusy' <=> InFlight(x)'
    BY <1>1, <1>4 DEF OperationsKnown
  <2>2. ops'[x] = op \/ ops'[x] = ops[x]
    BY <1>2
  <2> QED BY <2>1, <2>2 DEF OperationsKnown
<1>6. EntriesInOrder' /\ PresentEntry'
  BY <1>1, <1>4 DEF EntriesInOrder, PresentEntry, TypeOK
<1>7. NextAsDrawn' /\ PastNetwork'
  BY <1>1 DEF NextAsDrawn, PastNetwork, HasConnection
<1>8. BusyIsOperation'
  BY <1>1, <1>4 DEF BusyIsOperation, TypeOK
<1> QED BY <1>3, <1>5, <1>6, <1>7, <1>8

\* The end of an operation, with what it has found.
LEMMA EndsInv ==
  ASSUME NetworkInv, NEW e \in Entries, InFlight(e), NEW s \in Snapshots,
         s.state \notin {"SCANNING", "CONNECTING"}, Ends(e, s)
  PROVE  NetworkInv'
<1> DEFINE found == IF e \in destroyed THEN Reset ELSE s
           was == ops[e]
           op == [was EXCEPT !.at = "finished", !.attempt = 0, !.found = found]
<1>1. found \in Snapshots /\ found.state \notin {"SCANNING", "CONNECTING"}
  BY BasicsTyped DEF Reset
<1>2. was \in Operations
  BY DEF NetworkInv, TypeOK
<1>3. Moves(e, op)
  BY DEF Ends
<1> HIDE DEF found, was
<1>4. op.at = "finished" /\ op.attempt = 0 /\ op.found = found
  BY <1>2 DEF Operations
<1>5. op \in Operations
  <2> DEFINE ended == [was EXCEPT !.at = "finished", !.attempt = 0]
  <2>1. ended \in Operations
    <3>1. 0 \in 0..Attempts
      BY BasicsTyped
    <3> QED BY <1>2, <3>1 DEF Operations
  <2>2. op = [ended EXCEPT !.found = found]
    BY <1>2 DEF Operations
  <2> HIDE DEF ended, op
  <2> QED BY <1>1, <2>1, <2>2 DEF Operations
<1> HIDE DEF op
<1>6. op.at # "none" /\ op.attempt < Attempts
      /\ op.found.state \notin {"SCANNING", "CONNECTING"}
  BY <1>1, <1>4, BasicsTyped
<1> QED BY <1>3, <1>5, <1>6, MovesInv

\* Each step of an operation's thread.
LEMMA ThreadInv ==
  ASSUME NetworkInv, NEW e \in Entries, Thread(e)
  PROVE  NetworkInv'
<1>1. InFlight(e)
  BY DEF Thread, GetBus, ConnectWifi, CollectOnce, CollectAfterConnection, InFlight
<1>2. /\ ops[e] \in Operations /\ ops[e].attempt < Attempts
      /\ ops[e].found.state \notin {"SCANNING", "CONNECTING"}
  BY DEF NetworkInv, TypeOK, OperationsKnown
<1>3. CASE Fails(e)
  <2>1. PICK s \in {"UNAVAILABLE", "ERROR"} : Ends(e, [Reset EXCEPT !.state = s])
    BY <1>3 DEF Fails
  <2>2. /\ [Reset EXCEPT !.state = s] \in Snapshots
        /\ [Reset EXCEPT !.state = s].state \notin {"SCANNING", "CONNECTING"}
    BY <2>1, BasicsTyped DEF Snapshots, Reset
  <2> QED BY <1>1, <2>1, <2>2, EndsInv
<1>4. CASE \E s \in Collected : Ends(e, s)
  BY <1>1, <1>4, EndsInv DEF Collected
<1>5. ASSUME NEW at \in {"connect", "collect"}, Moves(e, [ops[e] EXCEPT !.at = at])
      PROVE  NetworkInv'
  <2> DEFINE op == [ops[e] EXCEPT !.at = at]
  <2>1. /\ op \in Operations /\ op.at # "none" /\ op.attempt < Attempts
        /\ op.found.state \notin {"SCANNING", "CONNECTING"}
    BY <1>2 DEF Operations
  <2>2. Moves(e, op)
    BY <1>5
  <2> HIDE DEF op
  <2> QED BY <1>1, <2>1, <2>2, MovesInv
<1>6. ASSUME ops[e].at = "collect", ops[e].attempt + 1 # Attempts,
             Moves(e, [ops[e] EXCEPT !.attempt = @ + 1])
      PROVE  NetworkInv'
  <2> DEFINE n == ops[e].attempt + 1
             op == [ops[e] EXCEPT !.attempt = n]
  <2>1. n \in 0..Attempts /\ n < Attempts
    BY <1>2, <1>6, BasicsTyped DEF Operations
  <2>2. Moves(e, op)
    BY <1>6
  <2> HIDE DEF n
  <2>3. /\ op \in Operations /\ op.at = "collect" /\ op.attempt = n
        /\ op.found.state \notin {"SCANNING", "CONNECTING"}
    BY <1>2, <1>6, <2>1 DEF Operations
  <2> HIDE DEF op
  <2> QED BY <1>1, <2>1, <2>2, <2>3, MovesInv
<1>7. CASE GetBus(e)
  BY <1>3, <1>5, <1>7 DEF GetBus
<1>8. CASE ConnectWifi(e)
  BY <1>3, <1>5, <1>8 DEF ConnectWifi
<1>9. CASE CollectOnce(e)
  BY <1>3, <1>4, <1>9 DEF CollectOnce
<1>10. CASE CollectAfterConnection(e)
  BY <1>3, <1>4, <1>6, <1>10 DEF CollectAfterConnection
<1> QED BY <1>7, <1>8, <1>9, <1>10 DEF Thread

\* The completion in the main loop: of a destroyed entry it only ends the
\* operation; of the present one it brings the snapshot the page waited for.
LEMMA OperationFinishedInv ==
  ASSUME NetworkInv, NEW e \in Entries, OperationFinished(e)
  PROVE  NetworkInv'
<1> USE DEF NetworkInv
<1>1. /\ gui.open /\ InFlight(e) /\ backendBusy' = backendBusy \ {e}
      /\ ops' = [ops EXCEPT ![e] = NoOperation]
      /\ UNCHANGED <<entry, destroyed>>
  BY DEF OperationFinished, InFlight
<1>2. /\ ops'[e] = NoOperation /\ ~InFlight(e)'
      /\ \A x \in Entries \ {e} : ops'[x] = ops[x] /\ (InFlight(x)' <=> InFlight(x))
  BY <1>1 DEF TypeOK, InFlight, NoOperation
<1>3. ops' \in [Entries -> Operations] /\ backendBusy' \subseteq Entries
  BY <1>1, BasicsTyped DEF TypeOK
<1>4. OperationsKnown'
  <2> SUFFICES ASSUME NEW x \in Entries
               PROVE  /\ x \in backendBusy' <=> InFlight(x)'
                      /\ ops'[x].attempt < Attempts
                      /\ ops'[x].found.state \notin {"SCANNING", "CONNECTING"}
    BY DEF OperationsKnown
  <2>1. CASE x = e
    <3>1. NoOperation.attempt < Attempts
          /\ NoOperation.found.state \notin {"SCANNING", "CONNECTING"}
      BY BasicsTyped DEF NoOperation, Reset
    <3> QED BY <1>1, <1>2, <2>1, <3>1
  <2>2. CASE x # e
    BY <1>1, <1>2, <2>2 DEF OperationsKnown
  <2> QED BY <2>1, <2>2
<1>5. EntriesInOrder'
  BY <1>1, <1>2 DEF EntriesInOrder, TypeOK
<1>6. CASE e \in destroyed
  <2>1. UNCHANGED <<gui, snapshot, busy>>
    BY <1>6 DEF OperationFinished
  <2>2. e # entry
    BY <1>1, <1>6 DEF PresentEntry
  <2>3. TypeOK'
    BY <1>1, <1>3, <2>1 DEF TypeOK
  <2>4. PresentEntry' /\ NextAsDrawn' /\ PastNetwork'
    BY <1>1, <2>1 DEF PresentEntry, NextAsDrawn, PastNetwork, HasConnection
  <2>5. BusyIsOperation'
    BY <1>1, <1>2, <2>1, <2>2 DEF BusyIsOperation, TypeOK
  <2> QED BY <1>4, <1>5, <2>3, <2>4, <2>5
<1>7. CASE e \notin destroyed
  <2>1. busy' = FALSE /\ snapshot' = ops[e].found /\ gui' \in Redrawn(gui, snapshot')
    BY <1>7 DEF OperationFinished
  <2>2. e = entry
    BY <1>1, <1>7 DEF EntriesInOrder, TypeOK, Entries
  <2>3. busy /\ gui.page \in 1..6 /\ ~(gui.page > Network)
    BY <1>1, <2>2, PagesAre DEF BusyIsOperation, PastNetwork, TypeOK
  <2>4. gui \in Windows /\ snapshot' \in Snapshots
    BY <2>1, PagesAre DEF TypeOK, Windows, Operations
  <2>5. /\ gui' \in Windows /\ gui'.open /\ gui'.page = gui.page
        /\ gui.page = Network => gui'.next = HasConnection(snapshot')
    BY <1>1, <2>1, <2>4, RedrawnIs
  <2>6. TypeOK'
    BY <1>1, <1>3, <2>1, <2>4, <2>5, PagesAre DEF TypeOK, Windows
  <2>7. PresentEntry' /\ NextAsDrawn' /\ PastNetwork'
    BY <1>1, <2>3, <2>5 DEF PresentEntry, NextAsDrawn, PastNetwork, HasConnection
  <2>8. snapshot'.state \notin {"SCANNING", "CONNECTING"}
    BY <2>1 DEF OperationsKnown
  <2>9. BusyIsOperation'
    BY <1>1, <1>2, <2>1, <2>2, <2>8 DEF BusyIsOperation
  <2> QED BY <1>4, <1>5, <2>6, <2>7, <2>9
<1> QED BY <1>6, <1>7

\* NetworkInv is an invariant of the session.
THEOREM NetworkHolds == Spec => []NetworkInv
<1>1. Init => NetworkInv
  <2> SUFFICES ASSUME Init PROVE NetworkInv
    OBVIOUS
  <2>1. gui \in Windows /\ ~gui.open /\ 1 \in Entries
    <3> DEFINE opened == Opened(FALSE)
    <3>1. 1 \in Entries
      BY BasicsTyped DEF Entries
    <3>2. gui = [opened EXCEPT !.open = FALSE, !.selected = "none", !.next = FALSE]
      BY DEF Init, Closed
    <3>3. opened \in Windows
      BY BasicsTyped, Zenon
    <3> HIDE DEF opened
    <3> QED BY <3>1, <3>2, <3>3 DEF Windows
  <2>2. TypeOK
    BY <2>1, BasicsTyped, PagesAre DEF Init, TypeOK, Windows
  <2>3. \A e \in Entries : ops[e] = NoOperation
    BY DEF Init
  <2>4. /\ NoOperation.at = "none" /\ NoOperation.attempt < Attempts
        /\ NoOperation.found.state \notin {"SCANNING", "CONNECTING"}
    BY BasicsTyped DEF NoOperation, Reset
  <2>5. EntriesInOrder /\ PresentEntry
    <3>1. \A e \in Entries : ~InFlight(e)
      BY <2>3, <2>4 DEF InFlight
    <3>2. entry = 1 /\ destroyed = {} /\ \A e \in Entries : ~(e < entry)
      BY BasicsTyped DEF Init, Entries
    <3> QED BY <2>1, <3>1, <3>2 DEF EntriesInOrder, PresentEntry
  <2>6. OperationsKnown
    BY <2>3, <2>4 DEF Init, OperationsKnown, InFlight
  <2> QED BY <2>1, <2>2, <2>5, <2>6
          DEF NetworkInv, NextAsDrawn, PastNetwork, BusyIsOperation
<1>2. NetworkInv /\ [Next]_vars => NetworkInv'
  <2> SUFFICES ASSUME NetworkInv, [Next]_vars PROVE NetworkInv'
    OBVIOUS
  <2>1. CASE UNCHANGED vars
    BY <2>1 DEF vars, NetworkInv, TypeOK, EntriesInOrder, PresentEntry,
                OperationsKnown, NextAsDrawn, PastNetwork, BusyIsOperation,
                InFlight, HasConnection
  <2>2. Close => gui.open /\ Leave
    BY DEF Close
  <2> QED BY <2>1, <2>2, EnterInv, LeaveInv, UserInv, ThreadInv,
             OperationFinishedInv DEF Next
<1> QED BY <1>1, <1>2, PTL DEF Spec

\* The pages after the network page are only reached, and stay, on a snapshot
\* with a connection that a look of this entry has brought.
THEOREM NetworkPastNetwork == Spec => []PastNetwork
<1>1. NetworkInv => PastNetwork
  BY DEF NetworkInv
<1> QED BY <1>1, NetworkHolds, PTL

\* The page waits exactly as long as its own backend works for it.
THEOREM NetworkBusyIsOperation == Spec => []BusyIsOperation
<1>1. NetworkInv => BusyIsOperation
  BY DEF NetworkInv
<1> QED BY <1>1, NetworkHolds, PTL
=============================================================================
