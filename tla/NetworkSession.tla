---------------------------- MODULE NetworkSession ----------------------------
(***************************************************************************)
(* The network page of the graphical part and the pages it leads to        *)
(* (src/src/gui/gtk_frontend.c), the network controller                    *)
(* (src/src/network/network.c) and its NetworkManager backend, whose       *)
(* operations each run in a thread of their own and complete in the main   *)
(* loop (network_manager_gdbus.c).  The window may be closed and opened    *)
(* again while an operation runs: each entry has a backend of its own.     *)
(* The controller's snapshot and the session's are one variable: whenever  *)
(* the first changes the observer copies it to the second.                 *)
(***************************************************************************)
EXTENDS Naturals, FiniteSets

CONSTANTS
  Networks,     \* SSIDs a scan may list
  Secured, Enterprise,
  Attempts,     \* how often a new connection is looked at
  MaxEntries    \* bound on the entries of the graphical part

ASSUME NetworkAssumption ==
  /\ Secured \subseteq Networks /\ Enterprise \subseteq Secured
  /\ "none" \notin Networks
  /\ {Attempts, MaxEntries} \subseteq Nat \ {0}

VARIABLES
  gui,         \* the window: entry mode, page, widgets as last drawn
  snapshot,    \* struct classicsetup_network_snapshot
  busy,        \* controller.busy
  entry,       \* number of the present or last entry
  destroyed,   \* entries whose backend is destroyed, its cancellable cancelled
  backendBusy, \* entries whose backend is busy
  ops          \* the operation of each entry's backend

vars == <<gui, snapshot, busy, entry, destroyed, backendBusy, ops>>

Entries == 1..MaxEntries

Pages == <<"DISK", "NETWORK", "WINDOWS_VERSION", "DOWNLOAD", "OPTIONS", "SUMMARY">>

Disk == 1
Network == 2
Summary == 6

\* A snapshot: CONNECTED is the state with verified Internet access, which
\* needs a link of either kind or one this program does not look at.
Snapshots ==
  [state : {"UNAVAILABLE", "DISCONNECTED", "SCANNING", "CONNECTING", "CONNECTED",
            "ERROR"},
   ethernet : BOOLEAN, wifi : BOOLEAN, listed : SUBSET Networks]

Reset == [state |-> "UNAVAILABLE", ethernet |-> FALSE, wifi |-> FALSE, listed |-> {}]

NoOperation == [kind |-> "refresh", at |-> "none", attempt |-> 0, found |-> Reset]

Operations ==
  [kind : {"refresh", "connect"}, at : {"none", "bus", "connect", "collect", "finished"},
   attempt : 0..Attempts, found : Snapshots]

TypeOK ==
  /\ gui \in [open : BOOLEAN, advanced : BOOLEAN, page : DOMAIN Pages,
              disk : BOOLEAN, next : BOOLEAN, selected : Networks \cup {"none"}]
  /\ snapshot \in Snapshots
  /\ busy \in BOOLEAN
  /\ entry \in Entries
  /\ destroyed \subseteq Entries /\ backendBusy \subseteq Entries
  /\ ops \in [Entries -> Operations]

HasConnection(s) == s.state = "CONNECTED" /\ (s.ethernet \/ s.wifi)
-----------------------------------------------------------------------------
\* update_navigation: what the Next button is drawn as; whether the later
\* pages are complete is not this module's affair.
CanNext(g, s) ==
  IF g.page = Disk THEN {g.disk}
  ELSE IF g.page = Network THEN {HasConnection(s)}
  ELSE BOOLEAN

\* Mutant: a snapshot redraws its own page only.
RedrawnPageOnly(g, s) == {[g EXCEPT !.selected = "none"]}

\* network_snapshot_changed, for an observer that is drawn on.
Redrawn(g, s) == {[g EXCEPT !.selected = "none", !.next = n] : n \in CanNext(g, s)}

\* start_operation refuses a backend that is destroyed or busy.
Refused(e) == e \in destroyed \/ e \in backendBusy

\* classicsetup_network_controller_refresh and _connect_wifi, past their
\* checks, with the window as g.
Requests(g, e, kind, s) ==
  IF Refused(e)
  THEN /\ busy' = FALSE
       /\ snapshot' = [snapshot EXCEPT !.state = "ERROR"]
       /\ gui' \in Redrawn(g, snapshot')
       /\ UNCHANGED <<backendBusy, ops>>
  ELSE /\ busy' = TRUE
       /\ snapshot' = [snapshot EXCEPT !.state = s]
       /\ gui' \in Redrawn(g, snapshot')
       /\ backendBusy' = backendBusy \cup {e}
       /\ ops' = [ops EXCEPT ![e] = [NoOperation EXCEPT !.kind = kind, !.at = "bus"]]

\* set_page: the network page looks at the connections whenever it is shown.
SetPage(page) ==
  LET g == [gui EXCEPT !.page = page]
  IN  IF page = Network /\ ~busy THEN Requests(g, entry, "refresh", "SCANNING")
      ELSE /\ \E n \in CanNext(g, snapshot) : gui' = [g EXCEPT !.next = n]
           /\ UNCHANGED <<snapshot, busy, backendBusy, ops>>

Opened(advanced) ==
  [open |-> TRUE, advanced |-> advanced, page |-> IF advanced THEN Network ELSE Disk,
   disk |-> FALSE, next |-> FALSE, selected |-> "none"]

\* The window waits for its first activate, which builds the pages.
Closed(g) == [g EXCEPT !.open = FALSE, !.selected = "none", !.next = FALSE]

Init ==
  /\ gui = Closed(Opened(FALSE))
  /\ snapshot = Reset /\ busy = FALSE
  /\ entry = 1
  /\ destroyed = {} /\ backendBusy = {}
  /\ ops = [e \in Entries |-> NoOperation]

\* show_common_gui and classicsetup_gui_run up to the first page: a session,
\* a runtime, a controller and a backend of their own.
Enter ==
  /\ ~gui.open
  /\ entry' = IF entry \in destroyed THEN entry + 1 ELSE entry
  /\ entry' \in Entries
  /\ \E advanced \in BOOLEAN :
       IF advanced
       THEN /\ busy' = TRUE
            /\ snapshot' = [Reset EXCEPT !.state = "SCANNING"]
            /\ gui' \in Redrawn(Opened(TRUE), snapshot')
            /\ backendBusy' = backendBusy \cup {entry'}
            /\ ops' = [ops EXCEPT ![entry'] = [NoOperation EXCEPT !.at = "bus"]]
       ELSE /\ busy' = FALSE /\ snapshot' = Reset
            /\ gui' = Opened(FALSE)
            /\ UNCHANGED <<backendBusy, ops>>
  /\ UNCHANGED destroyed

\* The end of classicsetup_gui_run, when the window has gone for whatever
\* reason: classicsetup_network_controller_destroy.
Leave ==
  /\ busy' = FALSE /\ snapshot' = Reset
  /\ gui' = Closed(gui)
  /\ destroyed' = destroyed \cup {entry}
  /\ UNCHANGED <<entry, backendBusy, ops>>

Close == gui.open /\ Leave
-----------------------------------------------------------------------------
(***************************************************************************)
(* The user.                                                               *)
(***************************************************************************)
SelectDisk ==
  /\ gui.open /\ gui.page = Disk
  /\ gui' = [gui EXCEPT !.disk = TRUE, !.next = TRUE]
  /\ UNCHANGED <<snapshot, busy, entry, destroyed, backendBusy, ops>>

\* on_next_clicked: the button's sensitivity is the only check of the network.
GoNext ==
  /\ gui.open /\ gui.next /\ gui.page # Summary
  /\ gui.page = Disk => gui.disk
  /\ SetPage(gui.page + 1)
  /\ UNCHANGED <<entry, destroyed>>

\* on_back_clicked with classicsetup_gui_page_back_for_entry.
Back ==
  /\ gui.open
  /\ IF gui.page = Disk \/ (gui.advanced /\ gui.page = Network) THEN Leave
     ELSE SetPage(gui.page - 1) /\ UNCHANGED <<entry, destroyed>>

\* The widgets of the network page are sensitive while nothing is going on.
Sensitive == gui.open /\ gui.page = Network /\ snapshot.state \notin {"SCANNING", "CONNECTING"}

SelectWifi ==
  /\ Sensitive
  /\ \E w \in snapshot.listed \ Enterprise : gui' = [gui EXCEPT !.selected = w]
  /\ UNCHANGED <<snapshot, busy, entry, destroyed, backendBusy, ops>>

RefreshClicked ==
  /\ Sensitive /\ ~busy
  /\ Requests(gui, entry, "refresh", "SCANNING")
  /\ UNCHANGED <<entry, destroyed>>

\* A secured network is refused without a password.
ConnectClicked ==
  /\ Sensitive /\ ~busy
  /\ gui.selected \in snapshot.listed \ Enterprise
  /\ \E password \in BOOLEAN :
       IF gui.selected \in Secured /\ ~password
       THEN UNCHANGED <<gui, snapshot, busy, backendBusy, ops>>
       ELSE Requests(gui, entry, "connect", "CONNECTING")
  /\ UNCHANGED <<entry, destroyed>>
-----------------------------------------------------------------------------
(***************************************************************************)
(* The thread of an operation.                                             *)
(***************************************************************************)
Moves(e, op) ==
  /\ ops' = [ops EXCEPT ![e] = op]
  /\ UNCHANGED <<gui, snapshot, busy, entry, destroyed, backendBusy>>

\* g_task_return_pointer; a task whose cancellable is cancelled gives its
\* error instead.
Ends(e, s) ==
  Moves(e, [ops[e] EXCEPT !.at = "finished", !.attempt = 0,
                          !.found = IF e \in destroyed THEN Reset ELSE s])

\* g_task_return_error: the service is not there, or something else is wrong.
Fails(e) ==
  \E s \in {"UNAVAILABLE", "ERROR"} : Ends(e, [Reset EXCEPT !.state = s])

GetBus(e) ==
  /\ ops[e].at = "bus"
  /\ \/ Moves(e, [ops[e] EXCEPT !.at = IF ops[e].kind = "connect"
                                       THEN "connect" ELSE "collect"])
     \/ Fails(e)

\* AddAndActivateConnection2.
ConnectWifi(e) ==
  /\ ops[e].at = "connect"
  /\ Moves(e, [ops[e] EXCEPT !.at = "collect"]) \/ Fails(e)

\* collect_snapshot with set_connectivity: the access points, the links and
\* the answer to CheckConnectivity are read one after another, and a link
\* may come or go meanwhile.
Collected == {s \in Snapshots : s.state \in {"CONNECTED", "DISCONNECTED"}}

CollectOnce(e) ==
  /\ ops[e].at = "collect" /\ ops[e].kind = "refresh"
  /\ (\E s \in Collected : Ends(e, s)) \/ Fails(e)

\* Mutant: the attempts are counted, and the count is not looked at.
CollectUntilConnected(e) ==
  /\ ops[e].at = "collect" /\ ops[e].kind = "connect"
  /\ \/ \E s \in Collected : s.state = "CONNECTED" /\ Ends(e, s)
     \/ e \in destroyed /\ Fails(e)
     \/ e \notin destroyed /\ Moves(e, [ops[e] EXCEPT !.attempt = (@ + 1) % Attempts])

\* collect_after_connection: one turn of its loop.
CollectAfterConnection(e) ==
  LET last == ops[e].attempt + 1 = Attempts
      again == Moves(e, [ops[e] EXCEPT !.attempt = @ + 1])
  IN  /\ ops[e].at = "collect" /\ ops[e].kind = "connect"
      /\ \/ \E s \in Collected :
              IF s.state = "CONNECTED" THEN Ends(e, s)
              ELSE IF e \in destroyed THEN Fails(e)
              ELSE IF last THEN Ends(e, s) ELSE again
         \/ IF last \/ e \in destroyed THEN Fails(e) ELSE again

Thread(e) ==
  GetBus(e) \/ ConnectWifi(e) \/ CollectOnce(e) \/ CollectAfterConnection(e)

\* Mutant: the destroyed flag is not looked at, and the callback writes to
\* the controller that is now where the old one was.
FinishedUnchecked(e) ==
  /\ gui.open /\ ops[e].at = "finished"
  /\ backendBusy' = backendBusy \ {e}
  /\ ops' = [ops EXCEPT ![e] = NoOperation]
  /\ busy' = FALSE
  /\ snapshot' = ops[e].found
  /\ gui' \in Redrawn(gui, snapshot')
  /\ UNCHANGED <<entry, destroyed>>

\* operation_finished and backend_completed, run by a main loop: that of this
\* entry, or of the next one if the window has gone.
OperationFinished(e) ==
  /\ gui.open /\ ops[e].at = "finished"
  /\ backendBusy' = backendBusy \ {e}
  /\ ops' = [ops EXCEPT ![e] = NoOperation]
  /\ IF e \in destroyed THEN UNCHANGED <<gui, snapshot, busy>>
     ELSE /\ busy' = FALSE
          /\ snapshot' = ops[e].found
          /\ gui' \in Redrawn(gui, snapshot')
  /\ UNCHANGED <<entry, destroyed>>

Next ==
  \/ Enter \/ Close \/ SelectDisk \/ GoNext \/ Back
  \/ SelectWifi \/ RefreshClicked \/ ConnectClicked
  \/ \E e \in Entries : Thread(e) \/ OperationFinished(e)

\* A thread runs, each D-Bus call in it has a limit of time, and a main loop
\* dispatches what is queued.
Fairness ==
  \A e \in Entries : WF_vars(Thread(e)) /\ WF_vars(OperationFinished(e))

Spec == Init /\ [][Next]_vars /\ Fairness
-----------------------------------------------------------------------------
InFlight(e) == ops[e].at # "none"

\* The pages after the network page are only reached, and stay, on a snapshot
\* with a connection that a look of this entry has brought: the click on Next
\* does not check again, and a look that is under way when the page is left
\* backwards and shown again neither is missed nor lets the user pass
\* (gtk_frontend.c:3085, 3120-3125, 3158-3186).
PastNetwork ==
  gui.open /\ gui.page > Network => ~busy /\ HasConnection(snapshot)

\* The page waits exactly as long as its own backend works for it: a
\* completion that comes after its window has gone neither ends the wait of
\* the next entry nor leaves it waiting, and a start is never refused by a
\* backend that is still busy (network_manager_gdbus.c:629-634).
BusyIsOperation ==
  gui.open =>
    /\ busy <=> InFlight(entry)
    /\ busy <=> snapshot.state \in {"SCANNING", "CONNECTING"}
    /\ busy <=> entry \in backendBusy

\* What is asked of the network is answered unless the window goes, also when
\* the service fails, the password is wrong or the Internet stays out of reach
\* (network_manager_gdbus.c:531-562).
Answered == busy ~> ~busy
=============================================================================
