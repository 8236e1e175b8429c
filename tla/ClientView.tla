------------------------------ MODULE ClientView ------------------------------
(***************************************************************************)
(* The build master as an operator sees it: the controller with its client *)
(* interface, the proxy of the master in the GTK client and the master     *)
(* interface of the window, which shows the proxy's copy of the master's   *)
(* state and enables the buttons by it.                                    *)
(*                                                                         *)
(* The master sends what changed to its subscribers, the proxy subscribes  *)
(* and asks for everything at intervals, and both forget each other when   *)
(* nothing is heard.  Each message in here is one on the wire; messages    *)
(* take less than a second and keep their order, or they are lost.         *)
(*                                                                         *)
(* The parts of the state (the domains of BMInterface) are sent, copied    *)
(* and shown each by itself.  A behaviour follows one of them, any; of the *)
(* others only that messages are sent is seen.                             *)
(*                                                                         *)
(* A command is a step of the controller, and can come at any time: it was *)
(* sent by this client or another one, with whatever view.                 *)
(***************************************************************************)
EXTENDS BuildMaster, Sequences

CONSTANTS
  RefreshAfter,  \* seconds (10) after which the proxy asks for everything
  SearchAfter,   \* seconds (5) between the client's searches for masters
  Responds,      \* seconds (13) for which a proxy is responding
  Expires,       \* seconds (15) for which the master keeps a subscriber
  MaxFlight,     \* a bound: nobody runs ahead of so many messages that are under way
  MaxTrouble     \* a bound on lost messages and crashes

ASSUME ClientViewAssumption ==
  /\ {RefreshAfter, SearchAfter, Responds, Expires, MaxFlight, MaxTrouble} \subseteq Nat
  /\ 0 < SearchAfter /\ SearchAfter <= RefreshAfter
  /\ RefreshAfter + 1 < Responds /\ Responds <= Expires

VARIABLES
  alive,         \* whether the master's process runs
  incarnation,   \* its yamb address, another one after each restart
  subscription,  \* how long ago the client subscribed, or NotSubscribed
  up, down,      \* messages to and from the master
  selected,      \* whether the window shows the master
  address,       \* current_yamb_address, 0 before there is a proxy
  sinceRefresh, sinceResponse, \* of the proxy, in seconds
  sinceSearch,   \* build_masters_last_searched
  followed,      \* the domain that the behaviour follows
  copy,          \* that part of the state of the master, at the proxy
  green,         \* m_ledConnected
  calm,          \* seconds since the last trouble, up to Settled
  trouble

controller == vars
interface == <<alive, incarnation, subscription>>
network == <<up, down, trouble>>
client == <<followed, selected, address, sinceRefresh, sinceResponse, sinceSearch, copy, green>>
all == <<controller, interface, network, client, calm>>

NotSubscribed == Expires + 1
Settled == Responds + SearchAfter

-----------------------------------------------------------------------------
(* What the master tells: cmd_get_*.                                       *)

Domains == {"remaining", "queue", "building", "nodes", "state"}

\* get_state calls the state `building' when the building set is not empty.
StateShown(st, bld) ==
  [st |-> IF bld # {} THEN "building" ELSE st, error |-> error, valve |-> valve]

Known == {n \in Nodes : nodes[n] # NotKnown}

Truth ==
  [remaining |-> remaining, queue |-> queue, building |-> building,
   nodes |-> [idle |-> Available(nodes, proxy), busy |-> Known \ Available(nodes, proxy)],
   state |-> StateShown(state, building)]

Tells(d, v) ==
  [from |-> incarnation, domain |-> d, value |-> IF d = followed THEN v ELSE "not followed"]

\* _stop_build forgets the versions, but not the building set.
Leftover == building # {} /\ state # "idle"

\* get_building_set looks up versions that there may not be: before the new graph is
\* computed, which nobody knows from outside, it raises, and the rest is not sent.
MayRaise == Leftover
MustRaise == Leftover /\ task # "running"

-----------------------------------------------------------------------------
(* What a step of the controller sends, if the client subscribes.          *)

Subscribed == alive /\ subscription # NotSubscribed

All == <<"remaining", "queue", "building", "nodes", "state">>
BeforeBuilding == <<"remaining", "queue">>

Now(ds) == [i \in DOMAIN ds |-> Tells(ds[i], Truth[ds[i]])]
Then(ds) == [i \in DOMAIN ds |-> Tells(ds[i], Truth'[ds[i]])]

\* Mutant: the queue is not told.
ScheduleTellsLess == <<"state", "building", "nodes">>

\* _schedule, at its end.
ScheduleTells == <<"state", "queue", "building", "nodes">>

\* What _schedule tells at its start, when nothing is bound yet.
Bound == {nodes'[n] : n \in {m \in Nodes : nodes'[m] \in Packages /\ nodes'[m] # nodes[m]}}
ScheduleBegins ==
  <<Tells("state", [st |-> IF building' \ Bound # {} THEN "building" ELSE "computing",
                    error |-> error', valve |-> valve'])>>

Sends(messages) == down' = IF Subscribed THEN down \o messages ELSE down

\* DOMAIN_ALL
SendsAll ==
  Sends(IF Leftover' THEN Then(BeforeBuilding) ELSE Then(All))

SendsSchedule(before) == Sends(Then(before) \o ScheduleBegins \o Then(ScheduleTells))

\* _fail tells the state at once.
FailTells == IF error' /\ (~error \/ valve) THEN <<"state">> ELSE <<>>

\* start.  When the notification raises, the task is not created.
StartBuild ==
  /\ IF Subscribed /\ Leftover
       THEN /\ state = "off" /\ state' = "computing"
            /\ UNCHANGED <<task, error, valve, graph, progress, queue, building, nodes, proxy,
                           pending>>
       ELSE Start
  /\ SendsAll

\* Nobody else changes the package database here.
Computes == ComputeDone /\ pending' = pending /\ Sends(ScheduleBegins \o Then(All))
Dies == ComputeDies /\ UNCHANGED down
Stops == (Stop \/ ComputeInvalid) /\ SendsAll

Opens ==
  /\ Open
  /\ LET first == <<Tells("state", [Truth.state EXCEPT !.valve = TRUE])>> IN
     IF state = "idle" THEN Sends(first \o ScheduleBegins \o Then(ScheduleTells))
                       ELSE Sends(first)

Closes == Close /\ Sends(Then(<<"state">>))

Discovers(n) == NodeDiscovered(n) /\ SendsSchedule(FailTells)

\* _cluster_notification says nothing of nodes that are gone.
Loses(n) == NodeLost(n) /\ Sends(Then(FailTells))

Reported(n) == NodeReports(n) /\ SendsSchedule(FailTells \o <<"remaining">>)

ControllerSteps ==
  /\ alive /\ Len(down) <= MaxFlight
  /\ \/ StartBuild \/ Computes \/ Dies \/ Stops \/ Opens \/ Closes
     \/ \E n \in Nodes : Discovers(n) \/ Loses(n) \/ Reported(n)
  /\ UNCHANGED <<interface, client, up, trouble, calm>>

-----------------------------------------------------------------------------
(* ClientInterface                                                         *)

\* What is answered to a command, if get_building_set raises or not.
Answer(cmd, raises) ==
  CASE cmd = "identify" -> <<Tells("none", "none")>>
    [] cmd = "subscribe" -> <<>>
    [] cmd = "building" /\ raises -> <<>>
    [] OTHER -> Now(<<cmd>>)

\* protocol_handler.  A broadcast has no address.
MasterReceives ==
  /\ up # <<>> /\ up' = Tail(up)
  /\ LET m == Head(up)
         mine == alive /\ m.to \in {0, incarnation}
     IN
     /\ subscription' = IF mine /\ m.cmd = "subscribe" THEN 0 ELSE subscription
     /\ \E raises \in BOOLEAN :
          /\ MustRaise => raises
          /\ raises => MayRaise
          /\ down' = IF mine THEN down \o Answer(m.cmd, raises) ELSE down
  /\ UNCHANGED <<controller, alive, incarnation, client, calm, trouble>>

\* _1s_timer
Aged == IF subscription >= Expires THEN NotSubscribed ELSE subscription + 1

-----------------------------------------------------------------------------
(* BuildMasterProxy                                                        *)

To(a, cmds) == [i \in DOMAIN cmds |-> [to |-> a, cmd |-> cmds[i]]]

\* refresh
Refresh(a, sel) ==
  To(a, IF sel THEN <<"subscribe", "state", "remaining", "queue", "building", "nodes">>
               ELSE <<"identify">>)

IsResponding(since) == since < Responds

\* set_yamb_addr: "The master may have been restarted".
SetYambAddr(a, from) == a # from

\* The LED is updated unless this changed whether the master responds.
LedAfter(since) == IsResponding(since)

\* message_received takes over what the message says.
Copied(m) == IF m.domain = followed THEN m.value ELSE copy

\* And build_master_message_received, which creates the proxy.
ClientReceives ==
  /\ down # <<>> /\ down' = Tail(down)
  /\ LET m == Head(down) IN
     IF address = 0
     THEN /\ address' = m.from /\ up' = up \o Refresh(m.from, FALSE) /\ sinceRefresh' = 0
          /\ UNCHANGED <<sinceResponse, copy, green>>
     ELSE /\ IF SetYambAddr(address, m.from)
               THEN address' = m.from /\ up' = up \o Refresh(m.from, selected) /\ sinceRefresh' = 0
               ELSE UNCHANGED <<address, up, sinceRefresh>>
          /\ copy' = Copied(m)
          /\ sinceResponse' = 0
          /\ green' = (green \/ (selected /\ LedAfter(sinceResponse)))
  /\ UNCHANGED <<controller, interface, followed, selected, sinceSearch, calm, trouble>>

\* Mutant: is_responding is read after last_response has been counted up.
LedReadLate(old, new) == green

\* timeout_1s tells when the master stops responding.
LedAfterSecond(old, new) ==
  IF selected /\ IsResponding(old) # IsResponding(new) THEN FALSE ELSE green

\* A second passes: the timers of the master and of the client.
Tick ==
  /\ up = <<>> /\ down = <<>>
  /\ subscription' = IF alive THEN Aged ELSE subscription
  /\ LET searches == sinceSearch + 1 >= SearchAfter
         refreshes == address # 0 /\ sinceRefresh + 1 > RefreshAfter
     IN /\ sinceSearch' = IF searches THEN 0 ELSE sinceSearch + 1
        /\ up' = (IF searches THEN To(0, <<"identify">>) ELSE <<>>)
                   \o (IF refreshes THEN Refresh(address, selected) ELSE <<>>)
        /\ sinceRefresh' = IF refreshes \/ address = 0 THEN 0 ELSE sinceRefresh + 1
  /\ sinceResponse' = IF sinceResponse < Responds THEN sinceResponse + 1 ELSE sinceResponse
  /\ green' = LedAfterSecond(sinceResponse, sinceResponse')
  /\ calm' = IF trouble > 0 /\ calm < Settled THEN calm + 1 ELSE calm
  /\ UNCHANGED <<controller, alive, incarnation, followed, down, selected, address, copy,
                 trouble>>

-----------------------------------------------------------------------------
(* update_master_state                                                     *)

OffersValve(c) == c.st # "off" /\ ~c.error

\* The buttons that the window enables, where it follows the state.
Sensitive ==
  {b \in {"start", "stop", "open", "close"} :
     \/ b = "start" /\ copy.st = "off"
     \/ b = "stop" /\ copy.st \in {"idle", "computing"}
     \/ b = "open" /\ OffersValve(copy) /\ ~copy.valve
     \/ b = "close" /\ OffersValve(copy) /\ copy.valve}

-----------------------------------------------------------------------------
(* The operator at the window, and what goes wrong.                        *)

\* select_master
Select ==
  /\ Len(up \o down) <= MaxFlight
  /\ ~selected /\ address # 0 /\ selected' = TRUE
  /\ up' = up \o Refresh(address, TRUE) /\ sinceRefresh' = 0
  /\ green' = IsResponding(sinceResponse)
  /\ UNCHANGED <<controller, interface, followed, down, address, sinceResponse, sinceSearch,
                 copy, calm, trouble>>

Deselect ==
  /\ Len(up \o down) <= MaxFlight
  /\ selected /\ selected' = FALSE /\ green' = FALSE
  /\ UNCHANGED <<controller, interface, followed, network, address, sinceRefresh, sinceResponse,
                 sinceSearch, copy, calm>>

\* on_refresh_clicked
RefreshClicked ==
  /\ selected /\ Len(up \o down) <= MaxFlight
  /\ up' = up \o To(0, <<"identify">>) \o Refresh(address, TRUE)
  /\ sinceSearch' = 0 /\ sinceRefresh' = 0
  /\ UNCHANGED <<controller, interface, followed, down, selected, address, sinceResponse, copy,
                 green, calm, trouble>>

GoesWrong == trouble < MaxTrouble /\ trouble' = trouble + 1 /\ calm' = 0

\* A message is lost when it should arrive: before that, nobody can tell.
Lose ==
  /\ GoesWrong
  /\ \/ up # <<>> /\ up' = Tail(up) /\ UNCHANGED down
     \/ down # <<>> /\ down' = Tail(down) /\ UNCHANGED up
  /\ UNCHANGED <<controller, interface, client>>

Crash ==
  /\ alive /\ alive' = FALSE /\ GoesWrong
  /\ UNCHANGED <<controller, incarnation, subscription, up, down, client>>

\* The new process begins like the first one, but for what the package database says.
Restart ==
  /\ ~alive /\ alive' = TRUE /\ calm' = 0
  /\ incarnation' = incarnation + 1 /\ subscription' = NotSubscribed
  /\ state' = "off" /\ task' = "none" /\ error' = FALSE /\ valve' = FALSE
  /\ G' = NoGraph /\ comp' = NoComponents
  /\ remaining' = {} /\ queue' = Zero /\ building' = {} /\ finished' = {}
  /\ successful' = Zero /\ fails' = Zero
  /\ nodes' = [n \in Nodes |-> NotKnown] /\ proxy' = [n \in Nodes |-> Gone]
  /\ UNCHANGED <<pending, network, client>>

\* The master has its build nodes to itself, and outdating children does not raise here.
InitView ==
  /\ Foreign = {} /\ ~BindMayFail
  /\ Init /\ pending = Packages
  /\ followed \in Domains
  /\ alive = TRUE /\ incarnation = 1 /\ subscription = NotSubscribed
  /\ up = <<>> /\ down = <<>> /\ trouble = 0
  /\ selected = FALSE /\ address = 0 /\ copy = Truth[followed] /\ green = FALSE
  /\ sinceRefresh = 0 /\ sinceResponse = Responds /\ sinceSearch = 0 /\ calm = 0

NextView ==
  \/ ControllerSteps
  \/ MasterReceives \/ ClientReceives \/ Tick
  \/ Select \/ Deselect \/ RefreshClicked
  \/ Lose \/ Crash \/ Restart

SpecView == InitView /\ [][NextView]_all

-----------------------------------------------------------------------------
(* Properties.                                                             *)

AllArrived == selected /\ alive /\ up = <<>> /\ down = <<>>

\* Nothing was lost, or the proxy has asked for everything since.
Fresh == AllArrived /\ (trouble = 0 \/ calm > RefreshAfter)

\* A fresh view is the master's state, whatever the controller did, through expired
\* subscriptions and restarts: each handler tells all that it changed.  Nodes that have
\* gone may still be listed, and what a stopped build left behind may hide the rest.
UpToDate ==
  Fresh /\ ~Leftover =>
    IF followed = "nodes"
      THEN Truth.nodes.idle \subseteq copy.idle /\ Truth.nodes.busy \subseteq copy.busy
      ELSE copy = Truth[followed]

\* The LED is green soon after the master is heard again, and red when it was not heard
\* for long, although message_received gets the change of is_responding the wrong way
\* round: a second answer puts it right.
LedRight ==
  selected /\ up = <<>> /\ down = <<>> =>
    /\ alive /\ calm >= 2 * SearchAfter => green
    /\ ~alive /\ calm >= Responds => ~green

\* "Update the build master's state and set controls to sensitive as required": in a fresh
\* view of a master that is off a build can be started.
CanStart ==
  followed = "state" /\ Fresh /\ state = "off" => "start" \in Sensitive
=============================================================================
