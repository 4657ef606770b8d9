--------------------------- MODULE ProgressDrawer ---------------------------
(***************************************************************************)
(* The drawer that shows how a dataflow's run gets on                      *)
(* (RunProgressDrawer.vue).  Its parent opens it, closes it, shows another *)
(* dataflow in it or bids it reload; a timer polls while the run goes on.  *)
(* Requests overlap and are answered in any order.                         *)
(***************************************************************************)
EXTENDS Naturals, FiniteSets

CONSTANTS
  Flows,       \* the dataflows
  Slots,       \* bound: requests in flight at once
  MaxActs      \* bound: what the user does

ASSUME DrawerAssumption == MaxActs \in Nat

VARIABLES
  running,     \* on the server: the dataflows whose newest run goes on
  acts,        \* what the user has done
  mounted,     \* the page that holds the drawer is open
  visible,     \* the property of the same name
  flow,        \* dataflowId
  polling,     \* the switch of the drawer
  interval,    \* timer: the interval that polls is set
  request,     \* the requests in flight
  loading,     \* the button to refresh is busy
  progress     \* the dataflow whose progress is shown

drawerVars == <<running, acts, mounted, visible, flow, polling, interval, request, loading, progress>>

Nothing == "nothing"
Request == [pc : {"none", "sent", "served", "failed"}, of : Flows \cup {Nothing}, first : BOOLEAN,
            going : BOOLEAN]
NoRequest == [pc |-> "none", of |-> Nothing, first |-> FALSE, going |-> FALSE]

DrawerTypeOK ==
  /\ running \in SUBSET Flows /\ acts \in 0 .. MaxActs /\ mounted \in BOOLEAN
  /\ visible \in BOOLEAN /\ flow \in Flows \cup {Nothing} /\ polling \in BOOLEAN /\ interval \in BOOLEAN
  /\ request \in [Slots -> Request] /\ loading \in BOOLEAN /\ progress \in Flows \cup {Nothing}

DrawerInit ==
  /\ running = {} /\ acts = 0 /\ mounted = TRUE /\ visible = FALSE /\ flow = Nothing
  /\ polling = TRUE /\ interval = FALSE /\ request = [k \in Slots |-> NoRequest]
  /\ loading = FALSE /\ progress = Nothing

-----------------------------------------------------------------------------

Acts(bidden) == mounted /\ acts < MaxActs /\ acts' = acts + 1 /\ bidden

Free == {k \in Slots : request[k].pc = "none"}

\* loadProgress, as far as its request.
Load(f, first) ==
  /\ loading' = TRUE
  /\ \E k \in Free : request' = [request EXCEPT ![k] =
                       [NoRequest EXCEPT !.pc = "sent", !.of = f, !.first = first]]

RunStarts(f) ==
  /\ f \notin running /\ running' = running \cup {f}
  /\ UNCHANGED <<acts, mounted, visible, flow, polling, interval, request, loading, progress>>

RunEnds(f) ==
  /\ f \in running /\ running' = running \ {f}
  /\ UNCHANGED <<acts, mounted, visible, flow, polling, interval, request, loading, progress>>

\* The watch: the drawer is opened, another dataflow is shown, or a run was started or stopped
\* (tick).  A timer that is set goes on meanwhile.
Show(f) ==
  /\ Acts(TRUE) /\ visible' = TRUE /\ flow' = f /\ progress' = Nothing /\ Load(f, TRUE)
  /\ UNCHANGED <<running, mounted, polling, interval>>

\* The watch, with the drawer closed.
Close ==
  /\ Acts(visible) /\ visible' = FALSE /\ interval' = FALSE
  /\ UNCHANGED <<running, mounted, flow, polling, request, loading, progress>>

\* handlePollingChange
SwitchPolling ==
  /\ Acts(visible) /\ polling' = ~polling /\ interval' = ~polling
  /\ UNCHANGED <<running, mounted, visible, flow, request, loading, progress>>

\* onUnmounted
LeavePage ==
  /\ Acts(TRUE) /\ mounted' = FALSE /\ interval' = FALSE
  /\ UNCHANGED <<running, visible, flow, polling, request, loading, progress>>

\* The button to refresh, which is dead while it is busy: not with every request in flight, as
\* the first to be answered frees it.
Refresh ==
  /\ Acts(visible /\ ~loading) /\ Load(flow, FALSE)
  /\ UNCHANGED <<running, mounted, visible, flow, polling, interval, progress>>

\* The interval: it polls the dataflow of the moment.
IntervalFires ==
  /\ interval /\ Load(flow, FALSE)
  /\ UNCHANGED <<running, acts, mounted, visible, flow, polling, interval, progress>>

ServeProgress(k) ==
  /\ request[k].pc = "sent"
  /\ request' = [request EXCEPT ![k].pc = "served", ![k].going = request[k].of \in running]
  /\ UNCHANGED <<running, acts, mounted, visible, flow, polling, interval, loading, progress>>

FailProgress(k) ==
  /\ request[k].pc = "sent" /\ request' = [request EXCEPT ![k].pc = "failed"]
  /\ UNCHANGED <<running, acts, mounted, visible, flow, polling, interval, loading, progress>>

\* Faulty variant: only an error ends the polling.
StopsTimer_OnError(r) == r.pc = "failed"

\* The run is over, or the request has failed.
StopsTimer(r) == r.pc = "failed" \/ ~r.going

\* loadProgress goes on; after a first load the timer is started, whatever the answer.
Answered(k) ==
  /\ request[k].pc \in {"served", "failed"}
  /\ progress' = IF request[k].pc = "served" THEN request[k].of ELSE progress
  /\ interval' = ((interval /\ ~StopsTimer(request[k])) \/ (request[k].first /\ polling))
  /\ request' = [request EXCEPT ![k] = NoRequest] /\ loading' = FALSE
  /\ UNCHANGED <<running, acts, mounted, visible, flow, polling>>

DrawerNext ==
  \/ \E f \in Flows : RunStarts(f) \/ RunEnds(f) \/ Show(f)
  \/ Close \/ SwitchPolling \/ Refresh \/ LeavePage \/ IntervalFires
  \/ \E k \in Slots : ServeProgress(k) \/ FailProgress(k) \/ Answered(k)

\* The interval fires while it is set, and a request is served or fails, and is answered: the
\* HTTP client has a timeout.
DrawerFairness ==
  /\ WF_drawerVars(IntervalFires)
  /\ \A k \in Slots : WF_drawerVars(ServeProgress(k) \/ FailProgress(k) \/ Answered(k))

-----------------------------------------------------------------------------

\* Once the runs are over and the user leaves the drawer alone, it stops to ask: also when
\* answers of the time before arrive late, and when the load that starts the timer ends last.
PollingEnds == (<>[](running = {})) => <>[](~interval /\ Free = Slots)

(* What comments say and the code does not do: TLC refutes them.                   *)

\* The watch: a drawer that is closed does not poll (closed during the first load, it does,
\* for as long as the run goes on).
ClosedIsQuiet == (~visible \/ ~mounted) /\ Free = Slots => ~interval

\* The title and the content: what is shown is the progress of the dataflow that was chosen
\* (an older answer replaces a newer one).
ShownIsChosen == Free = Slots => progress \in {flow, Nothing}
=============================================================================
