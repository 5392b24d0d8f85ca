--------------------------- MODULE MessageRouting ---------------------------
(***************************************************************************)
(* Messages between the panels, the worker and the pages' frames: the bus, *)
(* the router, the trusted relay of operations, the frames' registration   *)
(* with the worker, and what travels on them: the interaction mode of a    *)
(* panel, what a page tells it, and the operations a page records.         *)
(*                                                                         *)
(* The browser delivers what one context is sent in the order of sending.  *)
(* A page's message to the panels reaches the worker too, whose router     *)
(* broadcasts it again.  A frame hears nothing before its script has said  *)
(* hello; then it hears until the next document.                           *)
(***************************************************************************)
EXTENDS SequencesExt

CONSTANTS
  Pages,       \* tabs, each with a panel of its own
  FramesOf(_), \* the frames of a tab; 0 is the top frame
  Loading,     \* tabs that load a document while we look
  PageModes,       \* interaction modes
  Editors,     \* property editors of the panel, no business of the page
  NoMode,      \* null: no mode, no status
  StepsOf(_)   \* bound: what the user and the page of a tab do, loads included

ASSUME RoutingAssumption ==
  /\ "unborn" \notin PageModes \cup {NoMode}
  /\ \A t \in Pages : IsFiniteSet(FramesOf(t)) /\ 0 \in FramesOf(t) /\ -1 \notin FramesOf(t)

VARIABLES
  view,      \* mode, frames of the session, route of the last mode, status, operations
  frame,     \* the mode of every frame, or "unborn" before its script runs
  tree,      \* the frames of the tab's session that the worker lists
  due,       \* what the document has yet to bring about: a frame's number, "complete"
  asked,     \* a frame discovery that the browser has yet to answer
  toWorker, toPanel,
  number,    \* how many operations a tab's page recorded, and the status told last
  late,      \* history: a discovery listed frames before their scripts ran
  steps

routingVars == <<view, frame, tree, due, asked, toWorker, toPanel, number, late, steps>>

\* Only an interaction mode is routed to the page.
Routed(m) == IF m \in PageModes THEN m ELSE NoMode

\* Where a mode goes: every frame the panel knows of, or the top frame.
routeableFrames(known) == IF known = {} THEN {0} ELSE known

ModeMessages(t, m, known) ==
  [i \in 1..Cardinality(routeableFrames(known)) |->
     [type |-> "mode", tab |-> t, frame |-> SetToSeq(routeableFrames(known))[i], mode |-> m]]

FreshPanel == [mode |-> NoMode, frames |-> {}, route |-> <<NoMode, {}>>, status |-> NoMode, recorded |-> <<>>]

RoutingInit ==
  /\ view = [t \in Pages |-> FreshPanel]
  /\ frame = [t \in Pages |-> [f \in FramesOf(t) |-> NoMode]]
  /\ tree = [t \in Pages |-> FramesOf(t)]
  /\ due \in {[t \in Pages |-> {}], [t \in Pages |-> IF t \in Loading THEN {-1} ELSE {}]} /\ asked = [t \in Pages |-> FALSE]
  /\ toWorker = <<>> /\ toPanel = [t \in Pages |-> <<>>]
  /\ number = [t \in Pages |-> [ops |-> 0, told |-> NoMode]]
  /\ late = FALSE /\ steps = [t \in Pages |-> 0]

Step(t) == steps[t] < StepsOf(t) /\ steps' = [steps EXCEPT ![t] = @ + 1]

------------------------------------------------------------------------------
(* The panel of a tab.                                                     *)

\* Mutant: a mode that is the same is not sent again when the frames change.
routeMode_ModeOnly(t, p, w) ==
  IF p.route[1] = Routed(p.mode) THEN <<p, w>>
  ELSE <<[p EXCEPT !.route = <<Routed(p.mode), p.frames>>], w \o ModeMessages(t, Routed(p.mode), p.frames)>>

\* The effect that routes the mode: once for a mode and a set of frames.
routeMode(t, p, w) ==
  IF p.route = <<Routed(p.mode), p.frames>> THEN <<p, w>>
  ELSE <<[p EXCEPT !.route = <<Routed(p.mode), p.frames>>], w \o ModeMessages(t, Routed(p.mode), p.frames)>>

\* The panel becomes p, and its effect runs.
Render(t, p) ==
  /\ view' = [view EXCEPT ![t] = routeMode(t, p, toWorker)[1]]
  /\ toWorker' = routeMode(t, p, toWorker)[2]

\* A button of the toolbar: the active mode's button ends it.
ChangeMode(t, m) ==
  /\ Step(t)
  /\ Render(t, [view[t] EXCEPT !.mode = IF @ = m THEN NoMode ELSE m])
  /\ UNCHANGED <<frame, tree, due, asked, toPanel, number, late>>

\* An operation that the worker vouches for is recorded by the panel of its tab, once.
subscribePanelOperations(t, m, list) ==
  IF m.type # "trusted" \/ m.tab # t \/ m.op \in ToSet(list) THEN list ELSE Append(list, m.op)

\* The panel hears a message; those of another tab are told apart only where they
\* name it.
PanelHears(t) ==
  /\ toPanel[t] # <<>>
  /\ toPanel' = [toPanel EXCEPT ![t] = Tail(@)]
  /\ LET m == Head(toPanel[t])
         p == view[t]
     IN  Render(t, [p EXCEPT
           !.mode = IF m.type = "cleared" THEN NoMode ELSE @,
           !.status = IF m.type = "status" THEN m.status ELSE @,
           !.frames = IF m.type = "session" THEN m.frames ELSE @,
           !.recorded = subscribePanelOperations(t, m, @)])
  /\ UNCHANGED <<frame, tree, due, asked, number, late, steps>>

------------------------------------------------------------------------------
(* The page of a tab.                                                      *)

\* runtime.sendMessage of a page: the worker hears it, and of what is meant for the
\* panels every panel.
SayToPanels(m) ==
  /\ toWorker' = Append(toWorker, m)
  /\ toPanel' = [t \in Pages |-> Append(toPanel[t], m)]

Born(t) == frame[t][0] # "unborn"

\* Escape with nothing selected.
onEscapeWhenIdle(t) ==
  /\ Step(t) /\ Born(t)
  /\ SayToPanels([type |-> "cleared"])
  /\ UNCHANGED <<view, frame, tree, due, asked, number, late>>

\* A move is refused, or the refusal is withdrawn.
TellStatus(t, s) ==
  /\ Step(t) /\ Born(t)
  /\ SayToPanels([type |-> "status", status |-> s])
  /\ number' = [u \in Pages |-> [number[u] EXCEPT !.told = s]]
  /\ UNCHANGED <<view, frame, tree, due, asked, late>>

\* An operation is recorded: a gesture tells the worker, the inspector "the panel"; no
\* panel takes it from the page.
RecordOperation(t) ==
  /\ Step(t) /\ Born(t)
  /\ number' = [number EXCEPT ![t].ops = @ + 1]
  /\ toWorker' = Append(toWorker, [type |-> "operation", tab |-> t, op |-> <<t, number'[t].ops>>])
  /\ UNCHANGED <<view, frame, tree, due, asked, toPanel, late>>

\* The tab loads another document.
Load(t) ==
  /\ t \in Loading
  /\ Step(t)
  /\ frame' = [frame EXCEPT ![t] = [f \in FramesOf(t) |-> "unborn"]]
  /\ due' = [due EXCEPT ![t] = FramesOf(t) \cup {-1}]
  /\ toWorker' = Append(toWorker, [type |-> "loading", tab |-> t])
  /\ UNCHANGED <<view, tree, asked, toPanel, number, late>>

\* The script of a frame starts and says hello.
sendFrameHello(t, f) ==
  /\ f \in due[t] \ {-1}
  /\ due' = [due EXCEPT ![t] = @ \ {f}]
  /\ frame' = [frame EXCEPT ![t][f] = NoMode]
  /\ toWorker' = Append(toWorker, [type |-> "hello", tab |-> t, frame |-> f])
  /\ UNCHANGED <<view, tree, asked, toPanel, number, late, steps>>

\* The document is complete: its scripts have started.
Completed(t) ==
  /\ due[t] = {-1}
  /\ due' = [due EXCEPT ![t] = {}]
  /\ toWorker' = Append(toWorker, [type |-> "complete", tab |-> t])
  /\ UNCHANGED <<view, frame, tree, asked, toPanel, number, late, steps>>

\* The browser answers a frame discovery.
DiscoveryAnswers(t) ==
  /\ asked[t]
  /\ asked' = [asked EXCEPT ![t] = FALSE]
  /\ toWorker' = Append(toWorker, [type |-> "frames", tab |-> t])
  /\ late' = (late \/ \E f \in FramesOf(t) : frame[t][f] = "unborn")
  /\ UNCHANGED <<view, frame, tree, due, toPanel, number, steps>>

------------------------------------------------------------------------------
(* The worker.                                                             *)

Broadcast(m) == toPanel' = [t \in Pages |-> Append(toPanel[t], m)]

\* The session of t lists the frames fs, and its panel hears of it (the others drop it).
updateFrameTree(t, fs) ==
  /\ tree' = [tree EXCEPT ![t] = fs]
  /\ toPanel' = [toPanel EXCEPT ![t] = Append(@, [type |-> "session", frames |-> fs])]
  /\ UNCHANGED <<frame, asked>>

\* A mode reaches a frame whose script runs.
onInteractionMode(m) ==
  IF frame[m.tab][m.frame] = "unborn" THEN frame ELSE [frame EXCEPT ![m.tab][m.frame] = m.mode]

\* A mode goes to the frame it names if the session lists it, and is dropped otherwise.
routeToContent(m) ==
  /\ frame' = IF m.frame \in tree[m.tab] THEN onInteractionMode(m) ELSE frame
  /\ UNCHANGED <<tree, toPanel, asked>>

\* A frame that the session does not list yet is added to it.
handleFrameHello(m) ==
  IF m.frame \in tree[m.tab] THEN UNCHANGED <<tree, toPanel, frame, asked>>
  ELSE updateFrameTree(m.tab, tree[m.tab] \cup {m.frame})

\* The worker vouches for an operation: its copy names the tab that the browser says
\* sent it.
Vouched(m) == [m EXCEPT !.type = "trusted"]

\* What the worker does with a message, or with an event of the browser.
WorkerHears ==
  /\ toWorker # <<>>
  /\ toWorker' = Tail(toWorker)
  /\ LET m == Head(toWorker)
     IN  \/ m.type = "mode" /\ routeToContent(m)
         \/ m.type \in {"cleared", "status"} /\ Broadcast(m) /\ UNCHANGED <<tree, frame, asked>>
         \/ m.type = "operation" /\ Broadcast(Vouched(m)) /\ UNCHANGED <<tree, frame, asked>>
         \/ m.type = "loading" /\ updateFrameTree(m.tab, {})
         \/ m.type = "hello" /\ handleFrameHello(m)
         \/ /\ m.type = "complete"
            /\ asked' = [asked EXCEPT ![m.tab] = TRUE]
            /\ UNCHANGED <<tree, toPanel, frame>>
         \/ m.type = "frames" /\ updateFrameTree(m.tab, FramesOf(m.tab))
  /\ UNCHANGED <<view, due, number, late, steps>>

RoutingNext ==
  \/ WorkerHears
  \/ \E t \in Pages :
       \/ PanelHears(t) \/ onEscapeWhenIdle(t) \/ RecordOperation(t)
       \/ Load(t) \/ Completed(t) \/ DiscoveryAnswers(t)
       \/ \E m \in PageModes \cup Editors : ChangeMode(t, m)
       \/ \E s \in {NoMode, "refused"} : TellStatus(t, s)
       \/ \E f \in FramesOf(t) : sendFrameHello(t, f)

------------------------------------------------------------------------------
Quiet ==
  /\ toWorker = <<>>
  /\ \A t \in Pages : toPanel[t] = <<>> /\ due[t] = {} /\ ~asked[t]

\* When all is delivered every frame is in the mode that its panel shows, across loads,
\* dropped messages and the second copies the router sends; unless a frame
\* discovery, answered when the tab loads again, announced frames that could not hear.
ModesAgree ==
  Quiet /\ ~late => \A t \in Pages : \A f \in routeableFrames(view[t].frames) : frame[t][f] = Routed(view[t].mode)

\* Every operation of a page is recorded once and in order by the panel of its tab, by
\* no other; and a panel shows what was said last, however often it heard it.
MessagesArrive ==
  /\ ModesAgree
  /\ \A t \in Pages : \A i \in DOMAIN view[t].recorded : view[t].recorded[i] = <<t, i>>
  /\ Quiet => \A t \in Pages : Len(view[t].recorded) = number[t].ops /\ view[t].status = number[t].told
=============================================================================
