---------------------------- MODULE FirestoreGet ----------------------------
(* One-shot reads of the sticker collection: Query::GetDocuments of the     *)
(* Firestore client that StickerViewModel.getSticker calls.  A read is a    *)
(* listener on the query that removes itself after its first event.  Three  *)
(* parties run concurrently:                                                *)
(*   - the main queue: asks, runs the callbacks, removes the listeners;     *)
(*   - the worker queue: event manager, sync engine, remote store, watch    *)
(*     stream and online-state tracker, one task at a time;                 *)
(*   - the server, behind a stream that may break at any time.              *)
(* All the reads are of the one query the program makes, so there is one    *)
(* target and at most one view.  Documents are abstracted to the version of *)
(* the collection they belong to.                                           *)
EXTENDS Integers, Sequences, FiniteSets

CONSTANTS
    Gets,                       \* the reads
    kMaxWatchStreamFailures,    \* failures until the client is Offline
    MaxVersion,                 \* bound: versions of the collection
    MaxBreaks                   \* bound: stream failures and network changes

ASSUME GetAssumption ==
    /\ kMaxWatchStreamFailures \in Nat \ {0}
    /\ MaxVersion \in Nat \ {0}
    /\ MaxBreaks \in Nat

VARIABLES
    asked, answers,                     \* the reads, as their callers see them
    events,                             \* events[g]: queued for the main queue
    worker,                             \* tasks the main queue enqueued
    listeners, raised, view,            \* event manager and sync engine
    cache, token, lastRemote,           \* local store
    tracker,                            \* online-state tracker
    stream, idleTimer, credentials,     \* watch stream
    aggregator,                         \* watch change aggregator
    toServer, toClient,                 \* the open stream, both directions
    collection, served, denied,         \* the server
    breaks,                             \* stream failures so far (bound)
    aborted                             \* some HARD_ASSERT failed

main == <<asked, answers, events>>
local == <<listeners, raised, view, cache, token, lastRemote>>
remote == <<stream, idleTimer, credentials, aggregator>>
wire == <<toServer, toClient>>
server == <<collection, served, denied>>
vars == <<main, worker, local, tracker, remote, wire, server, breaks, aborted>>

Versions == 1 .. MaxVersion
None == 0                       \* no version: an empty cache, no token
NoView == [current |-> FALSE, since |-> None]

FreshAggregator == [outstanding |-> 0, current |-> FALSE, docs |-> None]

Watching == view # NoView       \* listen_targets_ holds the target
IsOpen(s) == s = "Open"
IsStarted(s) == s \in {"Starting", "Backoff", "Open"}

-----------------------------------------------------------------------------
(* The online-state tracker, as functions from its state to its next state, *)
(* and what its HARD_ASSERTs require of the state they are called in.       *)

WatchStreamStart(t) ==
    IF t.failures # 0 THEN t
    ELSE [state |-> "Unknown", failures |-> 0, timer |-> TRUE]

StartAsserts(t) == t.failures # 0 \/ ~t.timer

WatchStreamFailure(t) ==
    IF t.state = "Online" THEN [t EXCEPT !.state = "Unknown"]
    ELSE IF t.failures + 1 >= kMaxWatchStreamFailures
         THEN [state |-> "Offline", failures |-> t.failures + 1, timer |-> FALSE]
         ELSE [t EXCEPT !.failures = @ + 1]

FailureAsserts(t) == t.state = "Online" => t.failures = 0 /\ ~t.timer

UpdateState(s) == [state |-> s, failures |-> 0, timer |-> FALSE]

-----------------------------------------------------------------------------
(* Events for the listeners.                                                *)

\* An event is queued for the main executor; it is not delivered yet.  Events
\* of one read keep their order; those of different reads are not ordered.
Queued(gs, result) ==
    [g \in Gets |-> IF g \in gs THEN Append(events[g], result) ELSE events[g]]

\* Faulty variant of ShouldRaiseInitialEvent: a read made while Offline waits.
RaiseOnlyWhenSynced(current, state) == current

\* QueryListener: the first event waits for a synced snapshot or for Offline.
ShouldRaiseInitialEvent(current, state) == current \/ state = "Offline"

\* The listeners that hear of a snapshot: later events are always raised,
\* for the read asks for metadata changes too.
Hearing(current, state) ==
    {g \in listeners : g \in raised \/ ShouldRaiseInitialEvent(current, state)}

Raise(gs) ==
    /\ events' = Queued(gs, "documents")
    /\ raised' = raised \cup gs

\* The tracker moves to t.  Only the step to Offline concerns the view and
\* the listeners: a synced view is no longer current, and whoever still
\* waits is answered from the cache.
BecomeAndBroadcast(t) ==
    /\ tracker' = t
    /\ IF t.state = "Offline" /\ tracker.state # "Offline" /\ Watching
       THEN /\ view' = [view EXCEPT !.current = FALSE]
            /\ Raise({g \in listeners : view.current \/ g \notin raised})
       ELSE UNCHANGED <<view, events, raised>>

-----------------------------------------------------------------------------
(* The watch stream.                                                        *)

\* Stream::Start: after an error the stream backs off first.  Otherwise it
\* asks for credentials and opens when they come.
StartStreamFrom(s) ==
    /\ stream' = IF s = "Error" THEN "Backoff" ELSE "Starting"
    /\ credentials' = IF s = "Error" THEN credentials ELSE [credentials EXCEPT !.fresh = TRUE]
    /\ aggregator' = FreshAggregator

\* Stream::Close: timers are cancelled, credentials on their way will be
\* ignored, and nothing of the old stream reaches the new one.
Invalidated(c) == [fresh |-> FALSE, stale |-> c.stale + IF c.fresh THEN 1 ELSE 0]

CloseWire ==
    /\ idleTimer' = FALSE
    /\ toServer' = <<>>
    /\ toClient' = <<>>
    /\ served' = None
    /\ UNCHANGED <<collection, denied>>

Abort(failed) == aborted' = (aborted \/ failed)

-----------------------------------------------------------------------------
(* Main queue.                                                              *)

\* Query::GetDocuments: adds a listener, by a task for the worker queue.
GetDocuments(g) ==
    /\ g \notin asked
    /\ asked' = asked \cup {g}
    /\ worker' = Append(worker, [task |-> "listen", get |-> g])
    /\ UNCHANGED <<answers, events, local, tracker, remote, wire, server, breaks, aborted>>

\* Faulty variant of Muted: events queued before the listener is removed get through.
NeverMuted(g) == FALSE

\* AsyncEventListener::Mute was called for g: by ListenOnce, on its first
\* snapshot.  An error does not mute.
Muted(g) == \E i \in DOMAIN answers[g] : answers[g][i] = "documents"

\* Faulty variant of OnEvent: the callback runs but the listener stays.
OnEventKeepsListening(g) ==
    /\ events[g] # <<>>
    /\ answers' = IF Muted(g) THEN answers
                  ELSE [answers EXCEPT ![g] = Append(@, Head(events[g]))]
    /\ events' = [events EXCEPT ![g] = Tail(@)]
    /\ UNCHANGED <<asked, worker, local, tracker, remote, wire, server, breaks, aborted>>

\* An event of a listener reaches the main queue.  ListenOnce mutes and
\* removes the listener, then runs the callback.
OnEvent(g) ==
    /\ events[g] # <<>>
    /\ LET result == Head(events[g])
       IN  IF Muted(g) THEN UNCHANGED <<answers, worker>>
           ELSE /\ answers' = [answers EXCEPT ![g] = Append(@, result)]
                /\ worker' = IF result = "error" THEN worker
                             ELSE Append(worker, [task |-> "remove", get |-> g])
    /\ events' = [events EXCEPT ![g] = Tail(@)]
    /\ UNCHANGED <<asked, local, tracker, remote, wire, server, breaks, aborted>>

-----------------------------------------------------------------------------
(* Worker queue: the tasks of the main queue.                               *)

\* A second listener joins the view and hears at once if it is synced.
JoinView(g) ==
    /\ Watching
    /\ listeners' = listeners \cup {g}
    /\ IF ShouldRaiseInitialEvent(view.current, tracker.state)
       THEN Raise({g})
       ELSE UNCHANGED <<events, raised>>
    /\ UNCHANGED <<view, cache, token, lastRemote, tracker, remote, wire, server, aborted>>

\* The first listener creates the view over the cache and the target, starts
\* the stream or asks for the target on the open one.
FirstListen(g) ==
    /\ ~Watching
    /\ listeners' = {g}
    /\ view' = [current |-> FALSE, since |-> collection]
    /\ IF ShouldRaiseInitialEvent(FALSE, tracker.state)
       THEN Raise({g})
       ELSE UNCHANGED <<events, raised>>
    /\ \/ /\ ~IsStarted(stream)
          /\ StartStreamFrom(stream)
          /\ tracker' = WatchStreamStart(tracker)
          /\ Abort(~StartAsserts(tracker))
          /\ UNCHANGED <<idleTimer, toServer>>
       \/ /\ IsOpen(stream)
          /\ toServer' = Append(toServer, [kind |-> "watch", from |-> token])
          /\ aggregator' = [aggregator EXCEPT !.outstanding = @ + 1]
          /\ idleTimer' = FALSE
          /\ UNCHANGED <<stream, credentials, tracker, aborted>>
       \/ /\ IsStarted(stream) /\ ~IsOpen(stream)
          /\ UNCHANGED <<remote, tracker, toServer, aborted>>
    /\ UNCHANGED <<cache, token, lastRemote, toClient, server>>

ListenTask ==
    /\ worker # <<>>
    /\ Head(worker).task = "listen"
    /\ worker' = Tail(worker)
    /\ JoinView(Head(worker).get) \/ FirstListen(Head(worker).get)
    /\ UNCHANGED <<asked, answers, breaks>>

\* Faulty variant of StopListening: the stream is marked idle before it is open.
StopListeningMarksIdle ==
    /\ listeners' = {}
    /\ view' = NoView
    /\ tracker' = IF IsOpen(stream) THEN tracker ELSE UpdateState("Unknown")
    /\ idleTimer' = TRUE
    /\ UNCHANGED <<toServer, aggregator>>

\* Faulty variant of StopListening: the removal is sent but its answer is not awaited.
StopListeningUncounted ==
    /\ listeners' = {}
    /\ view' = NoView
    /\ IF IsOpen(stream)
       THEN /\ toServer' = Append(toServer, [kind |-> "unwatch", from |-> None])
            /\ idleTimer' = TRUE
            /\ UNCHANGED tracker
       ELSE /\ tracker' = UpdateState("Unknown")
            /\ UNCHANGED <<toServer, idleTimer>>
    /\ UNCHANGED aggregator

\* The last listener takes the view and the target with it.
StopListening ==
    /\ listeners' = {}
    /\ view' = NoView
    /\ IF IsOpen(stream)
       THEN /\ toServer' = Append(toServer, [kind |-> "unwatch", from |-> None])
            /\ aggregator' = [aggregator EXCEPT !.outstanding = @ + 1]
            /\ idleTimer' = TRUE
            /\ UNCHANGED tracker
       ELSE /\ tracker' = UpdateState("Unknown")
            /\ UNCHANGED <<toServer, aggregator, idleTimer>>

\* Without a view the listener went with an error: nothing to remove.
RemoveTask ==
    /\ worker # <<>>
    /\ Head(worker).task = "remove"
    /\ worker' = Tail(worker)
    /\ LET rest == listeners \ {Head(worker).get}
       IN  IF Watching /\ rest = {}
           THEN StopListening
           ELSE /\ listeners' = rest
                /\ UNCHANGED <<view, toServer, aggregator, idleTimer, tracker>>
    /\ UNCHANGED <<main, raised, cache, token, lastRemote, stream, credentials, toClient,
                   server, breaks, aborted>>

-----------------------------------------------------------------------------
(* Worker queue: timers and the stream.                                     *)

\* The answer of the credentials providers.  One that was asked for before
\* the stream closed is ignored.
CredentialsArrive ==
    \/ /\ credentials.fresh
       /\ credentials' = [credentials EXCEPT !.fresh = FALSE]
       /\ stream' = "Open"
       /\ IF Watching
          THEN /\ toServer' = Append(toServer, [kind |-> "watch", from |-> token])
               /\ aggregator' = [aggregator EXCEPT !.outstanding = @ + 1]
          ELSE UNCHANGED <<toServer, aggregator>>
       /\ Abort(stream # "Starting")
       /\ UNCHANGED <<main, worker, local, tracker, idleTimer, toClient, server, breaks>>
    \/ /\ credentials.stale > 0
       /\ credentials' = [credentials EXCEPT !.stale = @ - 1]
       /\ UNCHANGED <<main, worker, local, tracker, stream, idleTimer, aggregator, wire,
                      server, breaks, aborted>>

\* The stream ends with an error.  If the target is still wanted the client
\* counts a failure and retries; otherwise it stops trying.
StreamFails ==
    /\ IsOpen(stream)
    /\ breaks < MaxBreaks
    /\ breaks' = breaks + 1
    /\ CloseWire
    /\ IF Watching
       THEN LET failed == WatchStreamFailure(tracker)
            IN  /\ BecomeAndBroadcast(WatchStreamStart(failed))
                /\ StartStreamFrom("Error")
                /\ Abort(~FailureAsserts(tracker) \/ ~StartAsserts(failed))
       ELSE /\ tracker' = UpdateState("Unknown")
            /\ stream' = "Error"
            /\ aggregator' = FreshAggregator
            /\ UNCHANGED <<view, events, raised, credentials, aborted>>
    /\ UNCHANGED <<asked, answers, worker, listeners, cache, token, lastRemote>>

\* Faulty variant of BackoffElapses: the stream restarts but asks for no credentials.
BackoffElapsesAsksNothing ==
    /\ stream = "Backoff"
    /\ stream' = "Starting"
    /\ UNCHANGED <<main, worker, local, tracker, idleTimer, credentials, aggregator, wire,
                   server, breaks, aborted>>

BackoffElapses ==
    /\ stream = "Backoff"
    /\ stream' = "Starting"
    /\ credentials' = [credentials EXCEPT !.fresh = TRUE]
    /\ UNCHANGED <<main, worker, local, tracker, idleTimer, aggregator, wire, server, breaks,
                   aborted>>

\* Ten seconds in Unknown: no longer waiting for the server.
OnlineStateTimeout ==
    /\ tracker.timer
    /\ BecomeAndBroadcast([tracker EXCEPT !.state = "Offline", !.timer = FALSE])
    /\ Abort(tracker.state # "Unknown")
    /\ UNCHANGED <<asked, answers, worker, listeners, cache, token, lastRemote, remote, wire,
                   server, breaks>>

\* A minute without a request: the stream is stopped.  It must not be
\* needed then.
IdleTimeout ==
    /\ idleTimer
    /\ CloseWire
    /\ stream' = "Initial"
    /\ aggregator' = FreshAggregator
    /\ tracker' = UpdateState("Unknown")
    /\ Abort(Watching)
    /\ UNCHANGED <<main, worker, local, credentials, breaks>>

\* The device is on another network: RestartNetwork stops the stream, forgets
\* the backoff and starts again if the target is wanted.
ConnectivityChanges ==
    /\ breaks < MaxBreaks
    /\ breaks' = breaks + 1
    /\ CloseWire
    /\ aggregator' = FreshAggregator
    /\ stream' = IF Watching THEN "Starting" ELSE "Initial"
    /\ credentials' = [Invalidated(credentials) EXCEPT !.fresh = Watching]
    /\ tracker' = IF Watching THEN WatchStreamStart(UpdateState("Unknown"))
                              ELSE UpdateState("Unknown")
    /\ UNCHANGED <<main, worker, local, aborted>>

-----------------------------------------------------------------------------
(* Worker queue: messages of the server.                                    *)

\* Faulty variant of IsActiveTarget: answers to an earlier listen count.
IsListenedTo == Watching

\* Changes of a target count only when every request for it was answered:
\* what comes before belongs to an earlier listen.
IsActiveTarget == Watching /\ aggregator.outstanding = 0

TargetAdded == aggregator' = [aggregator EXCEPT !.outstanding = @ - 1]

TargetRemoved ==
    aggregator' = [aggregator EXCEPT !.outstanding = @ - 1,
                                     !.current = @ /\ aggregator.outstanding # 1]

DocumentsChanged(v) ==
    aggregator' = IF IsActiveTarget THEN [aggregator EXCEPT !.docs = v] ELSE aggregator

TargetCurrent ==
    aggregator' = IF IsActiveTarget THEN [aggregator EXCEPT !.current = TRUE] ELSE aggregator

\* RaiseWatchSnapshot: the documents received go to the cache; an active
\* target gets its token and its view the sync state; the listeners hear of
\* it when documents or sync state changed.
RaiseWatchSnapshot(v) ==
    LET docs == IF aggregator.docs = None THEN cache ELSE aggregator.docs
        current == IF IsActiveTarget THEN aggregator.current ELSE view.current
    IN  /\ cache' = docs
        /\ token' = IF IsActiveTarget THEN v ELSE token
        /\ lastRemote' = v
        /\ view' = IF Watching THEN [view EXCEPT !.current = current] ELSE view
        /\ aggregator' = [aggregator EXCEPT !.docs = None]
        /\ IF Watching /\ (docs # cache \/ current # view.current)
           THEN Raise(Hearing(current, "Online"))
           ELSE UNCHANGED <<events, raised>>

\* The server refuses the target: every listener gets the error.
ProcessTargetError ==
    IF Watching
    THEN /\ events' = Queued(listeners, "error")
         /\ listeners' = {}
         /\ view' = NoView
         /\ aggregator' = [FreshAggregator EXCEPT !.docs = aggregator.docs]
    ELSE UNCHANGED <<events, listeners, view, aggregator>>

\* Any message means Online; then it is handled by its kind. A snapshot older than
\* the last one applied is passed over.
OnWatchStreamChange ==
    /\ toClient # <<>>
    /\ toClient' = Tail(toClient)
    /\ tracker' = UpdateState("Online")
    /\ LET m == Head(toClient)
       IN  \/ /\ m.kind = "added"
              /\ TargetAdded
              /\ UNCHANGED <<events, local>>
           \/ /\ m.kind = "removed"
              /\ TargetRemoved
              /\ UNCHANGED <<events, local>>
           \/ /\ m.kind = "docs"
              /\ DocumentsChanged(m.version)
              /\ UNCHANGED <<events, local>>
           \/ /\ m.kind = "current"
              /\ TargetCurrent
              /\ UNCHANGED <<events, local>>
           \/ /\ m.kind = "snapshot"
              /\ IF m.version >= lastRemote
                 THEN RaiseWatchSnapshot(m.version) /\ UNCHANGED listeners
                 ELSE UNCHANGED <<events, local, aggregator>>
           \/ /\ m.kind = "rejected"
              /\ ProcessTargetError
              /\ UNCHANGED <<raised, cache, token, lastRemote>>
    /\ UNCHANGED <<asked, answers, worker, stream, idleTimer, credentials, toServer, server,
                   breaks, aborted>>

-----------------------------------------------------------------------------
(* The server, as the client's handlers expect it to answer.                *)

Message(kind, v) == [kind |-> kind, version |-> v]

\* What the server sends for a watch request that resumes from version v.
Catch(v) ==
    <<Message("added", None)>>
    \o (IF v < collection THEN <<Message("docs", collection)>> ELSE <<>>)
    \o <<Message("current", None), Message("snapshot", collection)>>

ServerHandles ==
    /\ toServer # <<>>
    /\ toServer' = Tail(toServer)
    /\ LET m == Head(toServer)
       IN  CASE m.kind = "watch" /\ denied ->
                   /\ toClient' = Append(toClient, Message("rejected", None))
                   /\ UNCHANGED served
             [] m.kind = "watch" /\ ~denied ->
                   /\ toClient' = toClient \o Catch(m.from)
                   /\ served' = collection
             [] m.kind = "unwatch" /\ served # None ->
                   /\ toClient' = Append(toClient, Message("removed", None))
                   /\ served' = None
             [] OTHER -> UNCHANGED <<toClient, served>>
    /\ UNCHANGED <<main, worker, local, tracker, remote, collection, denied, breaks, aborted>>

\* A later version of the watched collection is pushed.
ServerPushes ==
    /\ served # None
    /\ served < collection
    /\ toClient' = toClient \o <<Message("docs", collection), Message("snapshot", collection)>>
    /\ served' = collection
    /\ UNCHANGED <<main, worker, local, tracker, remote, toServer, collection, denied, breaks,
                   aborted>>

\* The stickers are edited in the console.
CollectionChanges ==
    /\ collection < MaxVersion
    /\ collection' = collection + 1
    /\ UNCHANGED <<main, worker, local, tracker, remote, wire, served, denied, breaks, aborted>>

-----------------------------------------------------------------------------
\* The program starts with an empty cache or with the one an earlier run left.
Init ==
    /\ asked = {}
    /\ answers = [g \in Gets |-> <<>>]
    /\ events = [g \in Gets |-> <<>>]
    /\ worker = <<>>
    /\ listeners = {}
    /\ raised = {}
    /\ view = NoView
    /\ cache \in {None, 1}
    /\ token = cache
    /\ lastRemote = cache
    /\ tracker = UpdateState("Unknown")
    /\ stream = "Initial"
    /\ idleTimer = FALSE
    /\ credentials = [fresh |-> FALSE, stale |-> 0]
    /\ aggregator = FreshAggregator
    /\ toServer = <<>>
    /\ toClient = <<>>
    /\ collection = 1
    /\ served = None
    /\ denied \in BOOLEAN
    /\ breaks = 0
    /\ aborted = FALSE

Next ==
    \/ \E g \in Gets : GetDocuments(g)
    \/ \E g \in Gets : OnEvent(g)
    \/ ListenTask
    \/ RemoveTask
    \/ CredentialsArrive
    \/ StreamFails
    \/ BackoffElapses
    \/ OnlineStateTimeout
    \/ IdleTimeout
    \/ ConnectivityChanges
    \/ OnWatchStreamChange
    \/ ServerHandles
    \/ ServerPushes
    \/ CollectionChanges

Spec == Init /\ [][Next]_vars

\* The queues run what they are given, and timers and credentials providers
\* fire.  Nothing is assumed of the server.
ClientFairness ==
    /\ \A g \in Gets : WF_vars(OnEvent(g))
    /\ WF_vars(ListenTask)
    /\ WF_vars(RemoveTask)
    /\ WF_vars(CredentialsArrive)
    /\ WF_vars(BackoffElapses)
    /\ WF_vars(OnlineStateTimeout)

SilentServerSpec == Spec /\ ClientFairness

\* The network is good for long enough in the end: the breaks are bounded,
\* and what is sent on a stream that lasts is answered and read.
FairSpec == SilentServerSpec /\ WF_vars(ServerHandles) /\ WF_vars(OnWatchStreamChange)

-----------------------------------------------------------------------------
(* Invariants.                                                              *)

Results == {"documents", "error"}
Tasks == [task : {"listen", "remove"}, get : Gets]
Requests == [kind : {"watch", "unwatch"}, from : Versions \cup {None}]
Messages == [kind : {"added", "removed", "docs", "current", "snapshot", "rejected"},
             version : Versions \cup {None}]
TrackerStates == [state : {"Unknown", "Online", "Offline"}, failures : Nat, timer : BOOLEAN]

ReadTypes ==
    /\ asked \subseteq Gets
    /\ answers \in [Gets -> Seq(Results)]
    /\ events \in [Gets -> Seq(Results)]
    /\ worker \in Seq(Tasks)

LocalTypes ==
    /\ listeners \subseteq Gets
    /\ raised \subseteq Gets
    /\ view \in [current : BOOLEAN, since : Versions \cup {None}]
    /\ cache \in Versions \cup {None}
    /\ token \in Versions \cup {None}
    /\ lastRemote \in Versions \cup {None}

RemoteTypes ==
    /\ tracker \in TrackerStates
    /\ stream \in {"Initial", "Starting", "Open", "Error", "Backoff"}
    /\ idleTimer \in BOOLEAN
    /\ credentials \in [fresh : BOOLEAN, stale : Nat]
    /\ aggregator \in [outstanding : Int, current : BOOLEAN, docs : Versions \cup {None}]

WireTypes ==
    /\ toServer \in Seq(Requests)
    /\ toClient \in Seq(Messages)
    /\ collection \in Versions
    /\ served \in Versions \cup {None}
    /\ denied \in BOOLEAN

Typed ==
    /\ ReadTypes
    /\ LocalTypes
    /\ RemoteTypes
    /\ WireTypes
    /\ breaks \in 0 .. MaxBreaks
    /\ aborted \in BOOLEAN

\* Every variable keeps its type, and the count of outstanding responses, an int
\* that is only compared with zero, does not fall below it: no answer is counted
\* off that was not asked for, though answers to an earlier listen of the target
\* still come after it was unlistened and listened to again.
TypeOK == Typed /\ aggregator.outstanding >= 0

\* No HARD_ASSERT of the handlers fails, whatever the order in which tasks,
\* timers, stream events and late credentials come: the online-state timer is
\* never armed twice nor fires outside Unknown, failures are cleared once
\* Online, credentials find the stream still starting, and the idle timer
\* never stops a stream that is needed.
NeverAborts == ~aborted

\* A view that counts as synced shows the collection as it was when the view
\* was created or later: what the server still sends about an earlier listen
\* of the same target does not make the new one current.  A read answered as
\* not from the cache is answered from such a view.
SyncedViewIsFresh == view.current => cache >= view.since

\* Offline, no view is synced and no listener is left waiting for a first
\* event: both the listeners there when the state changed and those added
\* since were answered from the cache.
OfflineAnswersFromCache ==
    tracker.state = "Offline" => ~view.current /\ listeners \subseteq raised

\* When every read was answered and the queues are empty, no listener, view
\* or target is left behind, though errors and removals cross on the way.
NothingLeftListening ==
    (\A g \in asked : answers[g] # <<>> /\ events[g] = <<>>) /\ worker = <<>>
        => listeners = {} /\ ~Watching

-----------------------------------------------------------------------------
(* Properties.                                                              *)

Read == INSTANCE OneShotRead

\* The client keeps the promise of a one-shot read: at most one answer, though
\* several snapshots, an error and the step to Offline may each raise an event
\* for the same read before its listener is removed.
ImplementsOneShotRead == Read!ReadSpec

\* Every read is answered in the end, from the server, from the cache or with
\* an error, whatever breaks on the way.
EveryGetAnswered == \A g \in Gets : g \in asked ~> answers[g] # <<>>

\* What the tracker's comment promises: while a read waits, Unknown does not
\* last; the state reaches Online or Offline or the read stops waiting.
Waiting == listeners \ raised # {}
UnknownDoesNotLast ==
    (Waiting /\ tracker.state = "Unknown") ~> (~Waiting \/ tracker.state # "Unknown")

=============================================================================
