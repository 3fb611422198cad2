------------------------ MODULE FirestoreGetProofs ------------------------
(* Proofs about FirestoreGet, for any number of reads, any failure limit    *)
(* and any bounds: types, no assertion of the client fails, Offline leaves  *)
(* nobody waiting, the client keeps the promise of OneShotRead, no listener *)
(* stays behind, and a view that counts as synced is fresh.                 *)
EXTENDS FirestoreGet, FunctionTheorems, FiniteSetTheorems, TLAPS

-----------------------------------------------------------------------------
(* Lemmas about the operators.                                              *)

\* Taking the head of a queue.
LEMMA Taking ==
    ASSUME NEW S, NEW s \in Seq(S), s # <<>>
    PROVE  Head(s) \in S /\ Tail(s) \in Seq(S)
OBVIOUS

\* Adding at the end of a queue.
LEMMA Adding ==
    ASSUME NEW S, NEW s \in Seq(S), NEW e \in S
    PROVE  Append(s, e) \in Seq(S)
OBVIOUS

\* Putting one queue behind another.
LEMMA Joining ==
    ASSUME NEW S, NEW s \in Seq(S), NEW t \in Seq(S)
    PROVE  s \o t \in Seq(S)
OBVIOUS

\* The tracker's functions stay within its states.
LEMMA TrackerTypes ==
    ASSUME NEW t \in TrackerStates, NEW s \in {"Unknown", "Online", "Offline"}
    PROVE  /\ WatchStreamStart(t) \in TrackerStates
           /\ WatchStreamFailure(t) \in TrackerStates
           /\ UpdateState(s) \in TrackerStates
BY DEF TrackerStates, WatchStreamStart, WatchStreamFailure, UpdateState

\* Queueing an event keeps the type of the queues.
LEMMA QueuedType ==
    ASSUME ReadTypes, NEW gs, NEW result \in Results
    PROVE  Queued(gs, result) \in [Gets -> Seq(Results)]
<1>1. \A g \in Gets : Append(events[g], result) \in Seq(Results)
  BY DEF ReadTypes
<1>2. QED
  BY <1>1 DEF Queued, ReadTypes

\* What the server sends for a watch request is well formed.
LEMMA CatchType ==
    ASSUME WireTypes, NEW v \in Versions \cup {None}
    PROVE  Catch(v) \in Seq(Messages)
<1>0. collection \in Versions
  BY DEF WireTypes
<1>1. \A k \in {"added", "docs", "current", "snapshot"}, w \in Versions \cup {None} :
          Message(k, w) \in Messages
  BY DEF Message, Messages
<1>2. <<Message("added", None)>> \in Seq(Messages)
  BY <1>1
<1>3. <<Message("docs", collection)>> \in Seq(Messages)
  BY <1>0, <1>1
<1>4. <<Message("current", None), Message("snapshot", collection)>> \in Seq(Messages)
  BY <1>0, <1>1
<1>5. CASE v < collection
  BY <1>2, <1>3, <1>4, <1>5 DEF Catch
<1>6. CASE ~(v < collection)
  BY <1>2, <1>4, <1>6 DEF Catch
<1>7. QED
  BY <1>5, <1>6

LEMMA FreshAggregatorType ==
    FreshAggregator \in [outstanding : Int, current : BOOLEAN, docs : Versions \cup {None}]
BY DEF FreshAggregator

-----------------------------------------------------------------------------
(* Types.                                                                   *)

LEMMA InitTypes == Init => Typed
<1> SUFFICES ASSUME Init PROVE Typed
  OBVIOUS
<1>0. 1 \in Versions
  BY GetAssumption DEF Versions
<1>1. ReadTypes
  BY DEF Init, ReadTypes
<1>2. LocalTypes
  BY <1>0 DEF Init, LocalTypes, NoView
<1>3. RemoteTypes
  <2>1. tracker \in TrackerStates
    BY DEF Init, UpdateState, TrackerStates
  <2>2. QED
    BY <2>1, FreshAggregatorType DEF Init, RemoteTypes
<1>4. WireTypes
  BY <1>0 DEF Init, WireTypes
<1>5. breaks \in 0 .. MaxBreaks /\ aborted \in BOOLEAN
  <2>1. breaks = 0 /\ aborted = FALSE
    BY DEF Init
  <2>2. breaks \in 0 .. MaxBreaks
    BY <2>1, GetAssumption
  <2>3. QED
    BY <2>1, <2>2
<1>6. QED
  BY <1>1, <1>2, <1>3, <1>4, <1>5 DEF Typed

\* A broadcast keeps the types of what it writes.
LEMMA BroadcastTypes ==
    ASSUME Typed, NEW t \in TrackerStates, BecomeAndBroadcast(t), listeners' \subseteq Gets,
           UNCHANGED <<cache, token, lastRemote>>
    PROVE  /\ tracker' \in TrackerStates
           /\ events' \in [Gets -> Seq(Results)]
           /\ LocalTypes'
<1> USE DEF Typed
<1>1. tracker' \in TrackerStates
  BY DEF BecomeAndBroadcast
<1>2. \A gs : Queued(gs, "documents") \in [Gets -> Seq(Results)]
  BY QueuedType DEF Results
<1>3. events' \in [Gets -> Seq(Results)]
  BY <1>2 DEF BecomeAndBroadcast, Raise, ReadTypes
<1>4. raised' \subseteq Gets
  BY DEF BecomeAndBroadcast, Raise, LocalTypes
<1>5. view' \in [current : BOOLEAN, since : Versions \cup {None}]
  BY DEF BecomeAndBroadcast, LocalTypes
<1>6. QED
  BY <1>1, <1>3, <1>4, <1>5 DEF LocalTypes

LEMMA NextTypes == Typed /\ [Next]_vars => Typed'
<1> SUFFICES ASSUME Typed, [Next]_vars PROVE Typed'
  OBVIOUS
<1> USE DEF Typed
<1>1. ASSUME NEW g \in Gets, GetDocuments(g) PROVE Typed'
  <2>1. ReadTypes'
    BY <1>1 DEF GetDocuments, ReadTypes, Tasks
  <2>2. QED
    BY <1>1, <2>1 DEF GetDocuments, local, remote, wire, server,
                      LocalTypes, RemoteTypes, WireTypes
<1>2. ASSUME NEW g \in Gets, OnEvent(g) PROVE Typed'
  <2>1. Head(events[g]) \in Results /\ Tail(events[g]) \in Seq(Results)
    BY <1>2 DEF OnEvent, ReadTypes
  <2>2. events' \in [Gets -> Seq(Results)]
    BY <1>2, <2>1 DEF OnEvent, ReadTypes
  <2>3. [task |-> "remove", get |-> g] \in Tasks
    BY DEF Tasks
  <2>4. worker' \in Seq(Tasks)
    <3>1. worker \in Seq(Tasks)
      BY DEF ReadTypes
    <3>2. worker' = worker \/ worker' = Append(worker, [task |-> "remove", get |-> g])
      BY <1>2 DEF OnEvent
    <3>3. Append(worker, [task |-> "remove", get |-> g]) \in Seq(Tasks)
      BY <2>3, <3>1, Adding
    <3> QED
      BY <3>1, <3>2, <3>3
  <2>5. answers' \in [Gets -> Seq(Results)]
    <3>1. answers[g] \in Seq(Results)
      BY DEF ReadTypes
    <3>2. Append(answers[g], Head(events[g])) \in Seq(Results)
      BY <2>1, <3>1, Adding
    <3>3. QED
      BY <1>2, <3>2 DEF OnEvent, ReadTypes
  <2>6. QED
    BY <1>2, <2>2, <2>4, <2>5 DEF OnEvent, local, remote, wire, server,
                            ReadTypes, LocalTypes, RemoteTypes, WireTypes
<1>3. ASSUME ListenTask PROVE Typed'
  <2> DEFINE g == Head(worker).get
  <2>1. g \in Gets /\ worker' \in Seq(Tasks)
    <3>1. worker \in Seq(Tasks) /\ worker # <<>> /\ worker' = Tail(worker)
      BY <1>3 DEF ListenTask, ReadTypes
    <3>2. Head(worker) \in Tasks /\ Tail(worker) \in Seq(Tasks)
      BY <3>1, Taking
    <3>3. QED
      BY <3>1, <3>2 DEF Tasks
  <2>2. events' \in [Gets -> Seq(Results)] /\ raised' \subseteq Gets
    <3>1. Queued({g}, "documents") \in [Gets -> Seq(Results)]
      BY QueuedType DEF Results
    <3>2. QED
      BY <1>3, <2>1, <3>1 DEF ListenTask, JoinView, FirstListen, Raise, ReadTypes, LocalTypes
  <2>3. LocalTypes' /\ WireTypes' /\ RemoteTypes'
    <3>1. CASE JoinView(g)
      BY <2>1, <2>2, <3>1 DEF JoinView, wire, server, remote,
                              LocalTypes, RemoteTypes, WireTypes
    <3>2. CASE FirstListen(g)
      <4>1. LocalTypes'
        BY <2>1, <2>2, <3>2 DEF FirstListen, LocalTypes, WireTypes
      <4>2. tracker' \in TrackerStates
        BY <3>2, TrackerTypes DEF FirstListen, RemoteTypes, remote
      <4>3. aggregator' \in [outstanding : Int, current : BOOLEAN, docs : Versions \cup {None}]
        BY <3>2, FreshAggregatorType DEF FirstListen, StartStreamFrom, RemoteTypes, remote
      <4>4. /\ stream' \in {"Initial", "Starting", "Open", "Error", "Backoff"}
            /\ credentials' \in [fresh : BOOLEAN, stale : Nat]
            /\ idleTimer' \in BOOLEAN
        BY <3>2 DEF FirstListen, StartStreamFrom, RemoteTypes, remote
      <4>5. [kind |-> "watch", from |-> token] \in Requests
        BY DEF Requests, LocalTypes
      <4>6. WireTypes'
        <5>1. toServer' = toServer \/ toServer' = Append(toServer, [kind |-> "watch", from |-> token])
          BY <3>2 DEF FirstListen
        <5>2. toServer \in Seq(Requests)
          BY DEF WireTypes
        <5>3. Append(toServer, [kind |-> "watch", from |-> token]) \in Seq(Requests)
          BY <4>5, <5>2, Adding
        <5>4. QED
          BY <3>2, <5>1, <5>2, <5>3 DEF FirstListen, WireTypes, server
      <4>7. QED
        BY <4>1, <4>2, <4>3, <4>4, <4>6 DEF RemoteTypes
    <3>3. QED
      BY <1>3, <3>1, <3>2 DEF ListenTask
  <2>4. QED
    BY <1>3, <2>1, <2>2, <2>3 DEF ListenTask, JoinView, FirstListen, Abort, ReadTypes, remote
<1>4. ASSUME RemoveTask PROVE Typed'
  <2>1. worker' \in Seq(Tasks)
    BY <1>4, Taking DEF RemoveTask, ReadTypes
  <2>2. [kind |-> "unwatch", from |-> None] \in Requests
    BY DEF Requests
  <2>3. toServer' \in Seq(Requests)
    <3>1. toServer \in Seq(Requests)
      BY DEF WireTypes
    <3>2. \/ toServer' = toServer
          \/ toServer' = Append(toServer, [kind |-> "unwatch", from |-> None])
      BY <1>4 DEF RemoveTask, StopListening
    <3>3. Append(toServer, [kind |-> "unwatch", from |-> None]) \in Seq(Requests)
      BY <2>2, <3>1, Adding
    <3> QED
      BY <3>1, <3>2, <3>3
  <2>4. tracker' \in TrackerStates
    BY <1>4, TrackerTypes DEF RemoveTask, StopListening, RemoteTypes
  <2>5. LocalTypes'
    <3>1. NoView \in [current : BOOLEAN, since : Versions \cup {None}]
      BY DEF NoView
    <3>2. view' = view \/ view' = NoView
      BY <1>4 DEF RemoveTask, StopListening
    <3>3. listeners' \subseteq Gets
      BY <1>4 DEF RemoveTask, StopListening, LocalTypes
    <3>4. QED
      BY <1>4, <3>1, <3>2, <3>3 DEF RemoveTask, LocalTypes
  <2>6. aggregator' \in [outstanding : Int, current : BOOLEAN, docs : Versions \cup {None}]
    BY <1>4 DEF RemoveTask, StopListening, RemoteTypes
  <2>7. idleTimer' \in BOOLEAN
    BY <1>4 DEF RemoveTask, StopListening, RemoteTypes
  <2>8. QED
    BY <1>4, <2>1, <2>3, <2>4, <2>5, <2>6, <2>7
       DEF RemoveTask, StopListening, main, server, ReadTypes, RemoteTypes, WireTypes
<1>5. ASSUME CredentialsArrive PROVE Typed'
  <2>1. [kind |-> "watch", from |-> token] \in Requests
    BY DEF Requests, LocalTypes
  <2>2. toServer' \in Seq(Requests)
    <3>1. toServer \in Seq(Requests)
      BY DEF WireTypes
    <3>2. \/ toServer' = toServer
          \/ toServer' = Append(toServer, [kind |-> "watch", from |-> token])
      BY <1>5 DEF CredentialsArrive, wire
    <3>3. Append(toServer, [kind |-> "watch", from |-> token]) \in Seq(Requests)
      BY <2>1, <3>1, Adding
    <3> QED
      BY <3>1, <3>2, <3>3
  <2>3. RemoteTypes'
    <3>1. credentials' \in [fresh : BOOLEAN, stale : Nat]
      <4>1. credentials \in [fresh : BOOLEAN, stale : Nat]
        BY DEF RemoteTypes
      <4>2. \/ credentials' = [credentials EXCEPT !.fresh = FALSE]
            \/ credentials.stale > 0 /\ credentials' = [credentials EXCEPT !.stale = @ - 1]
        BY <1>5 DEF CredentialsArrive
      <4>3. credentials.stale > 0 => credentials.stale - 1 \in Nat
        BY <4>1
      <4>4. \A n \in Nat : [credentials EXCEPT !.stale = n] \in [fresh : BOOLEAN, stale : Nat]
        BY <4>1
      <4>5. QED
        BY <4>1, <4>2, <4>3, <4>4
    <3>2. aggregator' \in [outstanding : Int, current : BOOLEAN, docs : Versions \cup {None}]
      BY <1>5, SMTT(30) DEF CredentialsArrive, RemoteTypes
    <3>3. QED
      BY <1>5, <3>1, <3>2 DEF CredentialsArrive, RemoteTypes
  <2>4. QED
    BY <1>5, <2>2, <2>3 DEF CredentialsArrive, Abort, main, local, wire, server,
                            ReadTypes, LocalTypes, WireTypes
<1>6. ASSUME StreamFails PROVE Typed'
  <2>1. WireTypes'
    BY <1>6 DEF StreamFails, CloseWire, WireTypes
  <2>2. breaks' \in 0 .. MaxBreaks
    BY <1>6, GetAssumption DEF StreamFails
  <2>3. \A t \in TrackerStates : WatchStreamStart(WatchStreamFailure(t)) \in TrackerStates
    BY TrackerTypes
  <2>4. tracker' \in TrackerStates /\ events' \in [Gets -> Seq(Results)] /\ LocalTypes'
    <3>1. CASE Watching
      <4>1. BecomeAndBroadcast(WatchStreamStart(WatchStreamFailure(tracker)))
        BY <1>6, <3>1 DEF StreamFails
      <4>2. UNCHANGED <<listeners, cache, token, lastRemote>>
        BY <1>6 DEF StreamFails
      <4>3. QED
        BY <2>3, <4>1, <4>2, BroadcastTypes DEF LocalTypes, RemoteTypes
    <3>2. CASE ~Watching
      <4>1. UpdateState("Unknown") \in TrackerStates
        BY DEF UpdateState, TrackerStates
      <4>2. QED
        BY <1>6, <3>2, <4>1 DEF StreamFails, LocalTypes, ReadTypes
    <3>3. QED
      BY <3>1, <3>2
  <2>5. aggregator' = FreshAggregator /\ stream' \in {"Error", "Backoff"} /\ idleTimer' = FALSE
       /\ credentials' = credentials
    BY <1>6 DEF StreamFails, StartStreamFrom, CloseWire
  <2>6. RemoteTypes'
    BY <1>6, <2>4, <2>5, FreshAggregatorType DEF StreamFails, RemoteTypes
  <2>7. ReadTypes' /\ aborted' \in BOOLEAN
    BY <1>6, <2>4 DEF StreamFails, Abort, ReadTypes
  <2>8. QED
    BY <2>1, <2>2, <2>4, <2>6, <2>7
<1>7. ASSUME BackoffElapses PROVE Typed'
  <2>1. credentials' \in [fresh : BOOLEAN, stale : Nat]
    BY <1>7 DEF BackoffElapses, RemoteTypes
  <2>2. QED
    BY <1>7, <2>1 DEF BackoffElapses, main, local, wire, server,
              ReadTypes, LocalTypes, RemoteTypes, WireTypes
<1>8. ASSUME OnlineStateTimeout PROVE Typed'
  <2> DEFINE offline == [tracker EXCEPT !.state = "Offline", !.timer = FALSE]
  <2>1. offline \in TrackerStates
    BY DEF RemoteTypes, TrackerStates
  <2>2. tracker' \in TrackerStates /\ events' \in [Gets -> Seq(Results)] /\ LocalTypes'
    <3>1. BecomeAndBroadcast(offline) /\ UNCHANGED <<listeners, cache, token, lastRemote>>
      BY <1>8 DEF OnlineStateTimeout
    <3>2. QED
      BY <2>1, <3>1, BroadcastTypes DEF LocalTypes
  <2>3. QED
    BY <1>8, <2>2 DEF OnlineStateTimeout, Abort, remote, wire, server,
                      ReadTypes, RemoteTypes, WireTypes
<1>9. ASSUME IdleTimeout PROVE Typed'
  <2>1. tracker' \in TrackerStates
    BY <1>9 DEF IdleTimeout, UpdateState, TrackerStates
  <2>2. WireTypes'
    BY <1>9 DEF IdleTimeout, CloseWire, WireTypes
  <2>3. QED
    BY <1>9, <2>1, <2>2, FreshAggregatorType DEF IdleTimeout, CloseWire, Abort, main, local,
                               ReadTypes, LocalTypes, RemoteTypes
<1>10. ASSUME ConnectivityChanges PROVE Typed'
  <2>1. tracker' \in TrackerStates
    BY <1>10 DEF ConnectivityChanges, WatchStreamStart, UpdateState, TrackerStates
  <2>2. WireTypes'
    BY <1>10 DEF ConnectivityChanges, CloseWire, WireTypes
  <2>3. credentials' \in [fresh : BOOLEAN, stale : Nat]
    <3>1. Invalidated(credentials) \in [fresh : BOOLEAN, stale : Nat]
      BY DEF Invalidated, RemoteTypes
    <3>2. Watching \in BOOLEAN
      BY DEF Watching
    <3>3. QED
      BY <1>10, <3>1, <3>2 DEF ConnectivityChanges
  <2>4. RemoteTypes'
    BY <1>10, <2>1, <2>3, FreshAggregatorType
       DEF ConnectivityChanges, CloseWire, RemoteTypes
  <2>5. breaks' \in 0 .. MaxBreaks
    BY <1>10, GetAssumption DEF ConnectivityChanges
  <2>6. QED
    BY <1>10, <2>2, <2>4, <2>5 DEF ConnectivityChanges, main, local, ReadTypes, LocalTypes
<1>11. ASSUME OnWatchStreamChange PROVE Typed'
  <2> DEFINE m == Head(toClient)
  <2>1. m \in Messages /\ toClient' \in Seq(Messages)
    BY <1>11, Taking DEF OnWatchStreamChange, WireTypes
  <2>2. tracker' \in TrackerStates
    BY <1>11 DEF OnWatchStreamChange, UpdateState, TrackerStates
  <2>3. ASSUME events' \in [Gets -> Seq(Results)], LocalTypes',
               aggregator' \in [outstanding : Int, current : BOOLEAN, docs : Versions \cup {None}]
        PROVE  Typed'
    BY <1>11, <2>1, <2>2, <2>3 DEF OnWatchStreamChange, server,
                                   ReadTypes, RemoteTypes, WireTypes
  <2> DEFINE A == [outstanding : Int, current : BOOLEAN, docs : Versions \cup {None}]
  <2>a. aggregator \in A
    BY DEF RemoteTypes
  <2>b. ASSUME UNCHANGED <<events, local>>, aggregator' \in A PROVE Typed'
    BY <2>3, <2>b DEF local, ReadTypes, LocalTypes
  <2>4. CASE TargetAdded /\ UNCHANGED <<events, local>>
    BY <2>a, <2>b, <2>4 DEF TargetAdded
  <2>5. CASE TargetRemoved /\ UNCHANGED <<events, local>>
    <3>1. \A n \in Int, c \in BOOLEAN :
              [aggregator EXCEPT !.outstanding = n, !.current = c] \in A
      BY <2>a
    <3>2. /\ aggregator.outstanding - 1 \in Int
          /\ (aggregator.current /\ aggregator.outstanding # 1) \in BOOLEAN
      BY <2>a
    <3>3. aggregator' \in A
      BY <2>5, <3>1, <3>2 DEF TargetRemoved
    <3>4. QED
      BY <2>b, <2>5, <3>3
  <2>6. CASE DocumentsChanged(m.version) /\ UNCHANGED <<events, local>>
    <3>1. m.version \in Versions \cup {None}
      BY <2>1 DEF Messages
    <3>2. QED
      BY <2>a, <2>b, <2>6, <3>1 DEF DocumentsChanged
  <2>7. CASE TargetCurrent /\ UNCHANGED <<events, local>>
    BY <2>a, <2>b, <2>7 DEF TargetCurrent
  <2>8. CASE RaiseWatchSnapshot(m.version) /\ UNCHANGED listeners
    <3>1. \A gs : Queued(gs, "documents") \in [Gets -> Seq(Results)]
      BY QueuedType DEF Results
    <3>2. events' \in [Gets -> Seq(Results)]
      BY <2>8, <3>1 DEF RaiseWatchSnapshot, Raise, ReadTypes
    <3>3. raised' \subseteq Gets
      BY <2>8 DEF RaiseWatchSnapshot, Raise, Hearing, LocalTypes
    <3>4. /\ view' \in [current : BOOLEAN, since : Versions \cup {None}]
          /\ cache' \in Versions \cup {None}
          /\ token' \in Versions \cup {None}
          /\ lastRemote' \in Versions \cup {None}
      BY <2>1, <2>8 DEF RaiseWatchSnapshot, Messages, LocalTypes, RemoteTypes
    <3>5. aggregator' \in [outstanding : Int, current : BOOLEAN, docs : Versions \cup {None}]
      BY <2>8 DEF RaiseWatchSnapshot, RemoteTypes
    <3>6. LocalTypes'
      BY <2>8, <3>3, <3>4 DEF LocalTypes
    <3>7. QED
      BY <2>3, <3>2, <3>5, <3>6
  <2>9. CASE ProcessTargetError /\ UNCHANGED <<raised, cache, token, lastRemote>>
    <3>1. Queued(listeners, "error") \in [Gets -> Seq(Results)]
      BY QueuedType DEF Results
    <3>2. events' \in [Gets -> Seq(Results)]
      BY <2>9, <3>1 DEF ProcessTargetError, ReadTypes
    <3>3. view' \in [current : BOOLEAN, since : Versions \cup {None}]
      <4>1. NoView \in [current : BOOLEAN, since : Versions \cup {None}]
        BY DEF NoView
      <4>2. QED
        BY <2>9, <4>1 DEF ProcessTargetError, LocalTypes
    <3>4. LocalTypes'
      BY <2>9, <3>3 DEF ProcessTargetError, LocalTypes
    <3>5. [FreshAggregator EXCEPT !.docs = aggregator.docs] \in A
      BY <2>a, FreshAggregatorType
    <3>6. QED
      BY <2>a, <2>3, <2>9, <3>2, <3>4, <3>5 DEF ProcessTargetError
  <2>10. CASE UNCHANGED <<events, local, aggregator>>
    BY <2>a, <2>b, <2>10
  <2>11. QED
    BY <1>11, <2>4, <2>5, <2>6, <2>7, <2>8, <2>9, <2>10 DEF OnWatchStreamChange
<1>12. ASSUME ServerHandles PROVE Typed'
  <2>1. Head(toServer) \in Requests /\ toServer' \in Seq(Requests)
    BY <1>12, Taking DEF ServerHandles, WireTypes
  <2>2. /\ Message("rejected", None) \in Messages
        /\ Message("removed", None) \in Messages
    BY DEF Message, Messages
  <2>3. Catch(Head(toServer).from) \in Seq(Messages)
    BY <2>1, CatchType DEF Requests
  <2>4. toClient' \in Seq(Messages)
    <3>1. toClient \in Seq(Messages)
      BY DEF WireTypes
    <3>2. \/ toClient' = Append(toClient, Message("rejected", None))
          \/ toClient' = Append(toClient, Message("removed", None))
          \/ toClient' = toClient \o Catch(Head(toServer).from)
          \/ toClient' = toClient
      BY <1>12 DEF ServerHandles
    <3>3. QED
      BY <2>2, <2>3, <3>1, <3>2, Adding, Joining
  <2>5. served' \in Versions \cup {None}
    BY <1>12 DEF ServerHandles, WireTypes
  <2>6. QED
    BY <1>12, <2>1, <2>4, <2>5 DEF ServerHandles, main, local, remote,
                                   ReadTypes, LocalTypes, RemoteTypes, WireTypes
<1>13. ASSUME ServerPushes PROVE Typed'
  <2>1. Message("docs", collection) \in Messages /\ Message("snapshot", collection) \in Messages
    BY DEF Message, Messages, WireTypes
  <2>2. toClient' \in Seq(Messages)
    BY <1>13, <2>1 DEF ServerPushes, WireTypes
  <2>3. QED
    BY <1>13, <2>2 DEF ServerPushes, main, local, remote,
                       ReadTypes, LocalTypes, RemoteTypes, WireTypes
<1>14. ASSUME CollectionChanges PROVE Typed'
  <2>1. collection' \in Versions
    BY <1>14, GetAssumption DEF CollectionChanges, WireTypes, Versions
  <2>2. QED
    BY <1>14, <2>1 DEF CollectionChanges, main, local, remote, wire,
                       ReadTypes, LocalTypes, RemoteTypes, WireTypes
<1>15. ASSUME UNCHANGED vars PROVE Typed'
  BY <1>15 DEF vars, main, local, remote, wire, server,
               ReadTypes, LocalTypes, RemoteTypes, WireTypes
<1>16. QED
  BY <1>1, <1>2, <1>3, <1>4, <1>5, <1>6, <1>7, <1>8, <1>9, <1>10, <1>11, <1>12, <1>13,
     <1>14, <1>15 DEF Next

-----------------------------------------------------------------------------
(* Safety of the client.                                                    *)

\* How the timers, the tracker, the stream and the view go together.  The
\* online-state timer runs only in Unknown with a stream that was started,
\* failures are forgotten once Online, credentials are awaited only by a
\* starting stream, and an open stream is idle only without a target.
ClientInOrder ==
    /\ tracker.timer => tracker.state = "Unknown" /\ IsStarted(stream)
    /\ tracker.state = "Online" => tracker.failures = 0
    /\ credentials.fresh => stream = "Starting"
    /\ idleTimer => IsOpen(stream) /\ ~Watching

\* A view is there exactly when there is somebody to show it to.
ViewsAreShown ==
    /\ Watching => view.since \in Versions
    /\ ~Watching => listeners = {}

Safe == NeverAborts /\ ClientInOrder /\ ViewsAreShown /\ OfflineAnswersFromCache

LEMMA InitSafe == Init => Safe
BY DEF Init, Safe, NeverAborts, ClientInOrder, ViewsAreShown, OfflineAnswersFromCache,
       UpdateState, Watching, NoView, IsOpen

\* A view stays a view when only its sync state changes.
LEMMA StillWatching ==
    ASSUME LocalTypes, NEW c \in BOOLEAN, Watching, view.since \in Versions
    PROVE  /\ [view EXCEPT !.current = c] # NoView
           /\ [view EXCEPT !.current = c].since = view.since
BY DEF LocalTypes, NoView, None, Versions

\* A broadcast keeps what was promised to the listeners.
LEMMA BroadcastSafe ==
    ASSUME Typed, Safe, NEW t \in TrackerStates, BecomeAndBroadcast(t), listeners' = listeners
    PROVE  ViewsAreShown' /\ OfflineAnswersFromCache' /\ (Watching' <=> Watching)
<1> DEFINE toOffline == t.state = "Offline" /\ tracker.state # "Offline" /\ Watching
<1>1. CASE toOffline
  <2>1. view' = [view EXCEPT !.current = FALSE] /\ Watching /\ view.since \in Versions
    BY <1>1 DEF BecomeAndBroadcast, Safe, ViewsAreShown
  <2>2. view' # NoView /\ view'.since = view.since
    BY <2>1, StillWatching DEF Typed
  <2>3. view'.current = FALSE
    BY <2>1 DEF Typed, LocalTypes
  <2>4. listeners \subseteq raised'
    BY <1>1 DEF BecomeAndBroadcast, Raise
  <2>5. QED
    BY <2>1, <2>2, <2>3, <2>4 DEF ViewsAreShown, OfflineAnswersFromCache, Watching
<1>2. CASE ~toOffline
  <2>1. view' = view /\ raised' = raised /\ tracker' = t
    BY <1>2 DEF BecomeAndBroadcast
  <2>2. ~Watching => view.current = FALSE /\ listeners = {}
    BY DEF Safe, ViewsAreShown, Watching, NoView
  <2>3. QED
    BY <1>2, <2>1, <2>2 DEF Safe, ViewsAreShown, OfflineAnswersFromCache, Watching
<1>3. QED
  BY <1>1, <1>2

LEMMA NextSafe == Typed /\ Safe /\ [Next]_vars => Safe'
<1> SUFFICES ASSUME Typed, Safe, [Next]_vars PROVE Safe'
  OBVIOUS
<1> USE DEF Safe
<1>1. ASSUME NEW g \in Gets, GetDocuments(g) \/ OnEvent(g) PROVE Safe'
  BY <1>1 DEF GetDocuments, OnEvent, local, remote, NeverAborts, ClientInOrder, ViewsAreShown,
              OfflineAnswersFromCache, Watching
<1>3. ASSUME ListenTask PROVE Safe'
  <2> DEFINE g == Head(worker).get
  <2>1. CASE JoinView(g)
    <3>1. OfflineAnswersFromCache'
      BY <2>1 DEF JoinView, ShouldRaiseInitialEvent, Raise, OfflineAnswersFromCache
    <3>2. QED
      BY <2>1, <3>1 DEF JoinView, remote, NeverAborts, ClientInOrder, ViewsAreShown, Watching
  <2>2. CASE FirstListen(g)
    <3>1. view' = [current |-> FALSE, since |-> collection] /\ collection \in Versions
      BY <2>2 DEF FirstListen, Typed, WireTypes
    <3>2. view' # NoView /\ ViewsAreShown'
      BY <3>1 DEF NoView, None, Versions, ViewsAreShown, Watching
    <3>3. listeners' = {g} /\ (tracker.state = "Offline" => g \in raised')
      BY <2>2 DEF FirstListen, ShouldRaiseInitialEvent, Raise
    <3>4. CASE ~IsStarted(stream)
      <4>1. /\ tracker' = WatchStreamStart(tracker)
            /\ stream' = (IF stream = "Error" THEN "Backoff" ELSE "Starting")
            /\ stream # "Error" \/ credentials' = credentials
            /\ idleTimer' = idleTimer
            /\ aborted' = (aborted \/ ~StartAsserts(tracker))
        BY <2>2, <3>4 DEF FirstListen, StartStreamFrom, Abort, IsStarted, IsOpen
      <4>2. ~tracker.timer
        BY <3>4 DEF ClientInOrder
      <4>3. NeverAborts'
        BY <4>1, <4>2 DEF NeverAborts, StartAsserts
      <4>4. /\ tracker'.timer => tracker'.state = "Unknown"
            /\ tracker'.state = "Online" => tracker'.failures = 0
            /\ tracker'.state = "Offline" => tracker.state = "Offline"
        BY <4>1, <4>2 DEF WatchStreamStart, ClientInOrder
      <4>5. IsStarted(stream') /\ (credentials'.fresh => stream' = "Starting")
        BY <3>4, <4>1 DEF ClientInOrder, IsStarted
      <4>6. ~idleTimer
        BY <3>4 DEF ClientInOrder, IsOpen, IsStarted
      <4>7. ClientInOrder'
        BY <4>1, <4>4, <4>5, <4>6 DEF ClientInOrder
      <4>8. OfflineAnswersFromCache'
        BY <3>1, <3>3, <4>4 DEF OfflineAnswersFromCache
      <4>9. QED
        BY <3>2, <4>3, <4>7, <4>8
    <3>5. CASE IsStarted(stream)
      <4>1. /\ stream' = stream /\ credentials' = credentials
            /\ tracker' = tracker /\ aborted' = aborted
            /\ idleTimer' = FALSE \/ (~IsOpen(stream) /\ idleTimer' = idleTimer)
        <5>1. CASE IsOpen(stream)
          BY <2>2, <3>5, <5>1 DEF FirstListen
        <5>2. CASE ~IsOpen(stream)
          BY <2>2, <3>5, <5>2 DEF FirstListen, remote
        <5>3. QED
          BY <5>1, <5>2
      <4>2. QED
        BY <3>1, <3>2, <3>3, <4>1 DEF ClientInOrder, NeverAborts, OfflineAnswersFromCache, IsOpen
    <3>6. QED
      BY <3>4, <3>5
  <2>3. QED
    BY <1>3, <2>1, <2>2 DEF ListenTask
<1>4. ASSUME RemoveTask PROVE Safe'
  <2>1. CASE StopListening
    BY <1>4, <2>1 DEF RemoveTask, StopListening, NeverAborts, ClientInOrder, ViewsAreShown,
                      OfflineAnswersFromCache, Watching, NoView, UpdateState, IsOpen
  <2>2. CASE UNCHANGED <<view, tracker, idleTimer>> /\ listeners' \subseteq listeners
    BY <1>4, <2>2 DEF RemoveTask, NeverAborts, ClientInOrder, ViewsAreShown,
                      OfflineAnswersFromCache, Watching
  <2>3. QED
    BY <1>4, <2>1, <2>2 DEF RemoveTask
<1>5. ASSUME CredentialsArrive PROVE Safe'
  BY <1>5 DEF CredentialsArrive, Abort, local, NeverAborts, ClientInOrder, ViewsAreShown,
              OfflineAnswersFromCache, Watching, IsOpen, IsStarted, Typed, RemoteTypes
<1>6. ASSUME StreamFails PROVE Safe'
  <2>1. /\ IsOpen(stream)
        /\ idleTimer' = FALSE
        /\ listeners' = listeners
        /\ credentials' = credentials
    BY <1>6 DEF StreamFails, CloseWire, StartStreamFrom
  <2>2. CASE Watching
    <3> DEFINE failed == WatchStreamFailure(tracker)
    <3>1. /\ BecomeAndBroadcast(WatchStreamStart(failed))
          /\ stream' = "Backoff"
          /\ aborted' = (aborted \/ ~FailureAsserts(tracker) \/ ~StartAsserts(failed))
      BY <1>6, <2>2 DEF StreamFails, StartStreamFrom, Abort
    <3>2. WatchStreamStart(failed) \in TrackerStates
      BY TrackerTypes DEF Typed, RemoteTypes
    <3>3. ViewsAreShown' /\ OfflineAnswersFromCache'
      BY <2>1, <3>1, <3>2, BroadcastSafe
    <3>4. FailureAsserts(tracker)
      BY DEF FailureAsserts, ClientInOrder
    <3>5. tracker.failures \in Nat
      BY DEF Typed, RemoteTypes, TrackerStates
    <3>6. StartAsserts(failed)
      BY <3>4, <3>5 DEF StartAsserts, FailureAsserts, WatchStreamFailure, ClientInOrder,
                        Typed, RemoteTypes, TrackerStates
    <3>7. LET t == WatchStreamStart(failed)
          IN  /\ t.timer => t.state = "Unknown"
              /\ t.state = "Online" => t.failures = 0
      BY <3>5 DEF WatchStreamStart, WatchStreamFailure, ClientInOrder,
                  Typed, RemoteTypes, TrackerStates
    <3>8. tracker' = WatchStreamStart(failed)
      BY <3>1 DEF BecomeAndBroadcast
    <3>9. NeverAborts'
      BY <3>1, <3>4, <3>6 DEF NeverAborts
    <3>10. ClientInOrder'
      BY <2>1, <3>1, <3>7, <3>8 DEF ClientInOrder, IsStarted, IsOpen
    <3>11. QED
      BY <3>3, <3>9, <3>10
  <2>3. CASE ~Watching
    BY <1>6, <2>1, <2>3 DEF StreamFails, UpdateState, NeverAborts, ClientInOrder, ViewsAreShown,
                            OfflineAnswersFromCache, Watching, IsOpen, IsStarted
  <2>4. QED
    BY <2>2, <2>3
<1>7. ASSUME BackoffElapses PROVE Safe'
  BY <1>7 DEF BackoffElapses, local, NeverAborts, ClientInOrder, ViewsAreShown,
              OfflineAnswersFromCache, Watching, IsOpen, IsStarted
<1>8. ASSUME OnlineStateTimeout PROVE Safe'
  <2> DEFINE offline == [tracker EXCEPT !.state = "Offline", !.timer = FALSE]
  <2>1. offline \in TrackerStates /\ offline.state = "Offline" /\ offline.timer = FALSE
    BY DEF Typed, RemoteTypes, TrackerStates
  <2>2. BecomeAndBroadcast(offline) /\ listeners' = listeners /\ tracker' = offline
    BY <1>8 DEF OnlineStateTimeout, BecomeAndBroadcast
  <2>3. ViewsAreShown' /\ OfflineAnswersFromCache' /\ (Watching' <=> Watching)
    BY <2>1, <2>2, BroadcastSafe
  <2>4. NeverAborts'
    BY <1>8 DEF OnlineStateTimeout, Abort, NeverAborts, ClientInOrder
  <2>5. ClientInOrder'
    BY <1>8, <2>1, <2>2, <2>3 DEF OnlineStateTimeout, remote, ClientInOrder, IsOpen
  <2>6. QED
    BY <2>3, <2>4, <2>5
<1>9. ASSUME IdleTimeout PROVE Safe'
  BY <1>9 DEF IdleTimeout, CloseWire, Abort, local, UpdateState, NeverAborts, ClientInOrder,
              ViewsAreShown, OfflineAnswersFromCache, Watching, IsOpen, IsStarted
<1>10. ASSUME ConnectivityChanges PROVE Safe'
  BY <1>10 DEF ConnectivityChanges, CloseWire, local, UpdateState, WatchStreamStart, Invalidated,
               NeverAborts, ClientInOrder, ViewsAreShown, OfflineAnswersFromCache, Watching,
               IsOpen, IsStarted
<1>11. ASSUME OnWatchStreamChange PROVE Safe'
  <2>1. /\ tracker' = [state |-> "Online", failures |-> 0, timer |-> FALSE]
        /\ UNCHANGED <<stream, idleTimer, credentials, aborted, collection>>
    BY <1>11 DEF OnWatchStreamChange, UpdateState, server
  <2>2. NeverAborts' /\ OfflineAnswersFromCache'
    BY <2>1 DEF NeverAborts, OfflineAnswersFromCache
  <2>3. ASSUME ViewsAreShown', Watching' => Watching PROVE Safe'
    BY <2>1, <2>2, <2>3 DEF ClientInOrder, IsOpen
  <2>4. CASE UNCHANGED <<view, listeners>>
    BY <2>3, <2>4 DEF ViewsAreShown, Watching
  <2>5. CASE view' = NoView /\ listeners' = {}
    BY <2>3, <2>5 DEF ViewsAreShown, Watching
  <2>6. ASSUME NEW v, RaiseWatchSnapshot(v), listeners' = listeners PROVE Safe'
    <3> DEFINE c == IF IsActiveTarget THEN aggregator.current ELSE view.current
    <3>1. c \in BOOLEAN
      BY DEF Typed, LocalTypes, RemoteTypes
    <3>2. view' = IF Watching THEN [view EXCEPT !.current = c] ELSE view
      BY <2>6 DEF RaiseWatchSnapshot
    <3>3. CASE Watching
      <4>1. view.since \in Versions
        BY <3>3 DEF ViewsAreShown
      <4>2. view' # NoView /\ view'.since = view.since
        BY <3>1, <3>2, <3>3, <4>1, StillWatching DEF Typed
      <4>3. QED
        BY <2>3, <2>6, <3>3, <4>1, <4>2 DEF ViewsAreShown, Watching
    <3>4. CASE ~Watching
      BY <2>4, <2>6, <3>2, <3>4
    <3>5. QED
      BY <3>3, <3>4
  <2>7. CASE ProcessTargetError
    BY <2>4, <2>5, <2>7 DEF ProcessTargetError
  <2>8. QED
    BY <1>11, <2>4, <2>6, <2>7 DEF OnWatchStreamChange, local
<1>12. ASSUME ServerHandles \/ ServerPushes \/ CollectionChanges \/ UNCHANGED vars PROVE Safe'
  BY <1>12 DEF ServerHandles, ServerPushes, CollectionChanges, vars, local, remote, NeverAborts,
               ClientInOrder, ViewsAreShown, OfflineAnswersFromCache, Watching
<1>13. QED
  BY <1>1, <1>3, <1>4, <1>5, <1>6, <1>7, <1>8, <1>9, <1>10, <1>11, <1>12 DEF Next

LEMMA SafeAlways == Spec => [](Typed /\ Safe)
<1>1. Init => Typed /\ Safe
  BY InitTypes, InitSafe
<1>2. Typed /\ Safe /\ [Next]_vars => (Typed /\ Safe)'
  BY NextTypes, NextSafe
<1>3. QED
  BY <1>1, <1>2, PTL DEF Spec

\* No assertion of the client fails, however tasks, timers, stream failures,
\* network changes and late credentials interleave.
THEOREM ClientNeverAborts == Spec => []NeverAborts
BY SafeAlways, PTL DEF Safe

\* When the client is Offline nobody waits for a first event and no view
\* counts as synced.
THEOREM OfflineAnswers == Spec => []OfflineAnswersFromCache
BY SafeAlways, PTL DEF Safe

-----------------------------------------------------------------------------
(* The client implements OneShotRead.                                       *)

\* The listen task of g has not run yet.
Pending(g) == \E i \in DOMAIN worker : worker[i] = [task |-> "listen", get |-> g]

\* What can still happen to one read.  It goes through one listen task; an
\* error is the last event of its queue and finds it no longer a listener.
Once(g) ==
    /\ g \notin asked => events[g] = <<>> /\ answers[g] = <<>> /\ g \notin listeners /\ ~Pending(g)
    /\ Pending(g) => events[g] = <<>> /\ answers[g] = <<>> /\ g \notin listeners
    /\ answers[g] \in {<<>>, <<"documents">>, <<"error">>}
    /\ answers[g] = <<"error">> => events[g] = <<>> /\ g \notin listeners
    /\ \A i \in DOMAIN events[g] :
          events[g][i] = "error" => i = Len(events[g]) /\ g \notin listeners

\* No read has two listen tasks.
ListensOnce ==
    \A i, j \in DOMAIN worker :
        worker[i].task = "listen" /\ worker[j] = worker[i] => i = j

Answering == ListensOnce /\ \A g \in Gets : Once(g)

\* A task behind the others.
LEMMA OneMoreTask ==
    ASSUME ReadTypes, NEW t \in Tasks, worker' = Append(worker, t)
    PROVE  /\ \A g : Pending(g)' <=> Pending(g) \/ t = [task |-> "listen", get |-> g]
           /\ ListensOnce /\ (t.task = "listen" => ~Pending(t.get)) => ListensOnce'
<1> DEFINE n == Len(worker)
<1>1. worker \in Seq(Tasks) /\ n \in Nat /\ DOMAIN worker = 1 .. n
  BY DEF ReadTypes
<1>2. /\ DOMAIN worker' = 1 .. (n + 1)
      /\ \A i \in 1 .. n : worker'[i] = worker[i]
      /\ worker'[n + 1] = t
  BY <1>1
<1>3. \A g : Pending(g)' <=> Pending(g) \/ t = [task |-> "listen", get |-> g]
  BY <1>1, <1>2 DEF Pending
<1>4. ASSUME ListensOnce, t.task = "listen" => ~Pending(t.get) PROVE ListensOnce'
  <2> SUFFICES ASSUME NEW i \in 1 .. (n + 1), NEW j \in 1 .. (n + 1),
                      worker'[i].task = "listen", worker'[j] = worker'[i]
               PROVE  i = j
    BY <1>2 DEF ListensOnce
  <2>1. CASE i \in 1 .. n /\ j \in 1 .. n
    BY <1>1, <1>2, <1>4, <2>1 DEF ListensOnce
  <2>2. ASSUME NEW k \in 1 .. n, worker[k] = t, t.task = "listen" PROVE FALSE
    <3>1. t = [task |-> "listen", get |-> t.get]
      BY <2>2 DEF Tasks
    <3>2. QED
      BY <1>1, <1>4, <2>2, <3>1 DEF Pending
  <2>3. QED
    BY <1>1, <1>2, <2>1, <2>2
<1>5. QED
  BY <1>3, <1>4

\* The first task is taken.
LEMMA OneTaskLess ==
    ASSUME ReadTypes, worker # <<>>, worker' = Tail(worker)
    PROVE  /\ \A g : Pending(g)' => Pending(g)
           /\ ListensOnce => ListensOnce'
           /\ ListensOnce /\ Head(worker).task = "listen"
                  => \A g : Pending(g)' => g # Head(worker).get
<1> DEFINE n == Len(worker)
<1>1. worker \in Seq(Tasks) /\ n \in Nat /\ n > 0 /\ DOMAIN worker = 1 .. n
  BY DEF ReadTypes
<1>2. /\ DOMAIN worker' = 1 .. (n - 1)
      /\ \A i \in 1 .. (n - 1) : worker'[i] = worker[i + 1]
      /\ Head(worker) = worker[1]
  BY <1>1
<1>3. \A g : Pending(g)' => Pending(g)
  BY <1>1, <1>2 DEF Pending
<1>4. ListensOnce => ListensOnce'
  BY <1>1, <1>2 DEF ListensOnce
<1>5. ASSUME ListensOnce, Head(worker).task = "listen", NEW g, Pending(g)', g = Head(worker).get
      PROVE  FALSE
  <2>1. worker[1] \in Tasks
    BY <1>1
  <2>2. worker[1] = [task |-> "listen", get |-> worker[1].get]
    BY <1>2, <1>5, <2>1 DEF Tasks
  <2>3. PICK i \in 1 .. (n - 1) : worker'[i] = worker[1]
    BY <1>2, <1>5, <2>2 DEF Pending
  <2>4. worker[i + 1] = worker[1] /\ i + 1 \in 1 .. n /\ 1 \in 1 .. n
    BY <1>1, <1>2, <2>3
  <2>5. QED
    BY <1>1, <1>2, <1>5, <2>4 DEF ListensOnce
<1>6. QED
  BY <1>3, <1>4, <1>5

LEMMA InitAnswering == Init => Answering
BY DEF Init, Answering, ListensOnce, Once, Pending

\* A step that leaves the tasks and the answers alone and adds at most one
\* event to the queue of a listener.
LEMMA AnsweringEvents ==
    ASSUME ReadTypes, LocalTypes, Answering,
           asked' = asked, answers' = answers, worker' = worker,
           \A g \in Gets : \/ events'[g] = events[g] /\ (g \in listeners' => g \in listeners)
                           \/ /\ g \in listeners
                              /\ events'[g] = Append(events[g], "documents")
                              /\ (g \in listeners' => g \in listeners)
                           \/ /\ g \in listeners
                              /\ events'[g] = Append(events[g], "error")
                              /\ g \notin listeners'
    PROVE  Answering'
<1>1. ListensOnce'
  BY DEF Answering, ListensOnce
<1>2. ASSUME NEW g \in Gets PROVE Once(g)'
  <2>1. events[g] \in Seq(Results) /\ Once(g)
    BY <1>2 DEF ReadTypes, Answering
  <2>2. Pending(g)' <=> Pending(g)
    BY DEF Pending
  <2>3. CASE events'[g] = events[g] /\ (g \in listeners' => g \in listeners)
    BY <2>1, <2>2, <2>3 DEF Once
  <2>4. ASSUME NEW r \in Results, g \in listeners, events'[g] = Append(events[g], r),
               g \in listeners' => r # "error"
        PROVE  Once(g)'
    <3>1. g \in asked /\ ~Pending(g) /\ answers[g] # <<"error">>
      BY <2>1, <2>4 DEF Once
    <3>2. \A i \in DOMAIN events[g] : events[g][i] # "error"
      BY <2>1, <2>4 DEF Once
    <3>3. \A i \in DOMAIN events'[g] :
              events'[g][i] = "error" => i = Len(events'[g]) /\ r = "error"
      BY <2>1, <2>4, <3>2
    <3>4. QED
      BY <2>1, <2>2, <2>4, <3>1, <3>3 DEF Once
  <2>5. QED
    BY <2>3, <2>4 DEF Results
<1>3. QED
  BY <1>1, <1>2 DEF Answering

LEMMA NextAnswering == Typed /\ Answering /\ [Next]_vars => Answering'
<1> SUFFICES ASSUME Typed, Answering, [Next]_vars PROVE Answering'
  OBVIOUS
<1> USE DEF Typed
<1>1. ASSUME NEW g \in Gets, GetDocuments(g) PROVE Answering'
  <2> DEFINE t == [task |-> "listen", get |-> g]
  <2>1. /\ t \in Tasks /\ worker' = Append(worker, t) /\ asked' = asked \cup {g} /\ g \notin asked
        /\ UNCHANGED <<answers, events, listeners>>
    BY <1>1 DEF GetDocuments, Tasks, local
  <2>2. Once(g)
    BY DEF Answering
  <2>3. /\ \A h : Pending(h)' <=> Pending(h) \/ h = g
        /\ ListensOnce'
    BY <2>1, <2>2, OneMoreTask DEF Answering, Once
  <2>4. ASSUME NEW h \in Gets PROVE Once(h)'
    <3>1. Once(h)
      BY DEF Answering
    <3>2. CASE h = g
      BY <2>1, <2>2, <3>2 DEF Once
    <3>3. CASE h # g
      BY <2>1, <2>3, <3>1, <3>3 DEF Once
    <3>4. QED
      BY <3>2, <3>3
  <2>5. QED
    BY <2>3, <2>4 DEF Answering
<1>2. ASSUME NEW g \in Gets, OnEvent(g) PROVE Answering'
  <2>1. Once(g) /\ events[g] \in Seq(Results) /\ events[g] # <<>>
    BY <1>2 DEF Answering, OnEvent, ReadTypes
  <2>2. Head(events[g]) \in Results /\ Tail(events[g]) \in Seq(Results)
    BY <2>1, Taking
  <2>3. UNCHANGED <<asked, listeners>> /\ events' = [events EXCEPT ![g] = Tail(@)]
    BY <1>2 DEF OnEvent, local
  <2>4. \/ worker' = worker
        \/ worker' = Append(worker, [task |-> "remove", get |-> g])
    BY <1>2 DEF OnEvent
  <2>5. (\A h : Pending(h)' <=> Pending(h)) /\ ListensOnce'
    <3>1. CASE worker' = worker
      BY <3>1 DEF Answering, ListensOnce, Pending
    <3>2. CASE worker' = Append(worker, [task |-> "remove", get |-> g])
      <4>1. [task |-> "remove", get |-> g] \in Tasks
        BY DEF Tasks
      <4>2. QED
        BY <3>2, <4>1, OneMoreTask DEF Answering
    <3>3. QED
      BY <2>4, <3>1, <3>2
  <2>6. answers[g] # <<"error">>
    BY <2>1 DEF Once
  <2>7. \/ answers' = answers
        \/ answers[g] = <<>> /\ answers' = [answers EXCEPT ![g] = <<Head(events[g])>>]
    <3>1. answers[g] = <<>> \/ answers[g] = <<"documents">>
      BY <2>1, <2>6 DEF Once
    <3>2. CASE answers[g] = <<"documents">>
      BY <1>2, <3>2 DEF OnEvent, Muted
    <3>3. CASE answers[g] = <<>>
      BY <1>2, <3>3 DEF OnEvent, ReadTypes
    <3>4. QED
      BY <3>1, <3>2, <3>3
  <2>8. Once(g)'
    <3>1. events'[g] = Tail(events[g]) /\ Len(events'[g]) = Len(events[g]) - 1
      BY <2>1, <2>3 DEF ReadTypes
    <3>2. \A i \in DOMAIN events'[g] : events'[g][i] = events[g][i + 1] /\ i + 1 \in DOMAIN events[g]
      BY <2>1, <3>1
    <3>3. \A i \in DOMAIN events'[g] :
              events'[g][i] = "error" => i = Len(events'[g]) /\ g \notin listeners
      <4>1. SUFFICES ASSUME NEW i \in DOMAIN events'[g], events'[g][i] = "error"
                     PROVE  i = Len(events'[g]) /\ g \notin listeners
        OBVIOUS
      <4>2. i \in Int
        BY <2>1, <3>1
      <4>3. i + 1 = Len(events[g]) /\ g \notin listeners
        BY <2>1, <3>2, <4>1 DEF Once
      <4>4. QED
        BY <2>1, <3>1, <4>2, <4>3
    <3>4. Head(events[g]) = "error" => events'[g] = <<>> /\ g \notin listeners
      BY <2>1, <3>1 DEF Once
    <3>5. g \in asked /\ ~Pending(g)
      BY <2>1 DEF Once
    <3>6. answers'[g] \in {<<>>, <<"documents">>, <<"error">>}
      BY <2>1, <2>2, <2>7 DEF Once, ReadTypes, Results
    <3>7. answers'[g] = <<"error">> => events'[g] = <<>> /\ g \notin listeners
      BY <2>2, <2>6, <2>7, <3>4 DEF ReadTypes, Results
    <3>8. QED
      BY <2>3, <2>5, <3>3, <3>5, <3>6, <3>7 DEF Once
  <2>9. ASSUME NEW h \in Gets, h # g PROVE Once(h)'
    <3>1. Once(h) /\ answers'[h] = answers[h] /\ events'[h] = events[h]
      BY <2>3, <2>7, <2>9 DEF Answering, ReadTypes
    <3>2. QED
      BY <2>3, <2>5, <3>1 DEF Once
  <2>10. QED
    BY <2>5, <2>8, <2>9 DEF Answering
<1>3. ASSUME ListenTask PROVE Answering'
  <2> DEFINE g == Head(worker).get
  <2>1. /\ worker # <<>> /\ worker' = Tail(worker) /\ Head(worker).task = "listen"
        /\ asked' = asked /\ answers' = answers
    BY <1>3 DEF ListenTask
  <2>2. Head(worker) \in Tasks
    BY <2>1, Taking DEF ReadTypes
  <2>3. Head(worker) = [task |-> "listen", get |-> g] /\ g \in Gets
    BY <2>1, <2>2 DEF Tasks
  <2>4. Pending(g)
    <3>1. 1 \in DOMAIN worker /\ worker[1] = Head(worker)
      BY <2>1 DEF ReadTypes
    <3>2. QED
      BY <2>3, <3>1 DEF Pending
  <2>5. Once(g) /\ events[g] = <<>> /\ answers[g] = <<>> /\ g \in asked
    BY <2>3, <2>4 DEF Answering, Once
  <2>6. /\ \A h : Pending(h)' => Pending(h) /\ h # g
        /\ ListensOnce'
    BY <2>1, OneTaskLess DEF Answering
  <2>7. ~Watching => FirstListen(g)
    BY <1>3 DEF ListenTask, JoinView
  <2>8. \/ events' = events
        \/ events' = Queued({g}, "documents")
    BY <1>3 DEF ListenTask, JoinView, FirstListen, Raise
  <2>9. listeners' \subseteq listeners \cup {g}
    BY <1>3 DEF ListenTask, JoinView, FirstListen
  <2>10. ASSUME NEW h \in Gets PROVE Once(h)'
    <3>1. CASE h = g
      <4>1. events'[g] = <<>> \/ events'[g] = <<"documents">>
        BY <2>3, <2>5, <2>8 DEF Queued
      <4>2. QED
        BY <2>1, <2>5, <2>6, <3>1, <4>1 DEF Once
    <3>2. CASE h # g
      <4>1. events'[h] = events[h] /\ Once(h)
        BY <2>8, <3>2 DEF Queued, Answering
      <4>2. QED
        BY <2>1, <2>6, <2>9, <3>2, <4>1 DEF Once
    <3>3. QED
      BY <3>1, <3>2
  <2>11. QED
    BY <2>6, <2>10 DEF Answering
<1>4. ASSUME RemoveTask PROVE Answering'
  <2>1. /\ worker # <<>> /\ worker' = Tail(worker) /\ UNCHANGED <<asked, answers, events>>
        /\ listeners' \subseteq listeners
    BY <1>4 DEF RemoveTask, StopListening, main
  <2>2. (\A h : Pending(h)' => Pending(h)) /\ ListensOnce'
    BY <2>1, OneTaskLess DEF Answering
  <2>3. ASSUME NEW h \in Gets PROVE Once(h)'
    <3>1. Once(h)
      BY DEF Answering
    <3>2. QED
      BY <2>1, <2>2, <3>1 DEF Once
  <2>4. QED
    BY <2>2, <2>3 DEF Answering
<1>5. ASSUME UNCHANGED <<main, worker, listeners>> PROVE Answering'
  BY <1>5, AnsweringEvents DEF main
<1>6. ASSUME NEW t, BecomeAndBroadcast(t), UNCHANGED <<asked, answers, worker, listeners>>
      PROVE  Answering'
  <2>1. PICK gs : gs \subseteq listeners /\ (events' = events \/ events' = Queued(gs, "documents"))
    BY <1>6 DEF BecomeAndBroadcast, Raise
  <2>2. QED
    BY <1>6, <2>1, AnsweringEvents DEF Queued
<1>7. ASSUME StreamFails PROVE Answering'
  <2>1. CASE Watching
    BY <1>6, <1>7, <2>1 DEF StreamFails
  <2>2. CASE ~Watching
    BY <1>5, <1>7, <2>2 DEF StreamFails, main
  <2>3. QED
    BY <2>1, <2>2
<1>8. ASSUME OnlineStateTimeout PROVE Answering'
  BY <1>6, <1>8 DEF OnlineStateTimeout
<1>9. ASSUME OnWatchStreamChange PROVE Answering'
  <2>1. UNCHANGED <<asked, answers, worker>>
    BY <1>9 DEF OnWatchStreamChange
  <2>2. CASE UNCHANGED <<events, listeners>>
    BY <1>5, <2>1, <2>2 DEF main
  <2>3. ASSUME NEW v, RaiseWatchSnapshot(v), listeners' = listeners PROVE Answering'
    <3>1. PICK gs : gs \subseteq listeners /\ (events' = events \/ events' = Queued(gs, "documents"))
      BY <2>3 DEF RaiseWatchSnapshot, Raise, Hearing
    <3>2. QED
      BY <2>1, <2>3, <3>1, AnsweringEvents DEF Queued
  <2>4. CASE ProcessTargetError /\ Watching
    <3>1. events' = Queued(listeners, "error") /\ listeners' = {}
      BY <2>4 DEF ProcessTargetError
    <3>2. QED
      BY <2>1, <3>1, AnsweringEvents DEF Queued
  <2>5. QED
    BY <1>9, <2>2, <2>3, <2>4 DEF OnWatchStreamChange, ProcessTargetError, local
<1>10. QED
  BY <1>1, <1>2, <1>3, <1>4, <1>5, <1>7, <1>8, <1>9
     DEF Next, vars, local, CredentialsArrive, BackoffElapses, IdleTimeout, ConnectivityChanges,
         ServerHandles, ServerPushes, CollectionChanges

\* A read is answered at most once, and only if it was asked for: every step
\* of the client is one of OneShotRead or leaves asked and answers alone.
THEOREM FirestoreReadsOnce == Spec => ImplementsOneShotRead
<1> USE DEF Read!readVars
<1>1. Init => Read!ReadInit
  BY DEF Init, Read!ReadInit
<1>2. Typed /\ Answering /\ [Next]_vars => [Read!ReadNext]_<<asked, answers>>
  <2> SUFFICES ASSUME Typed, Answering, [Next]_vars
               PROVE  Read!ReadNext \/ UNCHANGED <<asked, answers>>
    OBVIOUS
  <2>1. ASSUME NEW g \in Gets, GetDocuments(g) PROVE Read!ReadNext
    BY <2>1 DEF GetDocuments, Read!ReadNext, Read!Ask
  <2>2. ASSUME NEW g \in Gets, OnEvent(g) PROVE Read!ReadNext \/ UNCHANGED <<asked, answers>>
    <3>1. Once(g) /\ events[g] \in Seq(Results) /\ events[g] # <<>> /\ asked' = asked
      BY <2>2 DEF Answering, OnEvent, Typed, ReadTypes
    <3>2. Head(events[g]) \in Results
      BY <3>1, Taking
    <3>3. answers[g] = <<>> \/ answers[g] = <<"documents">>
      BY <3>1 DEF Once
    <3>4. CASE answers[g] = <<"documents">>
      BY <2>2, <3>1, <3>4 DEF OnEvent, Muted
    <3>5. CASE answers[g] = <<>>
      <4>1. answers' = [answers EXCEPT ![g] = <<Head(events[g])>>]
        BY <2>2, <3>5 DEF OnEvent, Muted, Typed, ReadTypes
      <4>2. g \in asked
        BY <3>1 DEF Once
      <4>3. QED
        BY <3>1, <3>2, <3>5, <4>1, <4>2
           DEF Read!ReadNext, Read!Answer, Read!Results, Results
    <3>6. QED
      BY <3>3, <3>4, <3>5
  <2>3. QED
    BY <2>1, <2>2
       DEF Next, vars, main, ListenTask, RemoveTask, CredentialsArrive, StreamFails, BackoffElapses,
           OnlineStateTimeout, IdleTimeout, ConnectivityChanges, OnWatchStreamChange,
           ServerHandles, ServerPushes, CollectionChanges
<1>3. Init => Typed /\ Answering
  BY InitTypes, InitAnswering
<1>4. Typed /\ Answering /\ [Next]_vars => (Typed /\ Answering)'
  BY NextTypes, NextAnswering
<1>5. QED
  BY <1>1, <1>2, <1>3, <1>4, PTL DEF Spec, ImplementsOneShotRead, Read!ReadSpec

-----------------------------------------------------------------------------
(* Nothing stays behind.                                                    *)

\* The removal of g is on its way to the worker.
Leaves(g) == \E i \in DOMAIN worker : worker[i] = [task |-> "remove", get |-> g]

\* A view has listeners, and a listener that got its answer is about to go.
Leaving ==
    /\ Watching => listeners # {}
    /\ \A g \in listeners : answers[g] = <<>> \/ Leaves(g)

\* A task behind the others leaves them there.
LEMMA LeavesBehind ==
    ASSUME ReadTypes, NEW t \in Tasks, worker' = Append(worker, t)
    PROVE  \A g : Leaves(g) \/ t = [task |-> "remove", get |-> g] => Leaves(g)'
<1> DEFINE n == Len(worker)
<1>1. worker \in Seq(Tasks) /\ n \in Nat /\ DOMAIN worker = 1 .. n
  BY DEF ReadTypes
<1>2. /\ DOMAIN worker' = 1 .. (n + 1)
      /\ \A i \in 1 .. n : worker'[i] = worker[i]
      /\ worker'[n + 1] = t
  BY <1>1
<1>3. QED
  BY <1>1, <1>2 DEF Leaves

\* Taking the first task leaves the others there.
LEMMA LeavesAhead ==
    ASSUME ReadTypes, worker # <<>>, worker' = Tail(worker),
           NEW g, Leaves(g), Head(worker) # [task |-> "remove", get |-> g]
    PROVE  Leaves(g)'
<1> DEFINE n == Len(worker)
<1>1. worker \in Seq(Tasks) /\ n \in Nat /\ n > 0 /\ DOMAIN worker = 1 .. n
  BY DEF ReadTypes
<1>2. /\ DOMAIN worker' = 1 .. (n - 1)
      /\ \A i \in 1 .. (n - 1) : worker'[i] = worker[i + 1]
      /\ Head(worker) = worker[1]
  BY <1>1
<1>3. PICK i \in 1 .. n : worker[i] = [task |-> "remove", get |-> g]
  BY <1>1 DEF Leaves
<1>4. i - 1 \in 1 .. (n - 1) /\ worker'[i - 1] = worker[i]
  <2>1. i # 1
    BY <1>2, <1>3
  <2>2. i - 1 \in 1 .. (n - 1) /\ (i - 1) + 1 = i
    BY <1>1, <2>1
  <2>3. QED
    BY <1>2, <2>2
<1>5. QED
  BY <1>2, <1>3, <1>4 DEF Leaves

LEMMA NextLeaving == Typed /\ Safe /\ Answering /\ Leaving /\ [Next]_vars => Leaving'
<1> SUFFICES ASSUME Typed, Safe, Answering, Leaving, [Next]_vars PROVE Leaving'
  OBVIOUS
<1> USE DEF Typed
<1>1. ASSUME UNCHANGED <<answers, worker, listeners>>, Watching' => Watching PROVE Leaving'
  BY <1>1 DEF Leaving, Leaves
<1>2. ASSUME UNCHANGED <<answers, worker, listeners, view>> PROVE Leaving'
  BY <1>1, <1>2 DEF Watching
<1>3. ASSUME NEW g \in Gets, GetDocuments(g) PROVE Leaving'
  <2>1. /\ worker' = Append(worker, [task |-> "listen", get |-> g])
        /\ UNCHANGED <<answers, listeners, view>>
    BY <1>3 DEF GetDocuments, local
  <2>2. [task |-> "listen", get |-> g] \in Tasks
    BY DEF Tasks
  <2>3. \A h : Leaves(h) => Leaves(h)'
    BY <2>1, <2>2, LeavesBehind
  <2>4. QED
    BY <2>1, <2>3 DEF Leaving, Watching
<1>4. ASSUME NEW g \in Gets, OnEvent(g) PROVE Leaving'
  <2> DEFINE t == [task |-> "remove", get |-> g]
  <2>1. UNCHANGED <<listeners, view>> /\ events[g] \in Seq(Results) /\ events[g] # <<>>
    BY <1>4 DEF OnEvent, local, ReadTypes
  <2>2. CASE Muted(g)
    BY <1>2, <1>4, <2>1, <2>2 DEF OnEvent
  <2>3. CASE ~Muted(g)
    <3>1. /\ answers' = [answers EXCEPT ![g] = Append(@, Head(events[g]))]
          /\ worker' = IF Head(events[g]) = "error" THEN worker ELSE Append(worker, t)
      BY <1>4, <2>3 DEF OnEvent
    <3>2. \A h \in Gets : h # g => answers'[h] = answers[h]
      BY <3>1 DEF ReadTypes
    <3>3. \A h \in Gets : Leaves(h) => Leaves(h)'
      <4>1. CASE worker' = worker
        BY <4>1 DEF Leaves
      <4>2. CASE worker' = Append(worker, t)
        BY <4>2, LeavesBehind DEF Tasks
      <4>3. QED
        BY <3>1, <4>1, <4>2
    <3>4. g \in listeners => Leaves(g)'
      <4>1. CASE Head(events[g]) = "error"
        <5>1. 1 \in DOMAIN events[g] /\ events[g][1] = "error"
          BY <2>1, <4>1
        <5>2. g \notin listeners
          BY <5>1 DEF Answering, Once
        <5>3. QED
          BY <5>2
      <4>2. CASE Head(events[g]) # "error"
        <5>1. worker' = Append(worker, t) /\ t \in Tasks
          BY <3>1, <4>2 DEF Tasks
        <5>2. QED
          BY <5>1, LeavesBehind
      <4>3. QED
        BY <4>1, <4>2
    <3>5. QED
      BY <2>1, <3>2, <3>3, <3>4 DEF Leaving, Watching, LocalTypes
  <2>4. QED
    BY <2>2, <2>3
<1>5. ASSUME ListenTask PROVE Leaving'
  <2> DEFINE g == Head(worker).get
  <2>1. /\ worker # <<>> /\ worker' = Tail(worker) /\ Head(worker).task = "listen"
        /\ answers' = answers
        /\ listeners' = listeners \cup {g} \/ listeners' = {g}
    BY <1>5 DEF ListenTask, JoinView, FirstListen
  <2>2. Head(worker) \in Tasks
    BY <2>1, Taking DEF ReadTypes
  <2>3. Head(worker) = [task |-> "listen", get |-> g] /\ g \in Gets
    BY <2>1, <2>2 DEF Tasks
  <2>4. answers[g] = <<>>
    <3>1. 1 \in DOMAIN worker /\ worker[1] = Head(worker)
      BY <2>1 DEF ReadTypes
    <3>2. Pending(g)
      BY <2>3, <3>1 DEF Pending
    <3>3. QED
      BY <2>3, <3>2 DEF Answering, Once
  <2>5. \A h : Leaves(h) => Leaves(h)'
    <3>1. \A h : Head(worker) # [task |-> "remove", get |-> h]
      BY <2>1
    <3>2. QED
      BY <2>1, <3>1, LeavesAhead
  <2>6. QED
    BY <2>1, <2>4, <2>5 DEF Leaving
<1>6. ASSUME RemoveTask PROVE Leaving'
  <2> DEFINE g == Head(worker).get
  <2>1. /\ worker # <<>> /\ worker' = Tail(worker) /\ answers' = answers
    BY <1>6 DEF RemoveTask, main
  <2>2. listeners' = listeners \ {g} \/ listeners' = {}
    BY <1>6 DEF RemoveTask, StopListening
  <2>3. Watching' => listeners' # {}
    <3>1. CASE Watching /\ listeners \ {g} = {}
      BY <1>6, <3>1 DEF RemoveTask, StopListening, Watching
    <3>2. CASE ~(Watching /\ listeners \ {g} = {})
      BY <1>6, <3>2 DEF RemoveTask, Watching
    <3>3. QED
      BY <3>1, <3>2
  <2>4. ASSUME NEW h \in listeners' PROVE answers'[h] = <<>> \/ Leaves(h)'
    <3>1. h \in listeners /\ h # g
      BY <2>2, <2>4
    <3>2. Head(worker) # [task |-> "remove", get |-> h]
      BY <3>1
    <3>3. Leaves(h) => Leaves(h)'
      BY <2>1, <3>2, LeavesAhead
    <3>4. QED
      BY <2>1, <3>1, <3>3 DEF Leaving
  <2>5. QED
    BY <2>3, <2>4 DEF Leaving
<1>7. ASSUME NEW t \in TrackerStates, BecomeAndBroadcast(t), UNCHANGED <<answers, worker, listeners>>
      PROVE  Leaving'
  BY <1>1, <1>7, BroadcastSafe
<1>8. ASSUME StreamFails PROVE Leaving'
  <2>1. UNCHANGED <<answers, worker, listeners>>
    BY <1>8 DEF StreamFails
  <2>2. CASE Watching
    <3>1. WatchStreamStart(WatchStreamFailure(tracker)) \in TrackerStates
      BY TrackerTypes DEF RemoteTypes
    <3>2. BecomeAndBroadcast(WatchStreamStart(WatchStreamFailure(tracker)))
      BY <1>8, <2>2 DEF StreamFails
    <3>3. QED
      BY <1>7, <2>1, <3>1, <3>2
  <2>3. CASE ~Watching
    BY <1>2, <1>8, <2>1, <2>3 DEF StreamFails
  <2>4. QED
    BY <2>2, <2>3
<1>9. ASSUME OnlineStateTimeout PROVE Leaving'
  <2>1. [tracker EXCEPT !.state = "Offline", !.timer = FALSE] \in TrackerStates
    BY DEF RemoteTypes, TrackerStates
  <2>2. QED
    BY <1>7, <1>9, <2>1 DEF OnlineStateTimeout
<1>10. ASSUME OnWatchStreamChange PROVE Leaving'
  <2>1. UNCHANGED <<answers, worker>>
    BY <1>10 DEF OnWatchStreamChange
  <2>2. CASE UNCHANGED local
    BY <1>2, <2>1, <2>2 DEF local
  <2>3. ASSUME NEW v, RaiseWatchSnapshot(v), listeners' = listeners PROVE Leaving'
    <3>1. Watching' => Watching
      BY <2>3 DEF RaiseWatchSnapshot, Watching
    <3>2. QED
      BY <1>1, <2>1, <2>3, <3>1
  <2>4. CASE ProcessTargetError /\ Watching
    BY <2>4 DEF ProcessTargetError, Leaving, Watching
  <2>5. CASE ProcessTargetError /\ ~Watching
    BY <1>2, <2>1, <2>5 DEF ProcessTargetError
  <2>6. QED
    BY <1>10, <2>2, <2>3, <2>4, <2>5 DEF OnWatchStreamChange
<1>11. QED
  BY <1>2, <1>3, <1>4, <1>5, <1>6, <1>8, <1>9, <1>10
     DEF Next, vars, main, local, CredentialsArrive, BackoffElapses, IdleTimeout,
         ConnectivityChanges, ServerHandles, ServerPushes, CollectionChanges

\* When every read was answered and the queues are empty, no listener, view
\* or target is left: each answer sent the removal of its listener after it,
\* and the last one to go took the view along.
THEOREM NothingStaysBehind == Spec => []NothingLeftListening
<1>1. Init => Leaving
  BY DEF Init, Leaving, Watching
<1>2. Init => Typed /\ Safe /\ Answering
  BY InitTypes, InitSafe, InitAnswering
<1>3. Typed /\ Safe /\ Answering /\ Leaving /\ [Next]_vars => (Typed /\ Safe /\ Answering /\ Leaving)'
  BY NextTypes, NextSafe, NextAnswering, NextLeaving
<1>4. Typed /\ Answering /\ Leaving => NothingLeftListening
  <2> SUFFICES ASSUME Typed, Answering, Leaving, worker = <<>>,
                      \A g \in asked : answers[g] # <<>>
               PROVE  listeners = {} /\ ~Watching
    BY DEF NothingLeftListening
  <2>1. ASSUME NEW g \in listeners PROVE FALSE
    <3>1. g \in asked
      BY <2>1 DEF Answering, Once, Typed, LocalTypes
    <3>2. ~Leaves(g)
      BY DEF Leaves
    <3>3. QED
      BY <2>1, <3>1, <3>2 DEF Leaving
  <2>2. QED
    BY <2>1 DEF Leaving
<1>5. QED
  BY <1>1, <1>2, <1>3, <1>4, PTL DEF Spec

-----------------------------------------------------------------------------
(* A synced view is fresh.                                                  *)

\* The answer to one request of the client.
IsAck(m) == m.kind \in {"added", "removed"}

\* Where the answers still to be read are.
Acks(q) == {i \in DOMAIN q : IsAck(q[i])}

\* The version of the documents received, whether in the cache yet or not.
Seen == IF aggregator.docs = None THEN cache ELSE aggregator.docs

\* Every request will have been answered when message i is read.
Live(i) ==
    /\ toServer = <<>>
    /\ \A j \in DOMAIN toClient : j >= i => ~IsAck(toClient[j])

\* Only an open stream carries anything.
StreamOwnsWire == ~IsOpen(stream) => toServer = <<>> /\ toClient = <<>> /\ served = None

\* A server that refuses the target says nothing else about it.
ServedOrRefused ==
    /\ \A i \in DOMAIN toClient : toClient[i].kind = "rejected" <=> denied
    /\ denied => served = None /\ ~view.current

\* Nothing is known of versions to come.
UpToNow == view.since <= collection /\ cache <= collection /\ Seen <= collection

\* Documents arrive in the order of their versions.
DocsInOrder ==
    \A i \in DOMAIN toClient : toClient[i].kind = "docs" =>
        /\ Seen <= toClient[i].version
        /\ toClient[i].version <= collection
        /\ \A j \in DOMAIN toClient :
              i <= j /\ toClient[j].kind = "docs" => toClient[i].version <= toClient[j].version

\* What the client asks to resume from it has.
TokenIsBehind ==
    /\ token <= cache /\ token <= Seen
    /\ \A i \in DOMAIN toServer : toServer[i].kind = "watch" => toServer[i].from <= Seen

\* No request is taken for answered that is not.
AllCounted == aggregator.outstanding >= Len(toServer) + Cardinality(Acks(toClient))

\* A snapshot that will count for the view is no older than the view, and the
\* documents it stands for were received or come before it.
Vouched(i) ==
    /\ toClient[i].version >= view.since
    /\ \/ Seen >= toClient[i].version
       \/ \E j \in 1 .. (i - 1) : /\ Live(j)
                                  /\ toClient[j].kind = "docs"
                                  /\ toClient[j].version >= toClient[i].version

SnapshotsVouched ==
    Watching /\ aggregator.outstanding = Len(toServer) + Cardinality(Acks(toClient))
        => \A i \in DOMAIN toClient : toClient[i].kind = "snapshot" /\ Live(i) => Vouched(i)

SyncedHasSeen == view.current => cache >= view.since /\ Seen >= view.since

\* What makes a synced view fresh, if the server serves at all.
Fresh ==
    /\ StreamOwnsWire
    /\ ServedOrRefused
    /\ denied \/ /\ UpToNow /\ DocsInOrder /\ TokenIsBehind
                 /\ AllCounted /\ SnapshotsVouched /\ SyncedHasSeen

\* The numbers the parts compare.
LEMMA Numbers ==
    ASSUME Typed
    PROVE  /\ {collection, cache, token, view.since, Seen} \subseteq Nat
           /\ aggregator.outstanding \in Int
           /\ Len(toServer) \in Nat
           /\ \A i \in DOMAIN toClient : toClient[i].version \in Nat
           /\ \A i \in DOMAIN toServer : toServer[i].from \in Nat
<1>1. Versions \cup {None} \subseteq Nat
  BY DEF Versions, None
<1>2. {collection, cache, token, view.since, Seen} \subseteq Nat
  BY <1>1 DEF Typed, LocalTypes, RemoteTypes, WireTypes, Seen
<1>3. aggregator.outstanding \in Int
  BY DEF Typed, RemoteTypes
<1>4. toServer \in Seq(Requests) /\ toClient \in Seq(Messages)
  BY DEF Typed, WireTypes
<1>5. \A i \in DOMAIN toClient : toClient[i] \in Messages
  BY <1>4
<1>6. \A i \in DOMAIN toServer : toServer[i] \in Requests
  BY <1>4
<1>7. QED
  BY <1>1, <1>2, <1>3, <1>4, <1>5, <1>6 DEF Messages, Requests

\* The answers in a queue can be counted.
LEMMA AcksCount ==
    ASSUME NEW q \in Seq(Messages)
    PROVE  /\ IsFiniteSet(Acks(q))
           /\ Cardinality(Acks(q)) \in Nat
           /\ Cardinality(Acks(q)) = 0 <=> \A i \in DOMAIN q : ~IsAck(q[i])
<1>1. DOMAIN q = 1 .. Len(q) /\ Len(q) \in Nat
  OBVIOUS
<1>2. IsFiniteSet(1 .. Len(q)) /\ Acks(q) \in SUBSET (1 .. Len(q))
  BY <1>1, FS_Interval DEF Acks
<1>3. IsFiniteSet(Acks(q))
  BY <1>2, FS_Subset
<1>4. Cardinality(Acks(q)) \in Nat
  BY <1>3, FS_CardinalityType
<1>5. Cardinality(Acks(q)) = 0 <=> Acks(q) = {}
  BY <1>3, FS_EmptySet
<1>6. QED
  BY <1>3, <1>4, <1>5 DEF Acks

\* Reading a message reads at most one answer.
LEMMA AcksTaken ==
    ASSUME NEW q \in Seq(Messages), q # <<>>
    PROVE  Cardinality(Acks(Tail(q))) =
               Cardinality(Acks(q)) - IF IsAck(Head(q)) THEN 1 ELSE 0
<1> DEFINE n == Len(q)
           S == Acks(q) \ {1}
           T == Acks(Tail(q))
           f == [i \in S |-> i - 1]
<1>1. n \in Nat /\ n > 0 /\ DOMAIN q = 1 .. n /\ Head(q) = q[1]
  OBVIOUS
<1>2. DOMAIN Tail(q) = 1 .. (n - 1) /\ \A i \in 1 .. (n - 1) : Tail(q)[i] = q[i + 1]
  BY <1>1
<1>3. \A i \in S : i \in 2 .. n /\ i - 1 \in T
  <2> SUFFICES ASSUME NEW i \in S PROVE i \in 2 .. n /\ i - 1 \in T
    OBVIOUS
  <2>1. i \in 2 .. n /\ IsAck(q[i])
    BY <1>1 DEF Acks
  <2>2. i - 1 \in 1 .. (n - 1) /\ (i - 1) + 1 = i
    BY <1>1, <2>1
  <2>3. QED
    BY <1>2, <2>1, <2>2 DEF Acks
<1>4. \A k \in T : k + 1 \in S /\ (k + 1) - 1 = k
  <2> SUFFICES ASSUME NEW k \in T PROVE k + 1 \in S /\ (k + 1) - 1 = k
    OBVIOUS
  <2>1. k \in 1 .. (n - 1) /\ IsAck(q[k + 1])
    BY <1>2 DEF Acks
  <2>2. k + 1 \in 1 .. n /\ k + 1 # 1 /\ (k + 1) - 1 = k
    BY <1>1, <2>1
  <2>3. QED
    BY <1>1, <2>1, <2>2 DEF Acks
<1>5. f \in Bijection(S, T)
  <2>1. f \in [S -> T]
    BY <1>3
  <2>2. \A i, j \in S : f[i] = f[j] => i = j
    BY <1>3
  <2>3. \A k \in T : \E i \in S : f[i] = k
    BY <1>4
  <2>4. QED
    BY <2>1, <2>2, <2>3, Fun_IsBij
<1>6. IsFiniteSet(S) /\ Cardinality(S) = Cardinality(Acks(q)) - IF 1 \in Acks(q) THEN 1 ELSE 0
  BY AcksCount, FS_RemoveElement
<1>7. Cardinality(T) = Cardinality(S)
  BY <1>5, <1>6, FS_Bijection DEF ExistsBijection
<1>8. 1 \in Acks(q) <=> IsAck(Head(q))
  BY <1>1 DEF Acks
<1>9. QED
  BY <1>6, <1>7, <1>8

\* A batch of messages behind the others brings one answer at most, its first.
LEMMA AcksJoined ==
    ASSUME NEW q \in Seq(Messages), NEW r \in Seq(Messages), r # <<>>,
           \A i \in DOMAIN r : i > 1 => ~IsAck(r[i])
    PROVE  Cardinality(Acks(q \o r)) =
               Cardinality(Acks(q)) + IF IsAck(r[1]) THEN 1 ELSE 0
<1> DEFINE n == Len(q)
           k == Len(r)
<1>1. n \in Nat /\ k \in Nat /\ k > 0 /\ DOMAIN q = 1 .. n /\ DOMAIN r = 1 .. k
  OBVIOUS
<1>2. /\ DOMAIN (q \o r) = 1 .. (n + k)
      /\ \A i \in 1 .. n : (q \o r)[i] = q[i]
      /\ \A i \in 1 .. (n + k) : i > n => (q \o r)[i] = r[i - n]
  BY <1>1
<1>3. \A i \in 1 .. (n + k) : i > n + 1 => ~IsAck((q \o r)[i])
  <2> SUFFICES ASSUME NEW i \in 1 .. (n + k), i > n + 1 PROVE ~IsAck((q \o r)[i])
    OBVIOUS
  <2>1. i - n \in 1 .. k /\ i - n > 1 /\ (q \o r)[i] = r[i - n]
    BY <1>1, <1>2
  <2>2. QED
    BY <1>1, <2>1
<1>4. n + 1 \in 1 .. (n + k) /\ (q \o r)[n + 1] = r[1]
  BY <1>1, <1>2
<1>5. \A i \in 1 .. (n + k) : i \in 1 .. n \/ i = n + 1 \/ i > n + 1
  BY <1>1
<1>6. Acks(q \o r) = IF IsAck(r[1]) THEN Acks(q) \cup {n + 1} ELSE Acks(q)
  BY <1>1, <1>2, <1>3, <1>4, <1>5 DEF Acks
<1>7. n + 1 \notin Acks(q)
  BY <1>1 DEF Acks
<1>8. IsFiniteSet(Acks(q)) /\ Cardinality(Acks(q)) \in Nat
  BY AcksCount
<1>9. Cardinality(Acks(q) \cup {n + 1}) = Cardinality(Acks(q)) + 1
  BY <1>7, <1>8, FS_AddElement
<1>10. QED
  BY <1>6, <1>8, <1>9

\* Reading a message keeps what the queues promise.  hasSeen: documents that
\* count are seen, and nothing else is.
LEMMA ReadingFresh ==
    ASSUME Typed, Typed', UpToNow, DocsInOrder, TokenIsBehind, AllCounted, SnapshotsVouched,
           toClient # <<>>, toClient' = Tail(toClient), UNCHANGED <<toServer, collection>>,
           aggregator'.outstanding =
               aggregator.outstanding - IF IsAck(Head(toClient)) THEN 1 ELSE 0,
           \/ Seen' = Seen
           \/ Head(toClient).kind = "docs" /\ Seen' = Head(toClient).version,
           Head(toClient).kind = "docs" /\ IsActiveTarget => Seen' = Head(toClient).version,
           view'.since = view.since, Watching' => Watching
    PROVE  DocsInOrder' /\ AllCounted' /\ SnapshotsVouched' /\ Seen <= Seen' /\ Seen' <= collection
<1> DEFINE n == Len(toClient)
           m == Head(toClient)
<1>1. toClient \in Seq(Messages) /\ toClient' \in Seq(Messages)
  BY DEF Typed, WireTypes
<1>2. n \in Nat /\ n > 0 /\ DOMAIN toClient = 1 .. n /\ m = toClient[1] /\ 1 \in 1 .. n
  BY <1>1
<1>3. DOMAIN toClient' = 1 .. (n - 1) /\ \A i \in 1 .. (n - 1) : toClient'[i] = toClient[i + 1]
  BY <1>1, <1>2
<1>4. \A i \in 1 .. (n - 1) : i + 1 \in 1 .. n /\ 1 <= i + 1
  BY <1>2
<1>5. /\ {collection, Seen, Seen', view.since} \subseteq Nat
      /\ \A i \in 1 .. n : toClient[i].version \in Nat
      /\ aggregator.outstanding \in Int /\ Len(toServer) \in Nat
  BY <1>2, Numbers DEF Typed
<1>6. Seen <= Seen' /\ Seen' <= collection
  BY <1>2, <1>5 DEF DocsInOrder, UpToNow
<1>7. DocsInOrder'
  <2> SUFFICES ASSUME NEW i \in 1 .. (n - 1), toClient'[i].kind = "docs"
               PROVE  /\ Seen' <= toClient'[i].version
                      /\ toClient'[i].version <= collection'
                      /\ \A j \in 1 .. (n - 1) :
                            i <= j /\ toClient'[j].kind = "docs"
                                => toClient'[i].version <= toClient'[j].version
    BY <1>3 DEF DocsInOrder
  <2>1. i + 1 \in 1 .. n /\ toClient'[i] = toClient[i + 1]
    BY <1>3, <1>4
  <2>2. Seen <= toClient[i + 1].version /\ toClient[i + 1].version <= collection
    BY <1>2, <2>1 DEF DocsInOrder
  <2>3. m.kind = "docs" => m.version <= toClient[i + 1].version
    BY <1>2, <1>4, <2>1 DEF DocsInOrder
  <2>4. ASSUME NEW j \in 1 .. (n - 1), i <= j, toClient'[j].kind = "docs"
        PROVE  toClient'[i].version <= toClient'[j].version
    <3>1. j + 1 \in 1 .. n /\ i + 1 <= j + 1 /\ toClient'[j] = toClient[j + 1]
      BY <1>3, <1>4, <2>4
    <3>2. QED
      BY <1>2, <2>1, <2>4, <3>1 DEF DocsInOrder
  <2>5. QED
    BY <2>1, <2>2, <2>3, <2>4
<1>8. /\ Cardinality(Acks(toClient)) \in Nat
      /\ Cardinality(Acks(toClient')) = Cardinality(Acks(toClient)) - IF IsAck(m) THEN 1 ELSE 0
  BY <1>1, AcksCount, AcksTaken
<1>9. AllCounted'
  BY <1>5, <1>8 DEF AllCounted
<1>10. ASSUME NEW i \in 1 .. (n - 1), Live(i)' PROVE Live(i + 1)
  <2> SUFFICES ASSUME NEW j \in 1 .. n, j >= i + 1 PROVE ~IsAck(toClient[j])
    BY <1>2, <1>10 DEF Live
  <2>1. j - 1 \in 1 .. (n - 1) /\ j - 1 >= i /\ (j - 1) + 1 = j
    BY <1>2
  <2>2. toClient'[j - 1] = toClient[j]
    BY <1>3, <2>1
  <2>3. QED
    BY <1>3, <1>10, <2>1, <2>2 DEF Live
<1>11. SnapshotsVouched'
  <2> SUFFICES ASSUME Watching',
                      aggregator'.outstanding = Len(toServer') + Cardinality(Acks(toClient')),
                      NEW i \in 1 .. (n - 1), toClient'[i].kind = "snapshot", Live(i)'
               PROVE  Vouched(i)'
    BY <1>3 DEF SnapshotsVouched
  <2>1. Watching /\ aggregator.outstanding = Len(toServer) + Cardinality(Acks(toClient))
    BY <1>5, <1>8
  <2>2. i + 1 \in 1 .. n /\ toClient'[i] = toClient[i + 1] /\ Live(i + 1)
    BY <1>3, <1>4, <1>10
  <2>3. Vouched(i + 1)
    BY <1>2, <2>1, <2>2 DEF SnapshotsVouched
  <2>4. toClient'[i].version >= view'.since
    BY <2>2, <2>3 DEF Vouched
  <2>5. CASE Seen >= toClient[i + 1].version
    BY <1>5, <1>6, <2>2, <2>4, <2>5 DEF Vouched
  <2>6. ASSUME NEW j \in 1 .. ((i + 1) - 1), Live(j), toClient[j].kind = "docs",
               toClient[j].version >= toClient[i + 1].version
        PROVE  Vouched(i)'
    <3>1. CASE j = 1
      <4>1. \A k \in 1 .. n : ~IsAck(toClient[k])
        BY <1>2, <2>6, <3>1 DEF Live
      <4>2. Cardinality(Acks(toClient)) = 0
        BY <1>1, <1>2, <4>1, AcksCount
      <4>3. Len(toServer) = 0
        BY <2>6 DEF Live
      <4>4. IsActiveTarget
        BY <2>1, <4>2, <4>3 DEF IsActiveTarget
      <4>5. Seen' = toClient[1].version
        BY <1>2, <2>6, <3>1, <4>4
      <4>6. QED
        BY <2>2, <2>4, <2>6, <3>1, <4>5 DEF Vouched
    <3>2. CASE j # 1
      <4>1. j - 1 \in 1 .. (n - 1) /\ (j - 1) + 1 = j /\ j - 1 \in 1 .. (i - 1)
        BY <1>2, <2>6, <3>2
      <4>2. toClient'[j - 1] = toClient[j]
        BY <1>3, <4>1
      <4>3. Live(j - 1)'
        <5> SUFFICES ASSUME NEW k \in 1 .. (n - 1), k >= j - 1 PROVE ~IsAck(toClient'[k])
          BY <1>3, <2>6 DEF Live
        <5>1. k + 1 \in 1 .. n /\ k + 1 >= j /\ toClient'[k] = toClient[k + 1]
          BY <1>3, <1>4, <4>1
        <5>2. QED
          BY <1>2, <2>6, <5>1 DEF Live
      <4>4. QED
        BY <2>2, <2>4, <2>6, <4>1, <4>2, <4>3 DEF Vouched
    <3>3. QED
      BY <3>1, <3>2
  <2>7. QED
    BY <2>3, <2>5, <2>6 DEF Vouched
<1>12. QED
  BY <1>6, <1>7, <1>9, <1>11

\* What the server says keeps what the queues promise: r answers the first
\* request, or none, and its snapshots are of the collection as it is.
LEMMA SayingFresh ==
    ASSUME Typed, Typed', UpToNow, DocsInOrder, TokenIsBehind, AllCounted, SnapshotsVouched,
           NEW r \in Seq(Messages), r # <<>>, toClient' = toClient \o r,
           UNCHANGED <<view, cache, token, aggregator, collection>>,
           \A i \in DOMAIN r : i > 1 => ~IsAck(r[i]),
           \/ IsAck(r[1]) /\ toServer # <<>> /\ toServer' = Tail(toServer)
           \/ ~IsAck(r[1]) /\ toServer' = toServer,
           \A i \in DOMAIN r : r[i].kind = "docs" => r[i].version = collection,
           \A i \in DOMAIN r : r[i].kind = "snapshot" =>
               /\ r[i].version = collection
               /\ \/ Seen >= collection
                  \/ \E j \in DOMAIN r : j < i /\ r[j].kind = "docs"
    PROVE  DocsInOrder' /\ AllCounted' /\ SnapshotsVouched'
<1> DEFINE n == Len(toClient)
           k == Len(r)
<1>1. toClient \in Seq(Messages) /\ toClient' \in Seq(Messages) /\ toServer \in Seq(Requests)
  BY DEF Typed, WireTypes
<1>2. n \in Nat /\ k \in Nat /\ k > 0 /\ DOMAIN toClient = 1 .. n /\ DOMAIN r = 1 .. k
  BY <1>1
<1>3. /\ DOMAIN toClient' = 1 .. (n + k)
      /\ \A i \in 1 .. n : toClient'[i] = toClient[i]
      /\ \A i \in 1 .. (n + k) : i > n => toClient'[i] = r[i - n]
  BY <1>1, <1>2
<1>4. \A i \in 1 .. (n + k) : i \in 1 .. n \/ (i > n /\ i - n \in 1 .. k /\ (i - n) + n = i)
  BY <1>2
<1>5. /\ {collection, Seen, view.since} \subseteq Nat
      /\ \A i \in 1 .. n : toClient[i].version \in Nat
      /\ aggregator.outstanding \in Int /\ Len(toServer) \in Nat
  BY <1>2, Numbers
<1>6. Seen' = Seen /\ Seen <= collection /\ view.since <= collection
  BY DEF Seen, UpToNow
<1>7. DocsInOrder'
  <2> SUFFICES ASSUME NEW i \in 1 .. (n + k), toClient'[i].kind = "docs"
               PROVE  /\ Seen <= toClient'[i].version
                      /\ toClient'[i].version <= collection
                      /\ \A j \in 1 .. (n + k) :
                            i <= j /\ toClient'[j].kind = "docs"
                                => toClient'[i].version <= toClient'[j].version
    BY <1>3, <1>6 DEF DocsInOrder
  <2>1. \A j \in 1 .. (n + k) : toClient'[j].kind = "docs" /\ j \notin 1 .. n
                                    => toClient'[j].version = collection
    BY <1>2, <1>3, <1>4
  <2>2. CASE i \in 1 .. n
    BY <1>2, <1>3, <1>5, <2>1, <2>2 DEF DocsInOrder
  <2>3. CASE i \notin 1 .. n
    <3>1. \A j \in 1 .. (n + k) : i <= j => j \notin 1 .. n
      BY <1>2, <2>3
    <3>2. QED
      BY <1>5, <1>6, <2>1, <2>3, <3>1
  <2>4. QED
    BY <2>2, <2>3
<1>8. /\ Cardinality(Acks(toClient)) \in Nat
      /\ Cardinality(Acks(toClient')) = Cardinality(Acks(toClient)) + IF IsAck(r[1]) THEN 1 ELSE 0
  BY <1>1, AcksCount, AcksJoined
<1>9. Len(toServer') = Len(toServer) - IF IsAck(r[1]) THEN 1 ELSE 0
  BY <1>1
<1>10. AllCounted'
  BY <1>5, <1>8, <1>9 DEF AllCounted
<1>11. ASSUME NEW i \in 1 .. n, Live(i)' PROVE Live(i) /\ toServer' = toServer
  <2>1. ~IsAck(r[1])
    <3>1. n + 1 \in 1 .. (n + k) /\ n + 1 >= i /\ n + 1 > n /\ (n + 1) - n = 1
      BY <1>2
    <3>2. toClient'[n + 1] = r[1]
      BY <1>3, <3>1
    <3>3. QED
      BY <1>3, <1>11, <3>1, <3>2 DEF Live
  <2>2. \A j \in 1 .. n : j \in 1 .. (n + k)
    BY <1>2
  <2>3. QED
    BY <1>2, <1>3, <1>11, <2>1, <2>2 DEF Live
<1>12. ASSUME NEW i \in 1 .. n, Live(i), toServer' = toServer PROVE Live(i)'
  <2>1. ~IsAck(r[1])
    BY <1>1, <1>9, <1>12
  <2>2. \A j \in 1 .. k : ~IsAck(r[j])
    BY <1>2, <2>1
  <2>3. QED
    BY <1>2, <1>3, <1>4, <1>12, <2>2 DEF Live
<1>13. SnapshotsVouched'
  <2> SUFFICES ASSUME Watching',
                      aggregator'.outstanding = Len(toServer') + Cardinality(Acks(toClient')),
                      NEW i \in 1 .. (n + k), toClient'[i].kind = "snapshot", Live(i)'
               PROVE  Vouched(i)'
    BY <1>3 DEF SnapshotsVouched
  <2>1. Watching /\ aggregator.outstanding = Len(toServer) + Cardinality(Acks(toClient))
    BY <1>5, <1>8, <1>9 DEF Watching
  <2>2. CASE i \in 1 .. n
    <3>1. Live(i) /\ toServer' = toServer
      BY <1>11, <2>2
    <3>2. Vouched(i)
      BY <1>2, <1>3, <2>1, <2>2, <3>1 DEF SnapshotsVouched
    <3>3. \A j \in 1 .. (i - 1) : j \in 1 .. n
      BY <1>2, <2>2
    <3>4. \A j \in 1 .. (i - 1) : Live(j) => Live(j)'
      BY <1>12, <3>1, <3>3
    <3>5. QED
      BY <1>3, <1>6, <2>2, <3>2, <3>3, <3>4 DEF Vouched
  <2>3. CASE i \notin 1 .. n
    <3>1. i > n /\ i - n \in 1 .. k /\ toClient'[i] = r[i - n]
      BY <1>3, <1>4, <2>3
    <3>2. toClient'[i].version = collection
      BY <1>2, <3>1
    <3>3. CASE Seen >= collection
      BY <1>5, <1>6, <3>2, <3>3 DEF Vouched
    <3>4. ASSUME NEW j \in 1 .. k, j < i - n, r[j].kind = "docs"
          PROVE  Vouched(i)'
      <4>1. n + j \in 1 .. (i - 1) /\ n + j \in 1 .. (n + k) /\ n + j > n /\ (n + j) - n = j
        BY <1>2, <3>1, <3>4
      <4>2. PICK d \in 1 .. (i - 1) : d = n + j
        BY <4>1
      <4>3. toClient'[d] = r[j] /\ r[j].version = collection
        BY <1>2, <1>3, <3>4, <4>1, <4>2
      <4>4. \A l \in 1 .. (n + k) : l >= d => ~IsAck(toClient'[l])
        <5> SUFFICES ASSUME NEW l \in 1 .. (n + k), l >= n + j PROVE ~IsAck(toClient'[l])
          BY <4>2
        <5>1. l > n /\ l - n \in 1 .. k /\ toClient'[l] = r[l - n]
          BY <1>2, <1>3
        <5>2. CASE l - n > 1
          BY <1>2, <5>1, <5>2
        <5>3. CASE l = n + j
          BY <3>4, <4>2, <4>3, <5>3 DEF IsAck
        <5>4. QED
          BY <1>2, <5>1, <5>2, <5>3
      <4>5. Live(d)'
        BY <1>3, <4>4 DEF Live
      <4>6. /\ toClient'[d].kind = "docs"
            /\ toClient'[d].version >= toClient'[i].version
        BY <1>5, <3>2, <3>4, <4>3
      <4>7. toClient'[i].version >= view'.since
        BY <1>5, <1>6, <3>2
      <4>8. QED
        BY <4>5, <4>6, <4>7 DEF Vouched
    <3>5. QED
      BY <1>2, <3>1, <3>3, <3>4
  <2>4. QED
    BY <2>2, <2>3
<1>14. QED
  BY <1>7, <1>10, <1>13

\* Steps of the client that say and read nothing, and the console's: the view
\* loses its sync state, or comes or goes without a stream.
LEMMA QuietFresh ==
    ASSUME Typed, Fresh, UNCHANGED <<cache, token, aggregator, wire, served, denied>>,
           collection' \in Nat, collection' >= collection, IsOpen(stream) => IsOpen(stream'),
           \/ /\ Watching' => Watching
              /\ view'.since = view.since
              /\ view'.current => view.current
           \/ ~IsOpen(stream) /\ view'.since <= collection /\ ~view'.current,
           view'.since \in Nat
    PROVE  Fresh'
<1>1. /\ {collection, Seen, cache, view.since} \subseteq Nat
      /\ \A i \in DOMAIN toClient : toClient[i].version \in Nat
  BY Numbers
<1>2. Seen' = Seen /\ toServer' = toServer /\ toClient' = toClient
  BY DEF Seen, wire
<1>3. StreamOwnsWire' /\ ServedOrRefused'
  BY <1>2 DEF Fresh, StreamOwnsWire, ServedOrRefused
<1>4. CASE ~denied
  <2>1. UpToNow'
    BY <1>1, <1>2, <1>4 DEF Fresh, UpToNow
  <2>2. DocsInOrder'
    BY <1>1, <1>2, <1>4 DEF Fresh, DocsInOrder
  <2>3. TokenIsBehind' /\ AllCounted'
    BY <1>2, <1>4 DEF Fresh, TokenIsBehind, AllCounted
  <2>4. SyncedHasSeen'
    BY <1>2, <1>4 DEF Fresh, SyncedHasSeen
  <2>5. SnapshotsVouched'
    <3>1. CASE ~IsOpen(stream)
      BY <1>2, <3>1 DEF Fresh, StreamOwnsWire, SnapshotsVouched
    <3>2. CASE IsOpen(stream)
      <4>1. (Watching' => Watching) /\ view'.since = view.since
        BY <3>2
      <4>2. SnapshotsVouched
        BY <1>4 DEF Fresh
      <4>3. \A i : Live(i)' <=> Live(i)
        BY <1>2 DEF Live
      <4>4. \A i : Vouched(i) => Vouched(i)'
        BY <1>2, <4>1, <4>3 DEF Vouched
      <4>5. QED
        BY <1>2, <4>1, <4>2, <4>3, <4>4 DEF SnapshotsVouched
    <3>3. QED
      BY <3>1, <3>2
  <2>6. QED
    BY <1>3, <2>1, <2>2, <2>3, <2>4, <2>5 DEF Fresh
<1>5. QED
  BY <1>3, <1>4 DEF Fresh

\* Steps after which nothing of an earlier stream is left.
LEMMA ResetFresh ==
    ASSUME Typed, Fresh, toServer' = <<>>, toClient' = <<>>, served' = None,
           aggregator' = FreshAggregator, UNCHANGED <<cache, token, collection, denied>>,
           \/ view'.since = view.since /\ (view'.current => view.current)
           \/ view'.since <= collection /\ ~view'.current
    PROVE  Fresh'
<1>1. {collection, cache, token, view.since} \subseteq Nat
  BY Numbers
<1>2. Seen' = cache
  BY DEF Seen, FreshAggregator
<1>3. DOMAIN toClient' = {} /\ DOMAIN toServer' = {}
  OBVIOUS
<1>4. StreamOwnsWire' /\ ServedOrRefused'
  BY <1>3 DEF Fresh, StreamOwnsWire, ServedOrRefused
<1>5. CASE ~denied
  <2>1. UpToNow' /\ SyncedHasSeen' /\ TokenIsBehind'
    BY <1>1, <1>2, <1>3, <1>5 DEF Fresh, UpToNow, SyncedHasSeen, TokenIsBehind
  <2>2. DocsInOrder' /\ SnapshotsVouched'
    BY <1>3 DEF DocsInOrder, SnapshotsVouched
  <2>3. Acks(toClient') = {}
    BY <1>3 DEF Acks
  <2>4. Cardinality(Acks(toClient')) = 0
    BY <2>3, FS_EmptySet
  <2>5. Len(toServer') = 0 /\ aggregator'.outstanding = 0
    BY DEF FreshAggregator
  <2>6. AllCounted'
    BY <2>4, <2>5 DEF AllCounted
  <2>7. QED
    BY <1>4, <2>1, <2>2, <2>6 DEF Fresh
<1>6. QED
  BY <1>4, <1>5 DEF Fresh

\* The client asks something of the server: until it is answered, nothing the
\* server says counts.
LEMMA AskingFresh ==
    ASSUME Typed, Fresh, NEW r \in Requests, r.kind = "watch" => r.from = token,
           toServer' = Append(toServer, r),
           aggregator' = [aggregator EXCEPT !.outstanding = @ + 1],
           UNCHANGED <<cache, token, toClient, server>>, IsOpen(stream'),
           view' = view \/ (view'.since <= collection /\ ~view'.current)
    PROVE  Fresh'
<1>1. /\ {collection, Seen, cache, token, view.since} \subseteq Nat
      /\ aggregator.outstanding \in Int
  BY Numbers
<1>2. toServer \in Seq(Requests) /\ toClient \in Seq(Messages)
  BY DEF Typed, WireTypes
<1>3. aggregator'.outstanding = aggregator.outstanding + 1 /\ aggregator'.docs = aggregator.docs
  BY DEF Typed, RemoteTypes
<1>4. Seen' = Seen
  BY <1>3 DEF Seen
<1>5. /\ toServer' # <<>>
      /\ Len(toServer') = Len(toServer) + 1
      /\ Len(toServer) \in Nat
      /\ \A i \in DOMAIN toServer' : toServer'[i] = r \/ (i \in DOMAIN toServer /\ toServer'[i] = toServer[i])
  BY <1>2
<1>6. StreamOwnsWire' /\ ServedOrRefused'
  BY DEF Fresh, StreamOwnsWire, ServedOrRefused, server
<1>7. CASE ~denied
  <2>1. UpToNow' /\ DocsInOrder' /\ SyncedHasSeen'
    BY <1>4, <1>7 DEF Fresh, UpToNow, DocsInOrder, SyncedHasSeen, server
  <2>2. TokenIsBehind'
    BY <1>4, <1>5, <1>7 DEF Fresh, TokenIsBehind
  <2>3. Cardinality(Acks(toClient)) \in Nat
    BY <1>2, AcksCount
  <2>4. AllCounted'
    BY <1>1, <1>3, <1>5, <1>7, <2>3 DEF Fresh, AllCounted
  <2>5. SnapshotsVouched'
    BY <1>5 DEF SnapshotsVouched, Live
  <2>6. QED
    BY <1>6, <2>1, <2>2, <2>4, <2>5 DEF Fresh
<1>8. QED
  BY <1>6, <1>7 DEF Fresh, server

\* A message of the server is read.
\* Snapshots are older than the last one applied or not.
LEMMA NumbersOfSnapshots ==
    ASSUME Typed, NEW m \in Messages
    PROVE  (m.version < lastRemote) <=> ~(m.version >= lastRemote)
BY DEF Typed, LocalTypes, Messages, Versions, None

LEMMA MessageFresh ==
    ASSUME Typed, Typed', Fresh, OnWatchStreamChange
    PROVE  Fresh'
<1> DEFINE m == Head(toClient)
<1>1. /\ toClient \in Seq(Messages) /\ toClient # <<>> /\ toClient' = Tail(toClient)
      /\ UNCHANGED <<stream, toServer, collection, served, denied>>
  BY DEF OnWatchStreamChange, server, Typed, WireTypes
<1>2. 1 \in DOMAIN toClient /\ m = toClient[1] /\ m \in Messages
  BY <1>1
<1>3. /\ {collection, cache, token, view.since, Seen} \subseteq Nat
      /\ {cache', token', Seen'} \subseteq Nat
      /\ m.version \in Nat
      /\ aggregator.outstanding \in Int /\ Len(toServer) \in Nat
  <2>1. {cache', token', Seen'} \subseteq Nat
    BY DEF Typed, LocalTypes, RemoteTypes, Seen, Versions, None
  <2>2. QED
    BY <1>2, <2>1, Numbers
<1>4. StreamOwnsWire'
  BY <1>1 DEF Fresh, StreamOwnsWire
<1>5. \A i \in DOMAIN toClient' : toClient'[i].kind = "rejected" <=> denied'
  <2>1. \A i \in DOMAIN toClient' : i + 1 \in DOMAIN toClient /\ toClient'[i] = toClient[i + 1]
    BY <1>1
  <2>2. QED
    BY <1>1, <2>1 DEF Fresh, ServedOrRefused
<1>6. m.kind = "rejected" <=> denied
  BY <1>2 DEF Fresh, ServedOrRefused
<1>7. CASE denied
  <2>1. ProcessTargetError
    BY <1>6, <1>7 DEF OnWatchStreamChange
  <2>2. view' = view \/ view' = NoView
    BY <2>1 DEF ProcessTargetError
  <2>3. ServedOrRefused'
    BY <1>1, <1>5, <1>7, <2>2 DEF Fresh, ServedOrRefused, NoView
  <2>4. QED
    BY <1>1, <1>4, <1>7, <2>3 DEF Fresh
<1>8. CASE ~denied
  <2>1. /\ UpToNow /\ DocsInOrder /\ TokenIsBehind
        /\ AllCounted /\ SnapshotsVouched /\ SyncedHasSeen
    BY <1>8 DEF Fresh
  <2>2. ServedOrRefused'
    BY <1>1, <1>5, <1>8 DEF ServedOrRefused
  <2>3. ASSUME DocsInOrder' /\ AllCounted' /\ SnapshotsVouched' /\ Seen <= Seen' /\ Seen' <= collection,
               view'.since = view.since, cache' <= collection, token' <= cache', token' <= Seen',
               SyncedHasSeen'
        PROVE  Fresh'
    <3>1. UpToNow'
      BY <1>1, <2>1, <2>3 DEF UpToNow
    <3>2. TokenIsBehind'
      <4>1. \A i \in DOMAIN toServer : toServer[i].from \in Nat
        BY Numbers
      <4>2. QED
        BY <1>1, <1>3, <2>1, <2>3, <4>1 DEF TokenIsBehind
    <3>3. QED
      BY <1>4, <2>2, <2>3, <3>1, <3>2 DEF Fresh
  <2>4. ASSUME UNCHANGED <<view, cache, token>>, Seen <= Seen',
               DocsInOrder' /\ AllCounted' /\ SnapshotsVouched' /\ Seen <= Seen' /\ Seen' <= collection
        PROVE  Fresh'
    <3>1. SyncedHasSeen'
      BY <1>3, <2>1, <2>4 DEF SyncedHasSeen
    <3>2. token' <= Seen' /\ token' <= cache' /\ cache' <= collection
      BY <1>3, <2>1, <2>4 DEF TokenIsBehind, UpToNow
    <3>3. QED
      BY <2>3, <2>4, <3>1, <3>2
  <2>5. CASE m.kind \in {"added", "removed"}
    <3>1. UNCHANGED <<view, cache, token>> /\ (TargetAdded \/ TargetRemoved)
      BY <1>6, <1>8, <2>5 DEF OnWatchStreamChange, local
    <3>2. /\ aggregator'.outstanding = aggregator.outstanding - 1
          /\ aggregator'.docs = aggregator.docs
      BY <3>1 DEF TargetAdded, TargetRemoved, Typed, RemoteTypes
    <3>3. Seen' = Seen /\ (Watching' <=> Watching)
      BY <3>1, <3>2 DEF Seen, Watching
    <3>4. IsAck(m) /\ m.kind # "docs"
      BY <2>5 DEF IsAck
    <3>5. DocsInOrder' /\ AllCounted' /\ SnapshotsVouched' /\ Seen <= Seen' /\ Seen' <= collection
      BY <1>1, <2>1, <3>1, <3>2, <3>3, <3>4, ReadingFresh
    <3>6. QED
      BY <2>4, <3>1, <3>5
  <2>6. CASE m.kind = "docs"
    <3>1. UNCHANGED <<view, cache, token>> /\ DocumentsChanged(m.version)
      BY <2>6 DEF OnWatchStreamChange, local
    <3>2. aggregator'.outstanding = aggregator.outstanding /\ (Watching' <=> Watching)
      BY <3>1 DEF DocumentsChanged, Typed, RemoteTypes, Watching
    <3>3. IsActiveTarget => Seen' = m.version
      <4>1. SUFFICES ASSUME IsActiveTarget PROVE Seen' = m.version
        OBVIOUS
      <4>2. aggregator'.docs = m.version
        BY <3>1, <4>1 DEF DocumentsChanged, Typed, RemoteTypes
      <4>3. Seen <= m.version
        BY <1>2, <2>1, <2>6 DEF DocsInOrder
      <4>4. m.version = None => cache = None
        BY <1>3, <4>3 DEF Seen, None
      <4>5. QED
        BY <3>1, <4>2, <4>4 DEF Seen
    <3>4. ~IsActiveTarget => Seen' = Seen
      BY <3>1 DEF DocumentsChanged, Seen
    <3>5. ~IsAck(m)
      BY <2>6 DEF IsAck
    <3>6. DocsInOrder' /\ AllCounted' /\ SnapshotsVouched' /\ Seen <= Seen' /\ Seen' <= collection
      BY <1>1, <1>3, <2>1, <2>6, <3>1, <3>2, <3>3, <3>4, <3>5, ReadingFresh
    <3>7. QED
      BY <2>4, <3>1, <3>6
  <2>7. CASE m.kind = "current"
    <3>1. UNCHANGED <<view, cache, token>> /\ TargetCurrent
      BY <2>7 DEF OnWatchStreamChange, local
    <3>2. /\ aggregator'.outstanding = aggregator.outstanding
          /\ aggregator'.docs = aggregator.docs
          /\ Watching' <=> Watching
      BY <3>1 DEF TargetCurrent, Typed, RemoteTypes, Watching
    <3>3. Seen' = Seen
      BY <3>1, <3>2 DEF Seen
    <3>4. ~IsAck(m)
      BY <2>7 DEF IsAck
    <3>5. DocsInOrder' /\ AllCounted' /\ SnapshotsVouched' /\ Seen <= Seen' /\ Seen' <= collection
      BY <1>1, <1>3, <2>1, <2>7, <3>1, <3>2, <3>3, <3>4, ReadingFresh
    <3>6. QED
      BY <2>4, <3>1, <3>5
  <2>8. CASE m.kind = "snapshot" /\ m.version < lastRemote
    <3>1. UNCHANGED <<view, cache, token, aggregator>>
      BY <1>2, <2>8, NumbersOfSnapshots DEF OnWatchStreamChange, local
    <3>2. Seen' = Seen /\ (Watching' <=> Watching)
      BY <3>1 DEF Seen, Watching
    <3>3. ~IsAck(m)
      BY <2>8 DEF IsAck
    <3>4. DocsInOrder' /\ AllCounted' /\ SnapshotsVouched' /\ Seen <= Seen' /\ Seen' <= collection
      BY <1>1, <1>3, <2>1, <2>8, <3>1, <3>2, <3>3, ReadingFresh
    <3>5. QED
      BY <2>4, <3>1, <3>4
  <2>9. CASE m.kind = "snapshot" /\ m.version >= lastRemote
    <3> DEFINE c == IF IsActiveTarget THEN aggregator.current ELSE view.current
    <3>1. RaiseWatchSnapshot(m.version)
      BY <2>9 DEF OnWatchStreamChange
    <3>2. /\ cache' = Seen
          /\ token' = IF IsActiveTarget THEN m.version ELSE token
          /\ view' = IF Watching THEN [view EXCEPT !.current = c] ELSE view
          /\ aggregator' = [aggregator EXCEPT !.docs = None]
      BY <3>1 DEF RaiseWatchSnapshot, Seen
    <3>3. /\ aggregator'.outstanding = aggregator.outstanding
          /\ aggregator'.docs = None
      BY <3>2 DEF Typed, RemoteTypes
    <3>4. Seen' = Seen
      BY <3>2, <3>3 DEF Seen
    <3>5. /\ view'.since = view.since
          /\ Watching' => Watching
          /\ view'.current => (IsActiveTarget \/ view.current)
      BY <3>2 DEF Watching, Typed, LocalTypes
    <3>6. IsActiveTarget => Seen >= m.version /\ Seen >= view.since
      <4> SUFFICES ASSUME IsActiveTarget PROVE Seen >= m.version /\ Seen >= view.since
        OBVIOUS
      <4>1. Watching /\ aggregator.outstanding = 0
        BY DEF IsActiveTarget
      <4>2. Cardinality(Acks(toClient)) \in Nat
        BY <1>1, AcksCount
      <4>3. Len(toServer) = 0 /\ Cardinality(Acks(toClient)) = 0
        BY <1>3, <2>1, <4>1, <4>2 DEF AllCounted
      <4>4. toServer = <<>> /\ \A i \in DOMAIN toClient : ~IsAck(toClient[i])
        BY <1>1, <4>3, AcksCount DEF Typed, WireTypes
      <4>5. Live(1)
        BY <4>4 DEF Live
      <4>6. Vouched(1)
        BY <1>2, <2>1, <2>9, <4>1, <4>3, <4>5 DEF SnapshotsVouched
      <4>7. 1 .. (1 - 1) = {}
        OBVIOUS
      <4>8. m.version >= view.since /\ Seen >= m.version
        BY <1>2, <4>6, <4>7 DEF Vouched
      <4>9. QED
        BY <1>3, <4>8
    <3>7. ~IsAck(m)
      BY <2>9 DEF IsAck
    <3>8. DocsInOrder' /\ AllCounted' /\ SnapshotsVouched' /\ Seen <= Seen' /\ Seen' <= collection
      BY <1>1, <1>3, <2>1, <2>9, <3>3, <3>4, <3>5, <3>7, ReadingFresh
    <3>9. SyncedHasSeen'
      BY <1>3, <2>1, <3>2, <3>4, <3>5, <3>6 DEF SyncedHasSeen
    <3>10. cache' <= collection /\ token' <= cache' /\ token' <= Seen'
      BY <1>3, <2>1, <3>2, <3>4, <3>6 DEF UpToNow, TokenIsBehind
    <3>11. QED
      BY <2>3, <3>5, <3>8, <3>9, <3>10
  <2>10. QED
    BY <1>2, <1>6, <1>8, <2>5, <2>6, <2>7, <2>8, <2>9, NumbersOfSnapshots
       DEF OnWatchStreamChange
<1>9. QED
  BY <1>7, <1>8

\* What is where in one queue put behind another.
LEMMA JoinedAt ==
    ASSUME NEW S, NEW s \in Seq(S), NEW t \in Seq(S)
    PROVE  /\ s \o t \in Seq(S)
           /\ Len(s \o t) = Len(s) + Len(t)
           /\ DOMAIN (s \o t) = 1 .. (Len(s) + Len(t))
           /\ \A i \in 1 .. Len(s) : (s \o t)[i] = s[i]
           /\ \A i \in 1 .. (Len(s) + Len(t)) : i > Len(s) => (s \o t)[i] = t[i - Len(s)]
<1>1. /\ Len(s) \in Nat /\ Len(t) \in Nat
      /\ DOMAIN s = 1 .. Len(s) /\ DOMAIN t = 1 .. Len(t)
  OBVIOUS
<1>2. QED
  BY <1>1

\* What the server says to a watch request that resumes from v: one answer,
\* then the documents if there are later ones, and a snapshot of them all.
LEMMA CatchSays ==
    ASSUME NEW v \in Nat, collection \in Nat, Seen \in Nat, v <= Seen, NEW r, r = Catch(v)
    PROVE  /\ r # <<>> /\ IsAck(r[1])
           /\ \A i \in DOMAIN r : r[i].kind # "rejected"
           /\ \A i \in DOMAIN r : i > 1 => ~IsAck(r[i])
           /\ \A i \in DOMAIN r : r[i].kind = "docs" => r[i].version = collection
           /\ \A i \in DOMAIN r : r[i].kind = "snapshot" =>
                 /\ r[i].version = collection
                 /\ \/ Seen >= collection
                    \/ \E j \in DOMAIN r : j < i /\ r[j].kind = "docs"
<1> DEFINE S == {Message("added", None), Message("docs", collection),
                 Message("current", None), Message("snapshot", collection)}
           x == <<Message("added", None)>>
           y == IF v < collection THEN <<Message("docs", collection)>> ELSE <<>>
           z == <<Message("current", None), Message("snapshot", collection)>>
           k == IF v < collection THEN 1 ELSE 0
<1>1. /\ x \in Seq(S) /\ Len(x) = 1 /\ x[1].kind = "added"
      /\ z \in Seq(S) /\ Len(z) = 2 /\ z[1].kind = "current"
      /\ z[2].kind = "snapshot" /\ z[2].version = collection
  BY DEF Message
<1>2. /\ y \in Seq(S) /\ Len(y) = k
      /\ k = 1 => y[1].kind = "docs" /\ y[1].version = collection
  <2>1. CASE v < collection
    BY <2>1 DEF Message
  <2>2. CASE ~(v < collection)
    BY <2>2
  <2>3. QED
    BY <2>1, <2>2
<1>3. /\ k \in 0 .. 1 /\ (k = 1 \/ Seen >= collection)
      /\ 1 \in Nat /\ 2 \in Nat /\ k \in Nat
  OBVIOUS
<1>4. r = x \o y \o z
  BY DEF Catch
<1> HIDE DEF S, x, y, z, k
<1>5. PICK q \in Seq(S) :
          /\ q = x \o y /\ Len(q) = Len(x) + Len(y)
          /\ \A i \in 1 .. Len(x) : q[i] = x[i]
          /\ \A i \in 1 .. (Len(x) + Len(y)) : i > Len(x) => q[i] = y[i - Len(x)]
  <2>1. x \in Seq(S) /\ y \in Seq(S)
    BY <1>1, <1>2
  <2>2. /\ x \o y \in Seq(S) /\ Len(x \o y) = Len(x) + Len(y)
        /\ \A i \in 1 .. Len(x) : (x \o y)[i] = x[i]
        /\ \A i \in 1 .. (Len(x) + Len(y)) : i > Len(x) => (x \o y)[i] = y[i - Len(x)]
    BY <2>1, JoinedAt, Zenon
  <2>3. QED
    BY <2>2, Zenon
<1>6. /\ DOMAIN r = 1 .. (3 + k)
      /\ r[1] = x[1]
      /\ k = 1 => r[2] = y[1]
      /\ r[2 + k] = z[1]
      /\ r[3 + k] = z[2]
  <2>1. z \in Seq(S)
    BY <1>1
  <2>2. /\ DOMAIN (q \o z) = 1 .. (Len(q) + Len(z))
        /\ \A i \in 1 .. Len(q) : (q \o z)[i] = q[i]
        /\ \A i \in 1 .. (Len(q) + Len(z)) : i > Len(q) => (q \o z)[i] = z[i - Len(q)]
    BY <2>1, JoinedAt, Zenon
  <2>3. r = q \o z
    BY <1>4, <1>5
  <2>4. /\ DOMAIN r = 1 .. (Len(q) + Len(z))
        /\ \A i \in 1 .. Len(q) : r[i] = q[i]
        /\ \A i \in 1 .. (Len(q) + Len(z)) : i > Len(q) => r[i] = z[i - Len(q)]
    BY <2>2, <2>3, Zenon
  <2>5. Len(q) = 1 + k /\ Len(q) + Len(z) = 3 + k
    BY <1>1, <1>2, <1>3, <1>5
  <2>6. r[1] = x[1] /\ (k = 1 => r[2] = y[1])
    BY <1>1, <1>2, <1>3, <1>5, <2>4, <2>5
  <2>7. /\ 2 + k \in 1 .. (3 + k) /\ 2 + k > 1 + k /\ (2 + k) - (1 + k) = 1
        /\ 3 + k \in 1 .. (3 + k) /\ 3 + k > 1 + k /\ (3 + k) - (1 + k) = 2
    BY <1>3
  <2>8. r[2 + k] = z[1] /\ r[3 + k] = z[2]
    BY <2>4, <2>5, <2>7
  <2>9. QED
    BY <2>4, <2>5, <2>6, <2>8
<1>7. r[1].kind = "added"
  BY <1>1, <1>6
<1>8. k = 1 => r[2].kind = "docs" /\ r[2].version = collection
  BY <1>2, <1>6
<1>9. /\ r[2 + k].kind = "current"
      /\ r[3 + k].kind = "snapshot" /\ r[3 + k].version = collection
  BY <1>1, <1>6
<1>10. \A i \in DOMAIN r : i = 1 \/ (k = 1 /\ i = 2) \/ i = 2 + k \/ i = 3 + k
  BY <1>3, <1>6
<1>11. r # <<>> /\ IsAck(r[1]) /\ \A i \in DOMAIN r : r[i].kind # "rejected"
  BY <1>3, <1>6, <1>7, <1>8, <1>9, <1>10 DEF IsAck
<1>12. \A i \in DOMAIN r : i > 1 => ~IsAck(r[i])
  BY <1>7, <1>8, <1>9, <1>10 DEF IsAck
<1>13. \A i \in DOMAIN r : r[i].kind = "docs" => r[i].version = collection
  BY <1>7, <1>8, <1>9, <1>10
<1>14. \A i \in DOMAIN r : r[i].kind = "snapshot" => i = 3 + k /\ r[i].version = collection
  BY <1>7, <1>8, <1>9, <1>10
<1>15. k = 1 => 2 \in DOMAIN r /\ 2 < 3 + k
  BY <1>6
<1>16. QED
  BY <1>3, <1>8, <1>11, <1>12, <1>13, <1>14, <1>15

\* The server answers a request.
LEMMA ServerFresh ==
    ASSUME Typed, Typed', Fresh, ServerHandles
    PROVE  Fresh'
<1> DEFINE m == Head(toServer)
<1>1. /\ toServer # <<>> /\ toServer \in Seq(Requests) /\ toServer' = Tail(toServer)
      /\ toClient \in Seq(Messages)
      /\ UNCHANGED <<view, cache, token, aggregator, stream, collection, denied>>
  BY DEF ServerHandles, local, remote, Typed, WireTypes
<1>2. 1 \in DOMAIN toServer /\ m = toServer[1] /\ m \in Requests
  BY <1>1
<1>3. {collection, Seen, view.since} \subseteq Nat /\ m.from \in Nat
  BY <1>2, Numbers
<1>4. Seen' = Seen
  BY <1>1 DEF Seen
<1>5. StreamOwnsWire'
  BY <1>1 DEF Fresh, StreamOwnsWire
<1>6. CASE denied
  <2>1. /\ served' = served
        /\ toClient' = toClient \/ toClient' = Append(toClient, Message("rejected", None))
    BY <1>6 DEF ServerHandles, Fresh, ServedOrRefused
  <2>2. \A i \in DOMAIN toClient' : toClient'[i].kind = "rejected"
    BY <1>1, <1>6, <2>1 DEF Fresh, ServedOrRefused, Message
  <2>3. ServedOrRefused'
    BY <1>1, <1>6, <2>1, <2>2 DEF Fresh, ServedOrRefused
  <2>4. QED
    BY <1>1, <1>5, <1>6, <2>3 DEF Fresh
<1>7. CASE ~denied
  <2>1. /\ UpToNow /\ DocsInOrder /\ TokenIsBehind
        /\ AllCounted /\ SnapshotsVouched /\ SyncedHasSeen
        /\ \A i \in DOMAIN toClient : toClient[i].kind # "rejected"
    BY <1>7 DEF Fresh, ServedOrRefused
  <2>2. UpToNow' /\ SyncedHasSeen'
    BY <1>1, <1>4, <2>1 DEF UpToNow, SyncedHasSeen
  <2>3. TokenIsBehind'
    <3>1. \A i \in DOMAIN toServer' : i + 1 \in DOMAIN toServer /\ toServer'[i] = toServer[i + 1]
      BY <1>1
    <3>2. QED
      BY <1>1, <1>4, <2>1, <3>1 DEF TokenIsBehind
  <2>4. ASSUME NEW r \in Seq(Messages), toClient' = toClient \o r,
               \A i \in DOMAIN r : r[i].kind # "rejected"
        PROVE  ServedOrRefused'
    BY <1>1, <1>7, <2>1, <2>4 DEF ServedOrRefused
  <2>5. CASE m.kind = "watch"
    <3> DEFINE r == Catch(m.from)
    <3>1. toClient' = toClient \o r /\ r \in Seq(Messages)
      BY <1>2, <1>7, <2>5, CatchType DEF ServerHandles, Requests, Typed
    <3>2. m.from <= Seen
      BY <1>2, <2>1, <2>5 DEF TokenIsBehind
    <3>3. /\ r # <<>> /\ IsAck(r[1])
          /\ \A i \in DOMAIN r : r[i].kind # "rejected"
          /\ \A i \in DOMAIN r : i > 1 => ~IsAck(r[i])
          /\ \A i \in DOMAIN r : r[i].kind = "docs" => r[i].version = collection
          /\ \A i \in DOMAIN r : r[i].kind = "snapshot" =>
                /\ r[i].version = collection
                /\ \/ Seen >= collection
                   \/ \E j \in DOMAIN r : j < i /\ r[j].kind = "docs"
      BY <1>3, <3>2, CatchSays
    <3>4. ServedOrRefused'
      BY <2>4, <3>1, <3>3
    <3>5. DocsInOrder' /\ AllCounted' /\ SnapshotsVouched'
      BY <1>1, <2>1, <3>1, <3>3, SayingFresh
    <3>6. QED
      BY <1>5, <2>2, <2>3, <3>4, <3>5 DEF Fresh
  <2>6. CASE m.kind # "watch" /\ served # None
    <3> DEFINE r == <<Message("removed", None)>>
    <3>1. Message("removed", None) \in Messages
      BY DEF Message, Messages
    <3>2. r \in Seq(Messages)
      BY <3>1
    <3>3. toClient' = Append(toClient, Message("removed", None))
      BY <1>2, <2>6 DEF ServerHandles, Requests
    <3>4. toClient' = toClient \o r
      BY <1>1, <3>1, <3>3
    <3>5. DOMAIN r = {1} /\ r # <<>> /\ r[1].kind = "removed"
      BY DEF Message
    <3>6. ServedOrRefused'
      BY <2>4, <3>2, <3>4, <3>5
    <3>7. DocsInOrder' /\ AllCounted' /\ SnapshotsVouched'
      <4>1. /\ IsAck(r[1])
            /\ \A i \in DOMAIN r : i > 1 => ~IsAck(r[i])
            /\ \A i \in DOMAIN r : r[i].kind # "docs" /\ r[i].kind # "snapshot"
        BY <3>5 DEF IsAck
      <4>2. QED
        BY <1>1, <2>1, <3>2, <3>4, <3>5, <4>1, SayingFresh
    <3>8. QED
      BY <1>5, <2>2, <2>3, <3>6, <3>7 DEF Fresh
  <2>7. CASE m.kind # "watch" /\ served = None
    <3>1. toClient' = toClient /\ served' = served
      BY <2>7 DEF ServerHandles
    <3>2. ServedOrRefused' /\ DocsInOrder'
      BY <1>1, <1>4, <1>7, <2>1, <3>1 DEF ServedOrRefused, DocsInOrder
    <3>3. /\ Cardinality(Acks(toClient)) \in Nat /\ Len(toServer) \in Nat
          /\ Len(toServer') = Len(toServer) - 1
          /\ aggregator.outstanding \in Int
      BY <1>1, AcksCount, Numbers
    <3>4. AllCounted' /\ SnapshotsVouched'
      BY <1>1, <2>1, <3>1, <3>3 DEF AllCounted, SnapshotsVouched
    <3>5. QED
      BY <1>5, <2>2, <2>3, <3>2, <3>4 DEF Fresh
  <2>8. QED
    BY <2>5, <2>6, <2>7
<1>8. QED
  BY <1>6, <1>7

\* The server pushes a later version.
LEMMA PushFresh ==
    ASSUME Typed, Typed', Fresh, ServerPushes
    PROVE  Fresh'
<1> DEFINE r == <<Message("docs", collection), Message("snapshot", collection)>>
<1>1. /\ toClient' = toClient \o r /\ served # None
      /\ UNCHANGED <<view, cache, token, aggregator, stream, toServer, collection, denied>>
  BY DEF ServerPushes, local, remote
<1>2. ~denied
  BY <1>1 DEF Fresh, ServedOrRefused
<1>3. /\ UpToNow /\ DocsInOrder /\ TokenIsBehind
      /\ AllCounted /\ SnapshotsVouched /\ SyncedHasSeen
      /\ \A i \in DOMAIN toClient : toClient[i].kind # "rejected"
  BY <1>2 DEF Fresh, ServedOrRefused
<1>4. Message("docs", collection) \in Messages /\ Message("snapshot", collection) \in Messages
  BY DEF Message, Messages, Typed, WireTypes
<1>5. r \in Seq(Messages) /\ toClient \in Seq(Messages)
  BY <1>4 DEF Typed, WireTypes
<1>6. /\ DOMAIN r = {1, 2} /\ r # <<>>
      /\ r[1].kind = "docs" /\ r[1].version = collection
      /\ r[2].kind = "snapshot" /\ r[2].version = collection
  BY DEF Message
<1> HIDE DEF r
<1>7. /\ \A i \in DOMAIN r : ~IsAck(r[i]) /\ r[i].kind # "rejected" /\ r[i].version = collection
      /\ \A i \in DOMAIN r : r[i].kind = "snapshot" => 1 \in DOMAIN r /\ 1 < i
      /\ ~IsAck(r[1])
  BY <1>6 DEF IsAck
<1>8. DocsInOrder' /\ AllCounted' /\ SnapshotsVouched'
  BY <1>1, <1>3, <1>5, <1>6, <1>7, SayingFresh
<1>9. ServedOrRefused'
  BY <1>1, <1>2, <1>3, <1>5, <1>7 DEF ServedOrRefused
<1>10. StreamOwnsWire'
  BY <1>1 DEF Fresh, StreamOwnsWire
<1>11. UpToNow' /\ TokenIsBehind' /\ SyncedHasSeen'
  BY <1>1, <1>3 DEF UpToNow, TokenIsBehind, SyncedHasSeen, Seen
<1>12. QED
  BY <1>8, <1>9, <1>10, <1>11 DEF Fresh

LEMMA InitFresh == Init => Fresh
<1> SUFFICES ASSUME Init PROVE Fresh
  OBVIOUS
<1>1. /\ toServer = <<>> /\ toClient = <<>> /\ served = None /\ view = NoView
      /\ cache \in {None, 1} /\ token = cache /\ collection = 1 /\ aggregator = FreshAggregator
  BY DEF Init
<1>2. DOMAIN toClient = {} /\ DOMAIN toServer = {} /\ Len(toServer) = 0
  BY <1>1
<1>3. Acks(toClient) = {}
  BY <1>2 DEF Acks
<1>4. Cardinality(Acks(toClient)) = 0
  BY <1>3, FS_EmptySet
<1>5. Seen = cache /\ aggregator.outstanding = 0 /\ ~view.current /\ view.since = 0
  BY <1>1 DEF Seen, FreshAggregator, NoView, None
<1>6. StreamOwnsWire /\ ServedOrRefused
  BY <1>1, <1>2, <1>5 DEF StreamOwnsWire, ServedOrRefused
<1>7. UpToNow /\ TokenIsBehind /\ SyncedHasSeen
  BY <1>1, <1>2, <1>5 DEF UpToNow, TokenIsBehind, SyncedHasSeen, None
<1>8. DocsInOrder /\ AllCounted /\ SnapshotsVouched
  BY <1>2, <1>4, <1>5 DEF DocsInOrder, AllCounted, SnapshotsVouched
<1>9. QED
  BY <1>6, <1>7, <1>8 DEF Fresh

LEMMA NextFresh == Typed /\ Typed' /\ Fresh /\ [Next]_vars => Fresh'
<1> SUFFICES ASSUME Typed, Typed', Fresh, [Next]_vars PROVE Fresh'
  OBVIOUS
<1>1. /\ collection \in Nat /\ collection' \in Nat /\ view.since \in Nat /\ view'.since \in Nat
      /\ token \in Versions \cup {None}
  BY DEF Typed, WireTypes, LocalTypes, Versions, None
<1>2. ASSUME UNCHANGED <<view, cache, token, aggregator, wire, served, denied>>,
             collection' >= collection, IsOpen(stream) => IsOpen(stream')
      PROVE  Fresh'
  <2>1. Watching' <=> Watching
    BY <1>2 DEF Watching
  <2>2. QED
    BY <1>1, <1>2, <2>1, QuietFresh
<1>3. ASSUME NEW g \in Gets, GetDocuments(g) \/ OnEvent(g) PROVE Fresh'
  BY <1>1, <1>2, <1>3 DEF GetDocuments, OnEvent, local, remote, server
<1>4. ASSUME ListenTask PROVE Fresh'
  <2> DEFINE g == Head(worker).get
  <2>1. CASE JoinView(g)
    BY <1>1, <1>2, <2>1 DEF JoinView, remote, server
  <2>2. CASE FirstListen(g)
    <3>1. /\ view'.since = collection /\ ~view'.current
          /\ UNCHANGED <<cache, token, toClient, collection, served, denied>>
      BY <2>2 DEF FirstListen, server
    <3>2. view'.since <= collection
      BY <1>1, <3>1
    <3>3. CASE ~IsStarted(stream)
      <4>1. aggregator' = FreshAggregator /\ toServer' = toServer /\ ~IsOpen(stream)
        BY <2>2, <3>3 DEF FirstListen, StartStreamFrom, IsStarted, IsOpen
      <4>2. toServer = <<>> /\ toClient = <<>> /\ served = None
        BY <4>1 DEF Fresh, StreamOwnsWire
      <4>3. QED
        BY <3>1, <3>2, <4>1, <4>2, ResetFresh
    <3>4. CASE IsOpen(stream)
      <4> DEFINE r == [kind |-> "watch", from |-> token]
      <4>1. /\ toServer' = Append(toServer, r)
            /\ aggregator' = [aggregator EXCEPT !.outstanding = @ + 1]
            /\ stream' = stream
        BY <2>2, <3>4 DEF FirstListen, IsStarted, IsOpen
      <4>2. r \in Requests /\ r.from = token
        BY <1>1 DEF Requests
      <4>3. QED
        BY <3>1, <3>2, <3>4, <4>1, <4>2, AskingFresh DEF server
    <3>5. CASE IsStarted(stream) /\ ~IsOpen(stream)
      <4>1. UNCHANGED <<aggregator, toServer, stream>>
        BY <2>2, <3>5 DEF FirstListen, remote
      <4>2. QED
        BY <1>1, <3>1, <3>2, <3>5, <4>1, QuietFresh DEF wire
    <3>6. QED
      BY <3>3, <3>4, <3>5
  <2>3. QED
    BY <1>4, <2>1, <2>2 DEF ListenTask
<1>5. ASSUME RemoveTask PROVE Fresh'
  <2>1. UNCHANGED <<cache, token, stream, toClient, server>>
    BY <1>5 DEF RemoveTask
  <2>2. CASE UNCHANGED <<view, toServer, aggregator>>
    BY <1>1, <1>2, <2>1, <2>2 DEF wire, server
  <2>3. CASE StopListening
    <3>1. view'.since = 0 /\ ~view'.current
      BY <2>3 DEF StopListening, NoView, None
    <3>2. view'.since <= collection
      BY <1>1, <3>1
    <3>3. CASE IsOpen(stream)
      <4> DEFINE r == [kind |-> "unwatch", from |-> None]
      <4>1. /\ toServer' = Append(toServer, r)
            /\ aggregator' = [aggregator EXCEPT !.outstanding = @ + 1]
        BY <2>3, <3>3 DEF StopListening
      <4>2. r \in Requests /\ r.kind # "watch"
        BY DEF Requests
      <4>3. QED
        BY <2>1, <3>1, <3>2, <3>3, <4>1, <4>2, AskingFresh
    <3>4. CASE ~IsOpen(stream)
      <4>1. UNCHANGED <<toServer, aggregator>>
        BY <2>3, <3>4 DEF StopListening
      <4>2. QED
        BY <1>1, <2>1, <3>1, <3>2, <3>4, <4>1, QuietFresh DEF wire, server
    <3>5. QED
      BY <3>3, <3>4
  <2>4. QED
    BY <1>5, <2>2, <2>3 DEF RemoveTask
<1>6. ASSUME CredentialsArrive PROVE Fresh'
  <2>1. UNCHANGED <<view, cache, token, toClient, server>> /\ (IsOpen(stream) => IsOpen(stream'))
    BY <1>6 DEF CredentialsArrive, local, wire, IsOpen
  <2>2. CASE UNCHANGED <<toServer, aggregator>>
    BY <1>1, <1>2, <2>1, <2>2 DEF wire, server
  <2>3. CASE ~UNCHANGED <<toServer, aggregator>>
    <3> DEFINE r == [kind |-> "watch", from |-> token]
    <3>1. /\ toServer' = Append(toServer, r)
          /\ aggregator' = [aggregator EXCEPT !.outstanding = @ + 1]
          /\ IsOpen(stream')
      BY <1>6, <2>3 DEF CredentialsArrive, wire, IsOpen
    <3>2. r \in Requests /\ r.from = token
      BY <1>1 DEF Requests
    <3>3. QED
      BY <2>1, <3>1, <3>2, AskingFresh
  <2>4. QED
    BY <2>2, <2>3
<1>7. ASSUME NEW t, BecomeAndBroadcast(t)
      PROVE  /\ view'.since = view.since
             /\ view'.current => view.current
             /\ Watching' => Watching
  BY <1>7 DEF BecomeAndBroadcast, Watching, Typed, LocalTypes
<1>8. ASSUME StreamFails \/ IdleTimeout \/ ConnectivityChanges PROVE Fresh'
  <2>1. /\ toServer' = <<>> /\ toClient' = <<>> /\ served' = None
        /\ UNCHANGED <<cache, token, collection, denied>>
        /\ aggregator' = FreshAggregator
    BY <1>8 DEF StreamFails, IdleTimeout, ConnectivityChanges, CloseWire, StartStreamFrom, local
  <2>2. view'.since = view.since /\ (view'.current => view.current)
    BY <1>7, <1>8 DEF StreamFails, IdleTimeout, ConnectivityChanges, local
  <2>3. QED
    BY <2>1, <2>2, ResetFresh
<1>9. ASSUME BackoffElapses PROVE Fresh'
  BY <1>1, <1>2, <1>9 DEF BackoffElapses, local, server, IsOpen
<1>10. ASSUME OnlineStateTimeout PROVE Fresh'
  <2>1. UNCHANGED <<cache, token, aggregator, stream, wire, served, denied, collection>>
    BY <1>10 DEF OnlineStateTimeout, remote, server
  <2>2. BecomeAndBroadcast([tracker EXCEPT !.state = "Offline", !.timer = FALSE])
    BY <1>10 DEF OnlineStateTimeout
  <2>3. QED
    BY <1>1, <1>7, <2>1, <2>2, QuietFresh
<1>11. ASSUME CollectionChanges \/ UNCHANGED vars PROVE Fresh'
  BY <1>1, <1>2, <1>11 DEF CollectionChanges, vars, local, remote, server
<1>12. QED
  BY <1>3, <1>4, <1>5, <1>6, <1>8, <1>9, <1>10, <1>11, MessageFresh, ServerFresh, PushFresh DEF Next

\* A view that counts as synced shows the collection as it was when the view
\* was created or later, whatever the server still says about earlier listens
\* of the same target and however often the stream breaks.
THEOREM SyncedViewsAreFresh == Spec => []SyncedViewIsFresh
<1>1. Init => Typed /\ Fresh
  BY InitTypes, InitFresh
<1>2. Typed /\ Fresh /\ [Next]_vars => (Typed /\ Fresh)'
  BY NextTypes, NextFresh
<1>3. Fresh => SyncedViewIsFresh
  BY DEF Fresh, ServedOrRefused, SyncedHasSeen, SyncedViewIsFresh
<1>4. QED
  BY <1>1, <1>2, <1>3, PTL DEF Spec

-----------------------------------------------------------------------------
(* The count of outstanding responses, and with it TypeOK.              *)

\* Only an answer is counted off, and what is awaited was counted before. A
\* server that refuses the target never answers, so nothing is counted off.
LEMMA NextCounted ==
    ASSUME Typed, Typed', Fresh, Fresh', aggregator.outstanding >= 0, [Next]_vars
    PROVE  aggregator'.outstanding >= 0
<1>1. CASE ~denied'
  <2>1. AllCounted'
    BY <1>1 DEF Fresh
  <2>2. toClient' \in Seq(Messages) /\ toServer' \in Seq(Requests) /\ aggregator'.outstanding \in Int
    BY DEF Typed, WireTypes, RemoteTypes
  <2>3. Cardinality(Acks(toClient')) \in Nat
    BY <2>2, AcksCount
  <2>4. aggregator'.outstanding >= Len(toServer') + Cardinality(Acks(toClient'))
    BY <2>1 DEF AllCounted
  <2>5. Len(toServer') \in Nat
    BY <2>2
  <2> QED
    BY <2>2, <2>3, <2>4, <2>5
<1>2. CASE denied'
  <2>1. aggregator \in [outstanding : Int, current : BOOLEAN, docs : Versions \cup {None}]
    BY DEF Typed, RemoteTypes
  <2>2. CASE aggregator'.outstanding \in {aggregator.outstanding, aggregator.outstanding + 1, 0}
    BY <2>1, <2>2
  <2>3. CASE OnWatchStreamChange
    <3>1. toClient # <<>> /\ denied' = denied
      BY <2>3 DEF OnWatchStreamChange, server
    <3>2. Head(toClient).kind = "rejected"
      BY <1>2, <3>1 DEF Fresh, ServedOrRefused, Typed, WireTypes
    <3>3. ProcessTargetError
      BY <2>3, <3>2 DEF OnWatchStreamChange
    <3> QED
      BY <2>1, <2>2, <3>3 DEF ProcessTargetError, FreshAggregator
  <2>4. ASSUME ListenTask \/ RemoveTask \/ CredentialsArrive \/ StreamFails \/ IdleTimeout
               \/ ConnectivityChanges
        PROVE  \/ aggregator' \in {aggregator, FreshAggregator}
               \/ aggregator' = [aggregator EXCEPT !.outstanding = @ + 1]
    BY <2>4 DEF ListenTask, JoinView, FirstListen, remote, RemoveTask, StopListening,
                CredentialsArrive, StreamFails, StartStreamFrom, IdleTimeout, ConnectivityChanges
  <2>5. ASSUME (\E g \in Gets : GetDocuments(g) \/ OnEvent(g)) \/ BackoffElapses
               \/ OnlineStateTimeout \/ ServerHandles \/ ServerPushes \/ CollectionChanges
               \/ UNCHANGED vars
        PROVE  aggregator' = aggregator
    BY <2>5 DEF GetDocuments, OnEvent, BackoffElapses, OnlineStateTimeout, ServerHandles,
                ServerPushes, CollectionChanges, vars, remote
  <2>6. ASSUME \/ aggregator' \in {aggregator, FreshAggregator}
               \/ aggregator' = [aggregator EXCEPT !.outstanding = @ + 1]
        PROVE  aggregator'.outstanding >= 0
    BY <2>1, <2>2, <2>6 DEF FreshAggregator
  <2> QED
    BY <2>3, <2>4, <2>5, <2>6 DEF Next
<1> QED
  BY <1>1, <1>2

\* Every variable keeps its type, and no response is counted off that was not
\* asked for, whatever the order of tasks, timers and messages.
THEOREM TypeCorrect == Spec => []TypeOK
<1> DEFINE Counted == aggregator.outstanding >= 0
<1>1. Init => Typed /\ Fresh /\ Counted
  BY InitTypes, InitFresh DEF Init, FreshAggregator
<1>2. Typed /\ Fresh /\ Counted /\ [Next]_vars => (Typed /\ Fresh /\ Counted)'
  BY NextTypes, NextFresh, NextCounted
<1>3. Typed /\ Counted => TypeOK
  BY DEF TypeOK
<1>4. QED
  BY <1>1, <1>2, <1>3, PTL DEF Spec

=============================================================================
