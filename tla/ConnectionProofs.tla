--------------------------- MODULE ConnectionProofs ---------------------------
(***************************************************************************)
(* Proofs about Connection: type correctness, what the registry points at, *)
(* and that an unreachable station was announced as such, for any number   *)
(* of sockets, frames and faults.                                          *)
(***************************************************************************)
EXTENDS Connection, TLAPS

USE SocketAssumption, MessagesAssumption, FaultsAssumption

------------------------------------------------------------------------------
(* Type correctness                                                        *)

LEMMA TypeInit == Init => TypeOK
BY DEF Init, TypeOK, ReadyStates, Statuses, Events

LEMMA AppendType ==
  ASSUME TypeOK, NEW e \in Events
  PROVE  Append(outbox, e) \in Seq(Events) /\ Last(Append(outbox, e)) = e
BY DEF TypeOK, Last

LEMMA SocketStepType ==
  ASSUME TypeOK, NEW w \in Sockets,
         Connect(w) \/ Closing(w) \/ OnClose(w) \/ OnError(w)
  PROVE  TypeOK'
<1>1. CASE Connect(w)
  BY <1>1 DEF TypeOK, Connect, Register, ReadyStates
<1>2. CASE Closing(w)
  BY <1>2 DEF TypeOK, Closing, ReadyStates
<1>3. CASE OnClose(w)
  BY <1>3 DEF TypeOK, OnClose, ReadyStates
<1>4. CASE OnError(w)
  BY <1>4 DEF TypeOK, OnError, CostsFault, ReadyStates
<1> QED
  BY <1>1, <1>2, <1>3, <1>4

LEMMA HandlerStepType ==
  ASSUME TypeOK, NEW w \in Sockets,
         \/ \E f \in Frames : Receive(w, f)
         \/ Boot(w) \/ StationStatus(w) \/ HandlerFails(w)
         \/ OfflineCommit(w) \/ OfflineFails(w)
  PROVE  TypeOK'
<1>e. {"StationOnline", "StationOffline"} = Events
  BY DEF Events
<1>1. ASSUME NEW f \in Frames, Receive(w, f) PROVE TypeOK'
  BY <1>1 DEF TypeOK, Receive
<1>2. CASE Boot(w)
  <2>1. outbox' \in Seq(Events)
    BY <1>2, <1>e, AppendType DEF Boot
  <2> QED
    BY <1>2, <2>1 DEF TypeOK, Boot, Handled, Statuses
<1>3. CASE StationStatus(w)
  BY <1>3 DEF TypeOK, StationStatus, StationStatusOf, Handled, Statuses
<1>4. CASE HandlerFails(w)
  BY <1>4 DEF TypeOK, HandlerFails, CostsFault, Handled
<1>5. CASE OfflineCommit(w)
  <2>1. outbox' \in Seq(Events)
    BY <1>5, <1>e, AppendType DEF OfflineCommit
  <2> QED
    BY <1>5, <2>1 DEF TypeOK, OfflineCommit, Statuses
<1>6. CASE OfflineFails(w)
  BY <1>6 DEF TypeOK, OfflineFails, CostsFault
<1> QED
  BY <1>1, <1>2, <1>3, <1>4, <1>5, <1>6

LEMMA TypeStep == TypeOK /\ [Next]_vars => TypeOK'
<1> SUFFICES ASSUME TypeOK, [Next]_vars PROVE TypeOK'
  OBVIOUS
<1>1. ASSUME NEW w \in Sockets,
             Connect(w) \/ Closing(w) \/ OnClose(w) \/ OnError(w)
      PROVE  TypeOK'
  BY <1>1, SocketStepType
<1>2. ASSUME NEW w \in Sockets,
             \/ \E f \in Frames : Receive(w, f)
             \/ Boot(w) \/ StationStatus(w) \/ HandlerFails(w)
             \/ OfflineCommit(w) \/ OfflineFails(w)
      PROVE  TypeOK'
  BY <1>2, HandlerStepType
<1>3. CASE ForceDisconnect
  BY <1>3 DEF TypeOK, ForceDisconnect, CostsFault, ReadyStates
<1>4. CASE Restart
  BY <1>4 DEF TypeOK, Restart, CostsFault, ReadyStates
<1>5. CASE Done \/ UNCHANGED vars
  BY <1>5 DEF TypeOK, Done, vars
<1> QED
  BY <1>1, <1>2, <1>3, <1>4, <1>5 DEF Next

(* The sockets, the registry and the station's row stay within their types. *)
THEOREM TypeCorrect == SafeSpec => []TypeOK
BY TypeInit, TypeStep, PTL DEF SafeSpec

------------------------------------------------------------------------------
(* The registry                                                            *)

LEMMA RegistryStep ==
  TypeOK /\ RegisteredIsNotClosed /\ [Next]_vars => RegisteredIsNotClosed'
<1> SUFFICES ASSUME TypeOK, RegisteredIsNotClosed, [Next]_vars
             PROVE  RegisteredIsNotClosed'
  OBVIOUS
<1> USE DEF RegisteredIsNotClosed
<1>1. ASSUME NEW w \in Sockets,
             Connect(w) \/ Closing(w) \/ OnClose(w) \/ OnError(w)
      PROVE  RegisteredIsNotClosed'
  <2>1. CASE Connect(w)
    BY <2>1 DEF TypeOK, Connect, Register
  <2>2. CASE Closing(w)
    BY <2>2 DEF TypeOK, Closing
  <2>3. CASE OnClose(w)
    BY <2>3 DEF TypeOK, OnClose, Stale
  <2>4. CASE OnError(w)
    BY <2>4 DEF TypeOK, OnError
  <2> QED
    BY <1>1, <2>1, <2>2, <2>3, <2>4
<1>2. ASSUME UNCHANGED <<sock, connections>> PROVE RegisteredIsNotClosed'
  BY <1>2
<1>3. ASSUME NEW w \in Sockets,
             \/ \E f \in Frames : Receive(w, f)
             \/ Boot(w) \/ StationStatus(w) \/ HandlerFails(w)
             \/ OfflineCommit(w) \/ OfflineFails(w)
      PROVE  RegisteredIsNotClosed'
  BY <1>2, <1>3 DEF Receive, Boot, StationStatus, HandlerFails, OfflineCommit, OfflineFails
<1>4. CASE ForceDisconnect \/ Restart
  BY <1>4 DEF ForceDisconnect, Restart
<1>5. CASE Done \/ UNCHANGED vars
  BY <1>2, <1>5 DEF Done, vars
<1> QED
  BY <1>1, <1>3, <1>4, <1>5 DEF Next

(* The registry never hands a command to a socket that is gone, in          *)
(* whatever order sockets are replaced, fail and close (server.ts:86-131). *)
THEOREM RegistryIsLive == SafeSpec => []RegisteredIsNotClosed
<1>1. Init => RegisteredIsNotClosed
  BY DEF Init, RegisteredIsNotClosed
<1> QED
  BY TypeInit, TypeStep, RegistryStep, <1>1, PTL DEF SafeSpec

LEMMA OpenStep ==
  TypeOK /\ [Next]_vars =>
    \A w \in Sockets : connections = w /\ sock'[w] = "open" => connections' = w
<1> SUFFICES ASSUME TypeOK, [Next]_vars, NEW w \in Sockets,
                    connections = w, sock'[w] = "open"
             PROVE  connections' = w
  OBVIOUS
<1>1. ASSUME NEW v \in Sockets,
             Connect(v) \/ Closing(v) \/ OnClose(v) \/ OnError(v)
      PROVE  connections' = w
  BY <1>1 DEF TypeOK, Connect, Register, Closing, OnClose, Stale, OnError
<1>2. CASE ForceDisconnect \/ Restart
  BY <1>2 DEF TypeOK, ForceDisconnect, Restart
<1> QED
  BY <1>1, <1>2 DEF Next, Receive, Boot, StationStatus, HandlerFails,
                    OfflineCommit, OfflineFails, Done, vars

(* The close, error or replacement of another socket never takes an open    *)
(* one out of the registry (server.ts:86-95).                               *)
THEOREM OpenIsRegistered == SafeSpec => OpenStaysRegistered
<1>1. TypeOK /\ [Next]_vars =>
        [\A w \in Sockets : connections = w /\ sock'[w] = "open" => connections' = w]_vars
  BY OpenStep
<1> QED
  BY TypeInit, TypeStep, <1>1, PTL DEF SafeSpec, OpenStaysRegistered

------------------------------------------------------------------------------
(* The row and the announcements                                           *)

LEMMA AnnouncedStep ==
  TypeOK /\ UnreachableIsAnnounced /\ [Next]_vars => UnreachableIsAnnounced'
<1> SUFFICES ASSUME TypeOK, UnreachableIsAnnounced, [Next]_vars
             PROVE  UnreachableIsAnnounced'
  OBVIOUS
<1>1. ASSUME UNCHANGED <<status, outbox>> PROVE UnreachableIsAnnounced'
  BY <1>1 DEF UnreachableIsAnnounced
<1>2. ASSUME NEW w \in Sockets, OfflineCommit(w) PROVE UnreachableIsAnnounced'
  <2>1. "StationOffline" \in Events
    BY DEF Events
  <2>2. outbox' = Append(outbox, "StationOffline")
    BY <1>2 DEF OfflineCommit
  <2>3. outbox' # <<>> /\ Last(outbox') = "StationOffline"
    BY <2>1, <2>2, AppendType DEF TypeOK
  <2> QED
    BY <2>3 DEF UnreachableIsAnnounced
<1>3. ASSUME NEW w \in Sockets, Boot(w) \/ StationStatus(w)
      PROVE  UnreachableIsAnnounced'
  BY <1>3 DEF Boot, StationStatus, StationStatusOf, UnreachableIsAnnounced
<1> QED
  BY <1>1, <1>2, <1>3 DEF Next, Connect, Closing, OnClose, OnError, Receive, HandlerFails,
                          OfflineFails, ForceDisconnect, Restart, Done, vars

(* A row that says CommunicationFault is never contradicted by the last     *)
(* event about the station (server.ts:101, bootNotification.handler.ts).   *)
THEOREM UnreachableAnnounced == SafeSpec => []UnreachableIsAnnounced
<1>1. Init => UnreachableIsAnnounced
  BY DEF Init, UnreachableIsAnnounced
<1> QED
  BY TypeInit, TypeStep, AnnouncedStep, <1>1, PTL DEF SafeSpec
==============================================================================
