------------------------ MODULE WebSocketClientProofs ------------------------
(***************************************************************************)
(* Proofs about WebSocketClient, for any tokens, modes, connections and    *)
(* attempts, and any user tasks: types, what opens after close,            *)
(* and that a token whose feed is not what is wanted has a message on its  *)
(* way or was left to one that was not sent, or was overtaken.             *)
(***************************************************************************)
EXTENDS WebSocketClient, TLAPS

USE WebSocketAssumption

------------------------------------------------------------------------------
(* Types. *)

LEMMA StateTypes ==
    /\ \A pc \in {"idle", "opening", "sleep"} : Waiting(pc) \in TaskStates
    /\ Idle \in TaskStates
    /\ \A s \in Sockets : Consuming(s) \in TaskStates
    /\ \A tokens \in SUBSET Tokens, mode \in 0..(ModeCount + 1) :
           Sending("replay", tokens, mode) \in TaskStates
    /\ \A tokens \in SUBSET Tokens, mode \in Modes : Sending("mode", tokens, mode) \in TaskStates
  <1>1. 0 \in 0..(ModeCount + 1)
    OBVIOUS
  <1>2. ASSUME NEW pc \in {"idle", "opening", "sleep"} PROVE Waiting(pc) \in TaskStates
    BY <1>1 DEF Waiting, TaskStates
  <1>3. ASSUME NEW s \in Sockets PROVE Consuming(s) \in TaskStates
    BY <1>1 DEF Consuming, TaskStates
  <1>4. ASSUME NEW tokens \in SUBSET Tokens, NEW mode \in 0..(ModeCount + 1)
        PROVE  Sending("replay", tokens, mode) \in TaskStates
    BY DEF Sending, TaskStates
  <1>5. ASSUME NEW tokens \in SUBSET Tokens, NEW mode \in Modes
        PROVE  Sending("mode", tokens, mode) \in TaskStates
    BY DEF Sending, TaskStates, Modes
  <1> QED BY <1>2, <1>3, <1>4, <1>5 DEF Idle

LEMMA FeedTypes ==
    ASSUME NEW f \in [Tokens -> Feeds], NEW tokens
    PROVE  /\ Added(f, tokens) \in [Tokens -> Feeds]
           /\ \A mode \in Feeds : Changed(f, tokens, mode) \in [Tokens -> Feeds]
           /\ Removed(f, tokens) \in [Tokens -> Feeds]
           /\ AllOff \in [Tokens -> Feeds]
  BY DEF Added, Changed, Removed, AllOff, Feeds, Modes, Off

\* What most actions change.
LEMMA PartTypes ==
    ASSUME TypeOK
    PROVE  /\ \A k \in Tasks, q \in TaskStates : Become(k, q) => task' \in [Tasks -> TaskStates]
           /\ \A f \in [Tokens -> Feeds] :
                  Sends(f) => feed' \in [Sockets -> [Tokens -> Feeds]]
           /\ \A mode \in Feeds : \A tokens :
                  Wants(tokens, mode) => wanted' \in [Tokens -> Feeds]
           /\ \A tokens : Mends(tokens) => torn' \subseteq Tokens
  BY DEF TypeOK, Become, Sends, Wants, Mends, Alive

LEMMA FailsType ==
    ASSUME TypeOK, NEW k \in Tasks, NEW n \in 0..MaxReconnects, Fails(k, n)
    PROVE  /\ task' \in [Tasks -> TaskStates]
           /\ attempt' \in 0..MaxReconnects
           /\ websocket' \in Sockets \cup {NoSocket}
  <1>1. task' \in [Tasks -> TaskStates]
    BY StateTypes, PartTypes DEF Fails
  <1>2. attempt' \in 0..MaxReconnects
    BY DEF Fails, TypeOK
  <1>3. websocket' \in Sockets \cup {NoSocket}
    BY DEF Fails, TypeOK
  <1> QED BY <1>1, <1>2, <1>3

LEMMA ConnectedType ==
    ASSUME TypeOK, NEW k \in Tasks, Connected(k)
    PROVE  /\ task' \in [Tasks -> TaskStates]
           /\ attempt' \in 0..MaxReconnects
           /\ websocket' \in Sockets \cup {NoSocket}
  <1>1. CASE Become(k, Idle) /\ UNCHANGED <<websocket, attempt>>
    BY <1>1, StateTypes, PartTypes DEF TypeOK
  <1>2. CASE /\ websocket # NoSocket
             /\ attempt' = 0
             /\ Become(k, Consuming(websocket))
             /\ UNCHANGED websocket
    <2>1. Consuming(websocket) \in TaskStates
      BY <1>2, StateTypes DEF TypeOK
    <2> QED BY <1>2, <2>1, PartTypes DEF TypeOK
  <1>3. CASE Fails(k, 0)
    BY <1>3, FailsType
  <1> QED BY <1>1, <1>2, <1>3 DEF Connected

LEMMA LoopType ==
    ASSUME TypeOK, Loop
    PROVE  /\ task' \in [Tasks -> TaskStates]
           /\ attempt' \in 0..MaxReconnects
  <1> Listener \in Tasks
    BY DEF Tasks
  <1>1. websocket # NoSocket => Consuming(websocket) \in TaskStates
    BY StateTypes DEF TypeOK
  <1>2. task' \in [Tasks -> TaskStates]
    BY <1>1, StateTypes, PartTypes DEF Loop
  <1>3. attempt' \in 0..MaxReconnects
    BY DEF Loop, TypeOK
  <1> QED BY <1>2, <1>3

LEMMA UserStepType ==
    ASSUME TypeOK, NEW u \in Users, UserCall(u)
    PROVE  TypeOK'
  <1> u \in Tasks
    BY DEF Tasks
  <1>0. websocket # NoSocket => feed[websocket] \in [Tokens -> Feeds]
    BY DEF TypeOK
  <1>1. CASE Connect(u)
    BY <1>1, StateTypes, PartTypes DEF Connect, TypeOK
  <1>2. CASE Close(u)
    <2>1. Alive => websocket \in Sockets
      BY DEF Alive, TypeOK
    <2>2. link' \in [Sockets -> Links] /\ feed' \in [Sockets -> [Tokens -> Feeds]]
      <3>1. CASE Alive
        BY <1>2, <2>1, <3>1, FeedTypes DEF Close, TypeOK, Links, AllOff, Feeds
      <3>2. CASE ~Alive
        BY <1>2, <3>2 DEF Close, TypeOK
      <3> QED BY <3>1, <3>2
    <2> QED BY <1>2, <2>2 DEF Close, TypeOK
  <1>3. CASE Subscribe(u)
    <2>1. PICK tokens \in (SUBSET Tokens) \ {{}}, mode \in Modes :
              /\ Wants(tokens, mode)
              /\ IF websocket = NoSocket
                   THEN UNCHANGED <<task, feed>>
                   ELSE /\ Sends(Added(feed[websocket], tokens))
                        /\ \/ Become(u, Sending("mode", tokens, mode))
                           \/ ~Alive /\ UNCHANGED task
      BY <1>3 DEF Subscribe
    <2>2. mode \in Feeds
      BY DEF Feeds
    <2>3. wanted' \in [Tokens -> Feeds]
      BY <2>1, <2>2, PartTypes
    <2>4. task' \in [Tasks -> TaskStates]
      <3>1. Sending("mode", tokens, mode) \in TaskStates
        BY StateTypes
      <3> QED BY <2>1, <3>1, PartTypes DEF TypeOK
    <2>5. feed' \in [Sockets -> [Tokens -> Feeds]]
      BY <1>0, <2>1, FeedTypes, PartTypes DEF TypeOK
    <2> QED BY <1>3, <2>3, <2>4, <2>5 DEF Subscribe, TypeOK
  <1>4. CASE SendMode(u)
    <2>1. task[u].mode \in Feeds
      BY <1>4 DEF SendMode, At, TypeOK, TaskStates, Feeds
    <2>2. feed' \in [Sockets -> [Tokens -> Feeds]]
      BY <1>0, <1>4, <2>1, FeedTypes, PartTypes DEF SendMode, TypeOK
    <2>3. torn' \subseteq Tokens
      <3>1. task[u].tokens \subseteq Tokens /\ torn \subseteq Tokens
        BY DEF TypeOK, TaskStates
      <3> QED BY <1>4, <3>1 DEF SendMode, MendsOrTears, Overtaken
    <2> QED BY <1>4, <2>2, <2>3, StateTypes, PartTypes DEF SendMode, TypeOK
  <1>5. CASE Unsubscribe(u)
    <2>1. PICK tokens \in (SUBSET Tokens) \ {{}} :
              /\ Wants(tokens, Off)
              /\ IF websocket = NoSocket
                   THEN UNCHANGED feed
                   ELSE Sends(Removed(feed[websocket], tokens))
              /\ Mends(tokens)
      BY <1>5 DEF Unsubscribe
    <2>2. Off \in Feeds
      BY DEF Feeds
    <2>4. wanted' \in [Tokens -> Feeds] /\ torn' \subseteq Tokens
      BY <2>1, <2>2, PartTypes
    <2>3. feed' \in [Sockets -> [Tokens -> Feeds]]
      BY <1>0, <2>1, FeedTypes, PartTypes DEF TypeOK
    <2> QED BY <1>5, <2>3, <2>4 DEF Unsubscribe, TypeOK
  <1>6. CASE SetMode(u)
    <2>1. PICK tokens \in (SUBSET Subscribed) \ {{}}, mode \in Modes :
              /\ Wants(tokens, mode)
              /\ IF websocket = NoSocket
                   THEN UNCHANGED feed
                   ELSE Sends(Changed(feed[websocket], tokens, mode))
              /\ Mends(tokens)
      BY <1>6 DEF SetMode
    <2>2. mode \in Feeds
      BY DEF Feeds
    <2>3. wanted' \in [Tokens -> Feeds] /\ torn' \subseteq Tokens
      BY <2>1, <2>2, PartTypes
    <2>4. feed' \in [Sockets -> [Tokens -> Feeds]]
      BY <1>0, <2>1, <2>2, FeedTypes, PartTypes DEF TypeOK
    <2> QED BY <1>6, <2>3, <2>4 DEF SetMode, TypeOK
  <1>7. CASE SetModeFails(u)
    <2>1. PICK tokens \in (SUBSET Subscribed) \ {{}}, mode \in Modes :
              Wants(tokens, mode) /\ torn' = torn \cup tokens
      BY <1>7 DEF SetModeFails
    <2>2. mode \in Feeds /\ tokens \subseteq Tokens
      BY DEF Feeds, Subscribed
    <2>3. wanted' \in [Tokens -> Feeds] /\ torn' \subseteq Tokens
      BY <2>1, <2>2, PartTypes DEF TypeOK
    <2> QED BY <1>7, <2>3 DEF SetModeFails, TypeOK
  <1> QED BY <1>1, <1>2, <1>3, <1>4, <1>5, <1>6, <1>7 DEF UserCall

LEMMA ConnectingType ==
    ASSUME TypeOK, NEW k \in Tasks, Connecting(k)
    PROVE  TypeOK'
  <1>1. CASE ConnectFails(k)
    BY <1>1, FailsType DEF ConnectFails, TypeOK
  <1>2. CASE Opened(k)
    <2>1. PICK s \in Fresh :
              /\ websocket' = s
              /\ link' = [link EXCEPT ![s] = "open"]
              /\ feed' = [feed EXCEPT ![s] = Added(AllOff, Subscribed)]
              /\ Become(k, IF Subscribed # {} THEN Sending("replay", Subscribed, 1)
                           ELSE IF k = Listener THEN Consuming(s) ELSE Idle)
      BY <1>2 DEF Opened
    <2>2. Added(AllOff, Subscribed) \in [Tokens -> Feeds]
      <3>1. AllOff \in [Tokens -> Feeds]
        BY DEF AllOff, Feeds
      <3> QED BY <3>1, FeedTypes
    <2>3. Subscribed \in SUBSET Tokens /\ 1 \in 0..(ModeCount + 1)
      BY DEF Subscribed
    <2>4. s \in Sockets
      BY DEF Fresh
    <2>5. task' \in [Tasks -> TaskStates]
      <3>1. /\ Sending("replay", Subscribed, 1) \in TaskStates
            /\ Consuming(s) \in TaskStates
            /\ Idle \in TaskStates
        BY <2>3, <2>4, StateTypes
      <3> QED BY <2>1, <3>1, PartTypes
    <2> QED BY <1>2, <2>1, <2>2, <2>4, <2>5 DEF Opened, TypeOK, Links
  <1>3. CASE Replay(k)
    <2>1. CASE Due(k) = {} /\ Connected(k) /\ UNCHANGED feed
      BY <1>3, <2>1, ConnectedType DEF Replay, TypeOK
    <2>2. CASE websocket # NoSocket /\ SendDue(k) /\ UNCHANGED <<websocket, attempt>>
      <3>1. PICK m \in Due(k) :
                /\ Sends(Changed(feed[websocket], {t \in task[k].tokens : wanted[t] = m}, m))
                /\ Become(k, Sending("replay", task[k].tokens, m + 1))
        BY <2>2 DEF SendDue
      <3>2. task[k].tokens \in SUBSET Tokens /\ task[k].mode \in 0..(ModeCount + 1)
        BY DEF TypeOK, TaskStates
      <3>3. m \in Feeds /\ m + 1 \in 0..(ModeCount + 1)
        BY <3>2 DEF Due, Feeds, Modes, Off
      <3>4. task' \in [Tasks -> TaskStates]
        BY <3>1, <3>2, <3>3, StateTypes, PartTypes
      <3>5. feed[websocket] \in [Tokens -> Feeds]
        BY <2>2 DEF TypeOK
      <3>6. feed' \in [Sockets -> [Tokens -> Feeds]]
        BY <3>1, <3>3, <3>5, FeedTypes, PartTypes
      <3> QED BY <1>3, <2>2, <3>4, <3>6 DEF Replay, TypeOK
    <2>3. CASE Fails(k, attempt) /\ UNCHANGED feed
      BY <1>3, <2>3, FailsType DEF Replay, TypeOK
    <2> QED BY <1>3, <2>1, <2>2, <2>3 DEF Replay
  <1> QED BY <1>1, <1>2, <1>3 DEF Connecting

LEMMA TypeStep ==
    ASSUME TypeOK, [Next]_vars
    PROVE  TypeOK'
  <1> Listener \in Tasks
    BY DEF Tasks
  <1>1. ASSUME NEW u \in Users, UserCall(u) PROVE TypeOK'
    BY <1>1, UserStepType
  <1>2. ASSUME NEW k \in Tasks, Connecting(k) PROVE TypeOK'
    BY <1>2, ConnectingType
  <1>3. ASSUME NEW k \in Tasks, Cancel(k) PROVE TypeOK'
    <2>1. task[k].tokens \subseteq Tokens
      BY DEF TypeOK, TaskStates
    <2> QED BY <1>3, <2>1, StateTypes, PartTypes DEF Cancel, TypeOK
  <1>4. CASE Listen
    <2>1. websocket # NoSocket => Consuming(websocket) \in TaskStates
      BY StateTypes DEF TypeOK
    <2>2. task' \in [Tasks -> TaskStates]
      BY <1>4, <2>1, StateTypes, PartTypes DEF Listen, TypeOK
    <2> QED BY <1>4, <2>2 DEF Listen, TypeOK
  <1>5. CASE Streaming
    BY <1>5, LoopType, FailsType DEF Streaming, StreamEnds, StreamFails, Wake, TypeOK
  <1>6. CASE MessageFails
    BY <1>6, FailsType DEF MessageFails, TypeOK
  <1>7. ASSUME NEW s \in Sockets, Drop(s) PROVE TypeOK'
    BY <1>7, FeedTypes DEF Drop, TypeOK, Links
  <1>8. CASE UNCHANGED vars
    BY <1>8 DEF vars, TypeOK
  <1> QED BY <1>1, <1>2, <1>3, <1>4, <1>5, <1>6, <1>7, <1>8 DEF Next

------------------------------------------------------------------------------
(* Feeds. *)

\* A message that will bring token t to the mode that is wanted is still to be sent.
Pending(t) ==
    \E k \in Tasks :
        /\ t \in task[k].tokens
        /\ \/ At(k, "mode") /\ wanted[t] = task[k].mode
           \/ At(k, "replay") /\ wanted[t] >= task[k].mode

\* The server's view of a token that is wanted in another mode is about to be changed.
FeedOK ==
    Alive => \A t \in Tokens :
        /\ feed[websocket][t] = Off <=> wanted[t] = Off
        /\ feed[websocket][t] = wanted[t] \/ t \in torn \/ Pending(t)

IInv == TypeOK /\ FeedOK

LEMMA BecomeOne ==
    ASSUME TypeOK, NEW k \in Tasks, NEW q, Become(k, q)
    PROVE  task'[k] = q /\ \A j \in Tasks \ {k} : task'[j] = task[j]
  BY DEF TypeOK, Become

LEMMA StatePcs ==
    /\ \A pc : Waiting(pc).pc = pc
    /\ Idle.pc = "idle"
    /\ \A s : Consuming(s).pc = "consume"
    /\ \A pc, tokens, mode : /\ Sending(pc, tokens, mode).pc = pc
                             /\ Sending(pc, tokens, mode).tokens = tokens
                             /\ Sending(pc, tokens, mode).mode = mode
  BY DEF Waiting, Idle, Consuming, Sending

\* A step that changes no feed of the client's connection and nothing that is wanted,
\* while whoever stops sending has nothing to send that matters.
LEMMA FeedKept ==
    ASSUME TypeOK, FeedOK, UNCHANGED wanted, torn \subseteq torn',
           Alive' => Alive /\ websocket' = websocket /\ feed'[websocket] = feed[websocket],
           \A k \in Tasks :
               \/ task'[k] = task[k]
               \/ /\ task'[k].pc \notin {"replay", "mode"}
                  /\ \/ ~Alive'
                     \/ task[k].pc \notin {"replay", "mode"}
                     \/ task[k].tokens \subseteq torn'
                     \/ At(k, "replay") /\ Due(k) = {}
    PROVE  FeedOK'
  <1>1. FeedOK'
    <2> SUFFICES ASSUME Alive', NEW t \in Tokens
                 PROVE  /\ feed'[websocket'][t] = Off <=> wanted'[t] = Off
                        /\ feed'[websocket'][t] = wanted'[t] \/ t \in torn' \/ Pending(t)'
      BY DEF FeedOK
    <2>1. /\ feed[websocket][t] = Off <=> wanted[t] = Off
          /\ feed[websocket][t] = wanted[t] \/ t \in torn \/ Pending(t)
      BY DEF FeedOK
    <2>2. Pending(t) => t \in torn' \/ Pending(t)'
      <3> SUFFICES ASSUME NEW k \in Tasks, t \in task[k].tokens,
                          \/ At(k, "mode") /\ wanted[t] = task[k].mode
                          \/ At(k, "replay") /\ wanted[t] >= task[k].mode
                   PROVE  t \in torn' \/ Pending(t)'
        BY DEF Pending
      <3>1. CASE task'[k] = task[k]
        BY <3>1 DEF Pending, At
      <3>2. CASE At(k, "replay") /\ Due(k) = {}
        <4>1. wanted[t] \in Feeds /\ task[k].mode \in 0..(ModeCount + 1)
          BY DEF TypeOK, TaskStates
        <4>2. wanted[t] >= task[k].mode
          BY <3>2 DEF At
        <4>3. wanted[t] \in Due(k)
          BY <4>1, <4>2 DEF Due, Feeds, Modes, Off
        <4> QED BY <3>2, <4>3
      <3> QED BY <3>1, <3>2 DEF At
    <2> QED BY <2>1, <2>2
  <1> QED BY <1>1

LEMMA UserStepFeed ==
    ASSUME TypeOK, TypeOK', FeedOK, NEW u \in Users, UserCall(u)
    PROVE  FeedOK'
  <1> u \in Tasks /\ u # Listener
    BY DEF Tasks, Listener
  <1>0. ASSUME Alive PROVE /\ websocket \in Sockets /\ feed[websocket] \in [Tokens -> Feeds]
                           /\ feed \in [Sockets -> [Tokens -> Feeds]]
    BY <1>0 DEF Alive, TypeOK
  <1>a. wanted \in [Tokens -> Feeds]
    BY DEF TypeOK
  <1>1. CASE Connect(u)
    <2>1. task'[u].pc = "opening" /\ \A j \in Tasks \ {u} : task'[j] = task[j]
      BY <1>1, BecomeOne, StatePcs DEF Connect
    <2> QED BY <1>1, <2>1, FeedKept DEF Connect, Alive, At
  <1>2. CASE Close(u)
    <2>1. ~Alive'
      BY <1>2 DEF Close, Alive
    <2> QED BY <1>2, <2>1, FeedKept DEF Close
  <1>3. CASE Subscribe(u)
    <2>1. PICK tokens \in (SUBSET Tokens) \ {{}}, mode \in Modes :
              /\ Wants(tokens, mode)
              /\ IF websocket = NoSocket
                   THEN UNCHANGED <<task, feed>>
                   ELSE /\ Sends(Added(feed[websocket], tokens))
                        /\ \/ Become(u, Sending("mode", tokens, mode))
                           \/ ~Alive /\ UNCHANGED task
      BY <1>3 DEF Subscribe
    <2>2. At(u, "idle")
      BY <1>3 DEF Subscribe
    <2>3. \A t \in Tokens : wanted'[t] = IF t \in tokens THEN mode ELSE wanted[t]
      BY <2>1 DEF Wants
    <2>4. mode # Off /\ DefaultMode # Off
      BY DEF Modes, Off
    <2>5. CASE UNCHANGED task /\ ~Alive
      <3>1. ~Alive'
        BY <1>3, <2>5 DEF Subscribe, Alive
      <3> QED BY <3>1 DEF FeedOK
    <2>6. CASE /\ Become(u, Sending("mode", tokens, mode))
               /\ Sends(Added(feed[websocket], tokens))
      <3>1. /\ task'[u].pc = "mode" /\ task'[u].tokens = tokens /\ task'[u].mode = mode
            /\ \A j \in Tasks \ {u} : task'[j] = task[j]
        BY <2>6, BecomeOne, StatePcs
      <3>2. ASSUME Alive', NEW t \in Tokens
            PROVE  /\ feed'[websocket'][t] = Off <=> wanted'[t] = Off
                   /\ feed'[websocket'][t] = wanted'[t] \/ t \in torn' \/ Pending(t)'
        <4>1. Alive /\ websocket' = websocket /\ torn' = torn
          BY <1>3, <3>2 DEF Subscribe, Alive
        <4>2. feed'[websocket][t] =
                  IF t \in tokens /\ feed[websocket][t] = Off THEN DefaultMode
                                                             ELSE feed[websocket][t]
          BY <1>0, <2>6, <4>1 DEF Sends, Added
        <4>3. CASE t \in tokens
          <5>1. Pending(t)'
            BY <2>3, <3>1, <4>3 DEF Pending, At
          <5> QED BY <2>3, <2>4, <4>1, <4>2, <4>3, <5>1
        <4>4. CASE t \notin tokens
          <5>1. Pending(t) => Pending(t)'
            BY <1>3, <2>2, <2>3, <3>1, <4>4 DEF Pending, At, Subscribe
          <5>2. /\ feed[websocket][t] = Off <=> wanted[t] = Off
                /\ feed[websocket][t] = wanted[t] \/ t \in torn \/ Pending(t)
            BY <4>1 DEF FeedOK
          <5> QED BY <2>3, <4>1, <4>2, <4>4, <5>1, <5>2
        <4> QED BY <4>3, <4>4
      <3> QED BY <3>2 DEF FeedOK
    <2>7. websocket = NoSocket => ~Alive
      BY DEF Alive
    <2> QED BY <2>1, <2>5, <2>6, <2>7
  <1>4. CASE SendMode(u)
    <2> DEFINE tokens == task[u].tokens
               mode   == task[u].mode
    <2>1. /\ task'[u].pc = "idle"
          /\ \A j \in Tasks \ {u} : task'[j] = task[j]
      BY <1>4, BecomeOne, StatePcs DEF SendMode
    <2>2. UNCHANGED wanted /\ mode \in Modes
      BY <1>4 DEF SendMode, At, TypeOK, TaskStates
    <2>3. mode # Off
      BY <2>2 DEF Modes, Off
    <2>4. ASSUME Alive', NEW t \in Tokens
          PROVE  /\ feed'[websocket'][t] = Off <=> wanted'[t] = Off
                 /\ feed'[websocket'][t] = wanted'[t] \/ t \in torn' \/ Pending(t)'
      <3>1. Alive /\ websocket' = websocket
        BY <1>4, <2>4 DEF SendMode, Alive
      <3>2. /\ feed' = [feed EXCEPT ![websocket] = Changed(feed[websocket], tokens, mode)]
            /\ torn' = (torn \ tokens) \cup {x \in tokens : wanted[x] \notin {Off, mode}}
        BY <1>4, <3>1 DEF SendMode, Sends, MendsOrTears, Overtaken, Alive
      <3>3. feed'[websocket][t] =
                IF t \in tokens /\ feed[websocket][t] # Off THEN mode ELSE feed[websocket][t]
        BY <1>0, <3>1, <3>2 DEF Changed
      <3>4. /\ feed[websocket][t] = Off <=> wanted[t] = Off
            /\ feed[websocket][t] = wanted[t] \/ t \in torn \/ Pending(t)
        BY <3>1 DEF FeedOK
      <3>5. CASE t \in tokens
        BY <2>2, <2>3, <3>1, <3>2, <3>3, <3>4, <3>5
      <3>6. CASE t \notin tokens
        <4>1. Pending(t) => Pending(t)'
          BY <2>1, <2>2, <3>6 DEF Pending, At
        <4> QED BY <2>2, <3>1, <3>2, <3>3, <3>4, <3>6, <4>1
      <3> QED BY <3>5, <3>6
    <2> QED BY <2>4 DEF FeedOK
  <1>5. CASE Unsubscribe(u)
    <2>1. PICK tokens \in (SUBSET Tokens) \ {{}} :
              /\ Wants(tokens, Off)
              /\ IF websocket = NoSocket
                   THEN UNCHANGED feed
                   ELSE Sends(Removed(feed[websocket], tokens))
              /\ Mends(tokens)
      BY <1>5 DEF Unsubscribe
    <2>2. UNCHANGED task
      BY <1>5 DEF Unsubscribe
    <2>3. \A t \in Tokens : wanted'[t] = IF t \in tokens THEN Off ELSE wanted[t]
      BY <2>1 DEF Wants
    <2>5. ASSUME Alive', NEW t \in Tokens
          PROVE  /\ feed'[websocket'][t] = Off <=> wanted'[t] = Off
                 /\ feed'[websocket'][t] = wanted'[t] \/ t \in torn' \/ Pending(t)'
      <3>1. Alive /\ websocket' = websocket
        BY <1>5, <2>5 DEF Unsubscribe, Alive
      <3>2. /\ feed' = [feed EXCEPT ![websocket] = Removed(feed[websocket], tokens)]
            /\ torn' = torn \ tokens
        BY <2>1, <3>1 DEF Sends, Mends, Alive
      <3>3. feed'[websocket][t] = IF t \in tokens THEN Off ELSE feed[websocket][t]
        BY <1>0, <3>1, <3>2 DEF Removed
      <3>4. /\ feed[websocket][t] = Off <=> wanted[t] = Off
            /\ feed[websocket][t] = wanted[t] \/ t \in torn \/ Pending(t)
        BY <3>1 DEF FeedOK
      <3>5. t \notin tokens /\ Pending(t) => Pending(t)'
        BY <2>2, <2>3 DEF Pending, At
      <3> QED BY <2>3, <3>1, <3>2, <3>3, <3>4, <3>5
    <2>6. FeedOK'
      BY <2>5 DEF FeedOK
    <2> QED BY <2>6
  <1>6. CASE SetMode(u)
    <2>1. PICK tokens \in (SUBSET Subscribed) \ {{}}, mode \in Modes :
              /\ Wants(tokens, mode)
              /\ IF websocket = NoSocket
                   THEN UNCHANGED feed
                   ELSE Sends(Changed(feed[websocket], tokens, mode))
              /\ Mends(tokens)
      BY <1>6 DEF SetMode
    <2>2. UNCHANGED task
      BY <1>6 DEF SetMode
    <2>3. \A t \in Tokens : wanted'[t] = IF t \in tokens THEN mode ELSE wanted[t]
      BY <2>1 DEF Wants
    <2>4. mode # Off /\ \A t \in tokens : wanted[t] # Off
      BY DEF Modes, Off, Subscribed
    <2>6. ASSUME Alive', NEW t \in Tokens
          PROVE  /\ feed'[websocket'][t] = Off <=> wanted'[t] = Off
                 /\ feed'[websocket'][t] = wanted'[t] \/ t \in torn' \/ Pending(t)'
      <3>1. Alive /\ websocket' = websocket
        BY <1>6, <2>6 DEF SetMode, Alive
      <3>2. /\ feed' = [feed EXCEPT ![websocket] = Changed(feed[websocket], tokens, mode)]
            /\ torn' = torn \ tokens
        BY <2>1, <3>1 DEF Sends, Mends, Alive
      <3>3. feed'[websocket][t] =
                IF t \in tokens /\ feed[websocket][t] # Off THEN mode ELSE feed[websocket][t]
        BY <1>0, <3>1, <3>2 DEF Changed
      <3>4. /\ feed[websocket][t] = Off <=> wanted[t] = Off
            /\ feed[websocket][t] = wanted[t] \/ t \in torn \/ Pending(t)
        BY <3>1 DEF FeedOK
      <3>5. t \notin tokens /\ Pending(t) => Pending(t)'
        BY <2>2, <2>3 DEF Pending, At
      <3> QED BY <2>3, <2>4, <3>1, <3>2, <3>3, <3>4, <3>5
    <2>7. FeedOK'
      BY <2>6 DEF FeedOK
    <2> QED BY <2>7
  <1>7. CASE SetModeFails(u)
    <2>1. PICK tokens \in (SUBSET Subscribed) \ {{}}, mode \in Modes :
              Wants(tokens, mode) /\ torn' = torn \cup tokens
      BY <1>7 DEF SetModeFails
    <2>2. UNCHANGED task
      BY <1>7 DEF SetModeFails
    <2>3. \A t \in Tokens : wanted'[t] = IF t \in tokens THEN mode ELSE wanted[t]
      BY <2>1 DEF Wants
    <2>4. mode # Off /\ \A t \in tokens : wanted[t] # Off
      BY DEF Modes, Off, Subscribed
    <2>6. ASSUME Alive', NEW t \in Tokens
          PROVE  /\ feed'[websocket'][t] = Off <=> wanted'[t] = Off
                 /\ feed'[websocket'][t] = wanted'[t] \/ t \in torn' \/ Pending(t)'
      <3>1. Alive /\ websocket' = websocket /\ feed' = feed
        BY <1>7, <2>6 DEF SetModeFails, Alive
      <3>2. /\ feed[websocket][t] = Off <=> wanted[t] = Off
            /\ feed[websocket][t] = wanted[t] \/ t \in torn \/ Pending(t)
        BY <3>1 DEF FeedOK
      <3>3. t \notin tokens /\ Pending(t) => Pending(t)'
        BY <2>2, <2>3 DEF Pending, At
      <3> QED BY <2>1, <2>3, <2>4, <3>1, <3>2, <3>3
    <2>7. FeedOK'
      BY <2>6 DEF FeedOK
    <2> QED BY <2>7
  <1> QED BY <1>1, <1>2, <1>3, <1>4, <1>5, <1>6, <1>7 DEF UserCall

LEMMA FailsKeeps ==
    ASSUME TypeOK, NEW k \in Tasks, NEW n, Fails(k, n)
    PROVE  /\ task'[k].pc \notin {"replay", "mode"}
           /\ \A j \in Tasks \ {k} : task'[j] = task[j]
           /\ websocket' = IF k = Listener THEN NoSocket ELSE websocket
  BY BecomeOne, StatePcs DEF Fails

LEMMA ConnectedKeeps ==
    ASSUME TypeOK, NEW k \in Tasks, Connected(k)
    PROVE  /\ task'[k].pc \notin {"replay", "mode"}
           /\ \A j \in Tasks \ {k} : task'[j] = task[j]
           /\ websocket' = websocket \/ websocket' = NoSocket
  <1>1. CASE Become(k, Idle) /\ UNCHANGED websocket
    BY <1>1, BecomeOne, StatePcs
  <1>2. CASE Become(k, Consuming(websocket)) /\ UNCHANGED websocket
    BY <1>2, BecomeOne, StatePcs
  <1>3. CASE Fails(k, 0)
    BY <1>3, FailsKeeps
  <1> QED BY <1>1, <1>2, <1>3 DEF Connected

\* The new connection is subscribed to what is wanted, and the replay brings the modes.
LEMMA OpenedFeed ==
    ASSUME TypeOK, NEW k \in Tasks, Opened(k)
    PROVE  FeedOK'
  <1>1. PICK s \in Fresh :
            /\ websocket' = s
            /\ link' = [link EXCEPT ![s] = "open"]
            /\ feed' = [feed EXCEPT ![s] = Added(AllOff, Subscribed)]
            /\ Become(k, IF Subscribed # {} THEN Sending("replay", Subscribed, 1)
                         ELSE IF k = Listener THEN Consuming(s) ELSE Idle)
    BY DEF Opened
  <1>2. s \in Sockets /\ UNCHANGED wanted
    BY DEF Fresh, Opened
  <1>3. /\ task'[k].pc # "mode"
        /\ Subscribed # {} =>
               task'[k].pc = "replay" /\ task'[k].tokens = Subscribed /\ task'[k].mode = 1
        /\ \A j \in Tasks \ {k} : task'[j] = task[j]
    BY <1>1, BecomeOne, StatePcs
  <1>4. ASSUME NEW t \in Tokens
        PROVE  /\ feed'[websocket'][t] = Off <=> wanted'[t] = Off
               /\ feed'[websocket'][t] = wanted'[t] \/ Pending(t)'
    <2>1. feed'[s][t] = IF t \in Subscribed THEN DefaultMode ELSE Off
      BY <1>1, <1>2 DEF TypeOK, Added, AllOff
    <2>2. t \in Subscribed <=> wanted[t] # Off
      BY DEF Subscribed
    <2>3. CASE t \in Subscribed
      <3>1. wanted[t] \in Feeds
        BY DEF TypeOK
      <3>2. wanted[t] >= 1
        BY <2>2, <2>3, <3>1 DEF Feeds, Modes, Off
      <3>3. Pending(t)'
        BY <1>2, <1>3, <2>3, <3>2 DEF Pending, At
      <3> QED BY <1>1, <1>2, <2>1, <2>2, <2>3, <3>3 DEF Off
    <2> QED BY <1>1, <1>2, <2>1, <2>2, <2>3
  <1> QED BY <1>4 DEF FeedOK

\* One message of a replay: the least mode that is left is settled.
LEMMA SendDueFeed ==
    ASSUME TypeOK, FeedOK, NEW k \in Tasks, At(k, "replay"), SendDue(k),
           UNCHANGED <<websocket, wanted, link, torn>>
    PROVE  FeedOK'
  <1>1. PICK m \in Due(k) :
            /\ \A n \in Due(k) : m <= n
            /\ Sends(Changed(feed[websocket], {t \in task[k].tokens : wanted[t] = m}, m))
            /\ Become(k, Sending("replay", task[k].tokens, m + 1))
    BY DEF SendDue
  <1>2. /\ task'[k].pc = "replay" /\ task'[k].tokens = task[k].tokens /\ task'[k].mode = m + 1
        /\ \A j \in Tasks \ {k} : task'[j] = task[j]
    BY <1>1, BecomeOne, StatePcs
  <1>3. ASSUME Alive', NEW t \in Tokens
        PROVE  /\ feed'[websocket'][t] = Off <=> wanted'[t] = Off
               /\ feed'[websocket'][t] = wanted'[t] \/ t \in torn' \/ Pending(t)'
    <2>1. Alive /\ websocket \in Sockets
      BY <1>3 DEF Alive, TypeOK
    <2>2. feed'[websocket][t] =
              IF t \in task[k].tokens /\ wanted[t] = m /\ feed[websocket][t] # Off
                THEN m ELSE feed[websocket][t]
      BY <1>1, <2>1 DEF Sends, Changed, TypeOK
    <2>3. /\ feed[websocket][t] = Off <=> wanted[t] = Off
          /\ feed[websocket][t] = wanted[t] \/ t \in torn \/ Pending(t)
      BY <2>1 DEF FeedOK
    <2>4. wanted[t] \in 0..ModeCount /\ task[k].mode \in 0..(ModeCount + 1) /\ m \in Int
      BY DEF Due, TypeOK, TaskStates, Feeds, Modes, Off
    <2>5. CASE t \in task[k].tokens /\ wanted[t] = m
      BY <2>2, <2>3, <2>5
    <2>6. CASE ~(t \in task[k].tokens /\ wanted[t] = m)
      <3>1. ASSUME NEW j \in Tasks, t \in task[j].tokens,
                   \/ At(j, "mode") /\ wanted[t] = task[j].mode
                   \/ At(j, "replay") /\ wanted[t] >= task[j].mode
            PROVE  Pending(t)'
        <4>1. CASE j # k
          BY <1>2, <3>1, <4>1 DEF Pending, At
        <4>2. CASE j = k
          <5>1. wanted[t] \in Due(k)
            BY <2>4, <3>1, <4>2 DEF At, Due
          <5>2. wanted[t] >= m + 1
            BY <1>1, <2>4, <2>6, <3>1, <4>2, <5>1
          <5> QED BY <1>2, <3>1, <4>2, <5>2 DEF Pending, At
        <4> QED BY <4>1, <4>2
      <3>2. Pending(t) => Pending(t)'
        BY <3>1 DEF Pending
      <3> QED BY <2>2, <2>3, <2>6, <3>2
    <2> QED BY <2>5, <2>6
  <1> QED BY <1>3 DEF FeedOK

LEMMA ConnectingFeed ==
    ASSUME TypeOK, FeedOK, NEW k \in Tasks, Connecting(k)
    PROVE  FeedOK'
  <1>1. CASE ConnectFails(k)
    <2>1. task[k].pc \notin {"replay", "mode"}
      BY <1>1 DEF ConnectFails, At
    <2> QED BY <1>1, <2>1, FailsKeeps, FeedKept DEF ConnectFails, Alive
  <1>2. CASE Opened(k)
    BY <1>2, OpenedFeed
  <1>3. CASE Replay(k)
    <2>1. CASE Due(k) = {} /\ Connected(k) /\ UNCHANGED feed
      BY <1>3, <2>1, ConnectedKeeps, FeedKept DEF Replay, Alive
    <2>2. CASE SendDue(k) /\ UNCHANGED websocket
      BY <1>3, <2>2, SendDueFeed DEF Replay
    <2>3. CASE ~Alive /\ Fails(k, attempt) /\ UNCHANGED feed
      <3>1. ~Alive'
        BY <1>3, <2>3, FailsKeeps DEF Replay, Alive
      <3> QED BY <1>3, <2>3, <3>1, FailsKeeps, FeedKept DEF Replay
    <2> QED BY <1>3, <2>1, <2>2, <2>3 DEF Replay
  <1> QED BY <1>1, <1>2, <1>3 DEF Connecting

\* What listen does outside connect, and what happens to it and to its connections.
LEMMA OtherStepFeed ==
    ASSUME TypeOK, FeedOK,
           \/ \E k \in Tasks : Cancel(k)
           \/ Listen \/ Streaming \/ MessageFails
           \/ \E s \in Sockets : Drop(s)
           \/ UNCHANGED vars
    PROVE  FeedOK'
  <1> Listener \in Tasks
    BY DEF Tasks
  <1>1. ASSUME NEW k \in Tasks, Cancel(k) PROVE FeedOK'
    <2>1. task'[k].pc = "idle" /\ \A j \in Tasks \ {k} : task'[j] = task[j]
      BY <1>1, BecomeOne, StatePcs DEF Cancel
    <2> QED BY <1>1, <2>1, FeedKept DEF Cancel, Alive
  <1>2. ASSUME task[Listener].pc \notin {"replay", "mode"},
               task'[Listener].pc \notin {"replay", "mode"},
               \A j \in Tasks \ {Listener} : task'[j] = task[j],
               websocket' \in {websocket, NoSocket},
               UNCHANGED <<wanted, link, feed, torn>>
        PROVE  FeedOK'
    BY <1>2, FeedKept DEF Alive
  <1>3. ASSUME Loop \/ Fails(Listener, attempt)
        PROVE  /\ task'[Listener].pc \notin {"replay", "mode"}
               /\ \A j \in Tasks \ {Listener} : task'[j] = task[j]
    BY <1>3, FailsKeeps, BecomeOne, StatePcs DEF Loop
  <1>4. CASE Listen
    <2>1. /\ task'[Listener].pc \notin {"replay", "mode"}
          /\ \A j \in Tasks \ {Listener} : task'[j] = task[j]
      BY <1>4, BecomeOne, StatePcs DEF Listen, At
    <2> QED BY <1>2, <1>4, <2>1 DEF Listen, At
  <1>5. CASE Streaming \/ MessageFails
    <2>1. Loop \/ Fails(Listener, attempt)
      BY <1>5 DEF Streaming, StreamEnds, StreamFails, Wake, MessageFails
    <2>2. /\ task[Listener].pc \notin {"replay", "mode"}
          /\ websocket' \in {websocket, NoSocket}
          /\ UNCHANGED <<wanted, link, feed, torn>>
      BY <1>5, FailsKeeps DEF Streaming, StreamEnds, StreamFails, Wake, MessageFails, At
    <2> QED BY <1>2, <1>3, <2>1, <2>2
  <1>6. ASSUME NEW s \in Sockets, Drop(s) PROVE FeedOK'
    <2>1. Alive' => Alive /\ websocket # s
      BY <1>6 DEF Drop, Alive, TypeOK
    <2> QED BY <1>6, <2>1, FeedKept DEF Drop, TypeOK
  <1>7. CASE UNCHANGED vars
    BY <1>7, FeedKept DEF vars, Alive
  <1> QED BY <1>1, <1>4, <1>5, <1>6, <1>7

------------------------------------------------------------------------------
LEMMA InitIInv == Init => IInv
  <1> SUFFICES ASSUME Init PROVE IInv
    OBVIOUS
  <1>1. TypeOK
    <2>1. Idle \in TaskStates
      BY StateTypes
    <2>2. AllOff \in [Tokens -> Feeds]
      BY DEF AllOff, Feeds
    <2>3. 0 \in 0..MaxReconnects
      OBVIOUS
    <2> QED BY <2>1, <2>2, <2>3 DEF Init, TypeOK, Links
  <1>2. FeedOK
    BY StatePcs DEF Init, FeedOK, Alive
  <1> QED BY <1>1, <1>2 DEF IInv

LEMMA StepIInv == IInv /\ [Next]_vars => IInv'
  <1> SUFFICES ASSUME IInv, [Next]_vars PROVE IInv'
    OBVIOUS
  <1>1. TypeOK /\ TypeOK'
    BY TypeStep DEF IInv
  <1>2. FeedOK
    BY DEF IInv
  <1>3. FeedOK'
    BY <1>1, <1>2, UserStepFeed, ConnectingFeed, OtherStepFeed DEF Next
  <1> QED BY <1>1, <1>3 DEF IInv

LEMMA IInvHolds == Spec => []IInv
  BY InitIInv, StepIInv, PTL DEF Spec

\* Every field, task and connection keeps its type for any number of tokens, modes and
\* connections; the attempts that listen counts stay within the configured ones.
THEOREM TypeCorrect == Spec => []TypeOK
  <1>1. IInv => TypeOK
    BY DEF IInv
  <1> QED BY <1>1, IInvHolds, PTL

\* With nothing left to send the server sends what is wanted, but for messages that were not
\* sent or were overtaken: on any connection, however often it was lost and replayed, for any
\* user tasks, tokens and modes.
THEOREM FeedIsWantedHolds == Spec => []FeedIsWanted
  <1>1. IInv => FeedIsWanted
    BY DEF IInv, FeedOK, FeedIsWanted, Pending, Sendings, At
  <1> QED BY <1>1, IInvHolds, PTL

\* A task that does not begin a connect.
LEMMA OpeningKept ==
    ASSUME TypeOK, NEW k \in Tasks, NEW q, Become(k, q), q.pc # "opening"
    PROVE  Opening' \subseteq Opening /\ (At(k, "opening") => Opening' # Opening)
  BY BecomeOne DEF Opening, At

LEMMA FailsOpening ==
    ASSUME TypeOK, NEW k \in Tasks, NEW n, Fails(k, n)
    PROVE  Opening' \subseteq Opening /\ websocket' \in {websocket, NoSocket}
  BY OpeningKept, StatePcs DEF Fails

LEMMA UserStepOpening ==
    ASSUME TypeOK, closed, NEW u \in Users, UserCall(u), ~Connect(u)
    PROVE  closed' /\ Opening' \subseteq Opening /\ websocket' \in {websocket, NoSocket}
  <1> u \in Tasks
    BY DEF Tasks
  <1>1. CASE task' = task
    BY <1>1 DEF UserCall, Close, Subscribe, SendMode, Unsubscribe, SetMode, SetModeFails,
                Opening, At
  <1>2. CASE Subscribe(u) /\ task' # task
    <2>1. PICK tokens, mode : Become(u, Sending("mode", tokens, mode))
      BY <1>2 DEF Subscribe
    <2> QED BY <1>2, <2>1, OpeningKept, StatePcs DEF Subscribe
  <1>3. CASE SendMode(u)
    BY <1>3, OpeningKept, StatePcs DEF SendMode
  <1> QED BY <1>1, <1>2, <1>3 DEF UserCall, Close, Unsubscribe, SetMode, SetModeFails

\* Opened is the one step that sets the connection, and it is the end of an opening.
LEMMA ConnectingOpening ==
    ASSUME TypeOK, closed, NEW k \in Tasks, Connecting(k)
    PROVE  /\ closed' /\ Opening' \subseteq Opening
           /\ Opening' = Opening => websocket' \in {websocket, NoSocket}
  <1>1. CASE ConnectFails(k)
    BY <1>1, FailsOpening DEF ConnectFails
  <1>2. CASE Opened(k)
    <2>1. PICK s \in Fresh :
              Become(k, IF Subscribed # {} THEN Sending("replay", Subscribed, 1)
                        ELSE IF k = Listener THEN Consuming(s) ELSE Idle)
      BY <1>2 DEF Opened
    <2> DEFINE q == IF Subscribed # {} THEN Sending("replay", Subscribed, 1)
                    ELSE IF k = Listener THEN Consuming(s) ELSE Idle
    <2>2. q.pc # "opening"
      BY StatePcs
    <2>3. Become(k, q)
      BY <2>1
    <2> HIDE DEF q
    <2> QED BY <1>2, <2>2, <2>3, OpeningKept DEF Opened
  <1>3. CASE Replay(k)
    <2>1. CASE Connected(k)
      <3>1. CASE Fails(k, 0)
        BY <1>3, <3>1, FailsOpening DEF Replay
      <3>2. CASE UNCHANGED websocket /\ (Become(k, Idle) \/ Become(k, Consuming(websocket)))
        BY <1>3, <3>2, OpeningKept, StatePcs DEF Replay
      <3> QED BY <2>1, <3>1, <3>2 DEF Connected
    <2>2. CASE SendDue(k) /\ UNCHANGED websocket
      <3>1. PICK m : Become(k, Sending("replay", task[k].tokens, m))
        BY <2>2 DEF SendDue
      <3> QED BY <1>3, <2>2, <3>1, OpeningKept, StatePcs DEF Replay
    <2>3. CASE Fails(k, attempt)
      BY <1>3, <2>3, FailsOpening DEF Replay
    <2> QED BY <1>3, <2>1, <2>2, <2>3 DEF Replay
  <1> QED BY <1>1, <1>2, <1>3 DEF Connecting

\* For any users and connections: after close only connects that were under way open
\* a connection, one each, until a user connects again.
THEOREM OnlyPendingOpenHolds == Spec => OnlyPendingOpen
  <1> DEFINE Kept == /\ closed' /\ Opening' \subseteq Opening
                     /\ Opening' = Opening => websocket' \in {websocket, NoSocket}
             Again == \E u \in Users : At(u, "idle") /\ task'[u].pc = "opening" /\ websocket' = NoSocket
  <1>1. IInv /\ [Next]_vars => [closed => Kept \/ Again]_vars
    <2> SUFFICES ASSUME IInv, Next, closed PROVE Kept \/ Again
      BY DEF vars
    <2>0. TypeOK /\ Listener \in Tasks
      BY DEF IInv, Tasks
    <2>1. ASSUME NEW u \in Users, UserCall(u) PROVE Kept \/ Again
      <3>1. CASE Connect(u)
        BY <2>0, <3>1, BecomeOne, StatePcs DEF Connect, Tasks
      <3> QED BY <2>0, <2>1, <3>1, UserStepOpening
    <2>2. ASSUME NEW k \in Tasks, Connecting(k) PROVE Kept
      BY <2>0, <2>2, ConnectingOpening
    <2>3. ASSUME NEW k \in Tasks, Cancel(k) PROVE Kept
      BY <2>0, <2>3, OpeningKept, StatePcs DEF Cancel
    <2>4. CASE Loop /\ UNCHANGED <<websocket, closed>>
      BY <2>0, <2>4, OpeningKept, StatePcs DEF Loop
    <2>5. CASE Listen
      BY <2>5 DEF Listen, Opening, At
    <2>6. CASE (StreamFails \/ MessageFails)
      BY <2>0, <2>6, FailsOpening DEF StreamFails, MessageFails
    <2>7. ASSUME NEW s \in Sockets, Drop(s) PROVE Kept
      BY <2>7 DEF Drop, Opening, At
    <2> QED BY <2>1, <2>2, <2>3, <2>4, <2>5, <2>6, <2>7
            DEF Next, Streaming, StreamEnds, Wake
  <1> QED BY <1>1, IInvHolds, PTL DEF Spec, OnlyPendingOpen
------------------------------------------------------------------------------
(* Reconnection ends: the steps listen has left until a connect of its own returns. *)

Reconnecting == task[Listener].pc \in {"sleep", "opening", "replay"}

\* All that was subscribed is replayed: the connect that listen awaits returns.
Replayed == At(Listener, "replay") /\ Due(Listener) = {}

\* The wait, the opening and at most one message for each mode.
AttemptSteps == ModeCount + 2

\* In an attempt, by the task's state q.
Place(q) ==
    CASE q.pc = "sleep" -> AttemptSteps
      [] q.pc = "opening" -> ModeCount + 1
      [] q.pc = "replay" -> ModeCount + 1 - q.mode

\* The most steps that listen, in state q, has left to take with n attempts failed.
StepsLeft(q, n) == (MaxReconnects - n) * AttemptSteps + Place(q)

\* Until a connect of its own returns, listen takes a bounded number of steps: it waits,
\* opens and replays, and gives up when as many attempts as configured have failed,
\* whatever the users do with the client meanwhile and wherever the replay fails.
ReconnectSteps ==
    [][Reconnecting =>
          LET left == StepsLeft(task[Listener], attempt)
              after == StepsLeft(task'[Listener], attempt')
          IN  /\ left \in 0..(MaxReconnects + 1) * AttemptSteps
              /\ Connecting(Listener) \/ Wake => ~Reconnecting' \/ Replayed \/ after < left
              /\ Reconnecting' /\ ~Replayed => after <= left]_vars

\* How a step of listen that leaves it reconnecting changes its state q, and the attempts n.
Nearer(q, n, new, failed) ==
    \/ q.pc = "sleep" /\ new.pc = "opening" /\ failed = n
    \/ q.pc = "opening" /\ new.pc = "replay" /\ new.mode = 1 /\ failed = n
    \/ /\ q.pc = "replay" /\ new.pc = "replay"
       /\ q.mode < new.mode /\ failed = n
    \/ q.pc = "opening" /\ new.pc = "sleep" /\ failed = n + 1
    \/ q.pc = "replay" /\ q.mode <= ModeCount /\ new.pc = "sleep" /\ failed = n + 1

LEMMA FailsMoves ==
    ASSUME TypeOK, Fails(Listener, attempt)
    PROVE  task'[Listener].pc = "idle" \/ (task'[Listener].pc = "sleep" /\ attempt' = attempt + 1)
  <1> Listener \in Tasks
    BY DEF Tasks
  <1> QED BY BecomeOne, StatePcs DEF Fails

LEMMA ListenMoves ==
    ASSUME TypeOK, Reconnecting, Connecting(Listener) \/ Wake
    PROVE  \/ ~Reconnecting' \/ Replayed
           \/ Nearer(task[Listener], attempt, task'[Listener], attempt')
  <1> Listener \in Tasks
    BY DEF Tasks
  <1>1. CASE Wake
    BY <1>1, BecomeOne, StatePcs DEF Wake, Loop, At, Reconnecting, Nearer
  <1>2. CASE ConnectFails(Listener)
    BY <1>2, FailsMoves DEF ConnectFails, At, Reconnecting, Nearer
  <1>3. CASE Opened(Listener)
    <2>1. task[Listener].pc = "opening"
      BY <1>3 DEF Opened, At
    <2>2. PICK s \in Fresh :
              Become(Listener, IF Subscribed # {} THEN Sending("replay", Subscribed, 1)
                               ELSE IF Listener = Listener THEN Consuming(s) ELSE Idle)
      BY <1>3 DEF Opened
    <2>3. CASE Subscribed # {}
      <3>1. attempt' = attempt
        BY <1>3, <2>3 DEF Opened
      <3>2. task'[Listener] = Sending("replay", Subscribed, 1)
        BY <2>2, <2>3, BecomeOne
      <3> QED BY <2>1, <3>1, <3>2, StatePcs DEF Nearer
    <2>4. CASE Subscribed = {}
      <3>1. task'[Listener] = Consuming(s)
        BY <2>2, <2>4, BecomeOne
      <3> QED BY <3>1, StatePcs DEF Reconnecting
    <2> QED BY <2>3, <2>4
  <1>4. CASE Replay(Listener) /\ ~Replayed
    <2>1. task[Listener].pc = "replay" /\ Due(Listener) # {}
      BY <1>4 DEF Replay, Replayed, At
    <2>2. PICK m \in Due(Listener) : TRUE
      BY <2>1
    <2>3. task[Listener].mode \in Int /\ task[Listener].mode <= ModeCount
      <3>1. task[Listener].mode \in 0..(ModeCount + 1)
        BY DEF TypeOK, TaskStates
      <3> QED BY <2>2, <3>1 DEF Due
    <2>4. CASE SendDue(Listener) /\ UNCHANGED attempt
      <3>1. PICK n \in Due(Listener) :
                Become(Listener, Sending("replay", task[Listener].tokens, n + 1))
        BY <2>4 DEF SendDue
      <3>2. task'[Listener] = Sending("replay", task[Listener].tokens, n + 1)
        BY <3>1, BecomeOne
      <3>3. n \in Int /\ task[Listener].mode <= n
        BY <2>3 DEF Due
      <3>4. task'[Listener].pc = "replay" /\ task'[Listener].mode = n + 1
        BY <3>2, StatePcs
      <3> QED BY <2>1, <2>3, <2>4, <3>3, <3>4 DEF Nearer
    <2>5. CASE Fails(Listener, attempt)
      BY <2>1, <2>3, <2>5, FailsMoves DEF Reconnecting, Nearer
    <2> QED BY <1>4, <2>1, <2>4, <2>5 DEF Replay
  <1> QED BY <1>1, <1>2, <1>3, <1>4 DEF Connecting

\* The attempts that are left, times the steps of one.
LEMMA AttemptsLeft ==
    ASSUME NEW n \in 0..MaxReconnects
    PROVE  /\ (MaxReconnects - n) * AttemptSteps \in Nat
           /\ (MaxReconnects - n) * AttemptSteps + AttemptSteps
                  <= (MaxReconnects + 1) * AttemptSteps
           /\ (MaxReconnects - (n + 1)) * AttemptSteps
                  = (MaxReconnects - n) * AttemptSteps - AttemptSteps
  <1> DEFINE k == AttemptSteps
             a == MaxReconnects - n
  <1>1. k \in Nat /\ a \in Nat /\ a <= MaxReconnects /\ MaxReconnects - (n + 1) = a - 1
    BY DEF AttemptSteps
  <1> HIDE DEF k, a
  <1>2. a * k \in Nat /\ a * k <= MaxReconnects * k
    BY <1>1
  <1>3. (MaxReconnects + 1) * k = MaxReconnects * k + k /\ (a - 1) * k = a * k - k
    BY <1>1
  <1>4. a * k + k <= MaxReconnects * k + k
    BY <1>1, <1>2
  <1> QED BY <1>1, <1>2, <1>3, <1>4 DEF k, a

LEMMA PlaceType ==
    ASSUME NEW q \in TaskStates, q.pc \in {"sleep", "opening", "replay"}
    PROVE  Place(q) \in 0..AttemptSteps
  <1>1. q.mode \in 0..(ModeCount + 1)
    BY DEF TaskStates
  <1> QED BY <1>1 DEF Place, AttemptSteps

LEMMA NearerIsLess ==
    ASSUME NEW q \in TaskStates, NEW new \in TaskStates, NEW n \in 0..MaxReconnects, NEW failed,
           Nearer(q, n, new, failed)
    PROVE  StepsLeft(new, failed) < StepsLeft(q, n)
  <1>1. q.mode \in 0..(ModeCount + 1) /\ new.mode \in 0..(ModeCount + 1)
    BY DEF TaskStates
  <1>2. \/ failed = n /\ Place(new) < Place(q)
        \/ failed = n + 1 /\ Place(new) = AttemptSteps /\ Place(q) > 0
    BY <1>1 DEF Nearer, Place, AttemptSteps
  <1>3. Place(new) \in Int /\ Place(q) \in Int /\ AttemptSteps \in Nat
    BY <1>1 DEF Nearer, Place, AttemptSteps
  <1> DEFINE rest == (MaxReconnects - n) * AttemptSteps
             less == (MaxReconnects - (n + 1)) * AttemptSteps
  <1>4. rest \in Nat /\ less = rest - AttemptSteps
    BY AttemptsLeft
  <1>5. StepsLeft(q, n) = rest + Place(q)
    BY DEF StepsLeft
  <1>6. CASE failed = n /\ Place(new) < Place(q)
    <2>1. StepsLeft(new, failed) = rest + Place(new)
      BY <1>6 DEF StepsLeft
    <2> HIDE DEF rest, less
    <2> QED BY <1>3, <1>4, <1>5, <1>6, <2>1
  <1>7. CASE failed = n + 1 /\ Place(new) = AttemptSteps /\ Place(q) > 0
    <2>1. StepsLeft(new, failed) = less + Place(new)
      BY <1>7 DEF StepsLeft
    <2> HIDE DEF rest, less
    <2> QED BY <1>3, <1>4, <1>5, <1>7, <2>1
  <1> QED BY <1>2, <1>6, <1>7

\* What is not a step of listen changes neither its state nor the count; a message that
\* fails, and a cancellation, are not of one that reconnects or leave it none.
LEMMA OthersKeep ==
    ASSUME TypeOK, [Next]_vars, Reconnecting, ~Connecting(Listener), ~Wake
    PROVE  \/ ~Reconnecting'
           \/ task'[Listener] = task[Listener] /\ attempt' = attempt
  <1> Listener \in Tasks /\ Users \subseteq Tasks /\ \A u \in Users : u # Listener
    BY DEF Tasks, Listener
  <1>1. ASSUME NEW u \in Users, UserCall(u)
        PROVE  task'[Listener] = task[Listener] /\ attempt' = attempt
    <2>1. attempt' = attempt
      BY <1>1 DEF UserCall, Connect, Close, Subscribe, SendMode, Unsubscribe, SetMode, SetModeFails
    <2>2. task' = task \/ \E q : Become(u, q)
      BY <1>1 DEF UserCall, Connect, Close, Subscribe, SendMode, Unsubscribe, SetMode, SetModeFails
    <2> QED BY <2>1, <2>2, BecomeOne
  <1>2. ASSUME NEW k \in Tasks, k # Listener, Connecting(k)
        PROVE  task'[Listener] = task[Listener] /\ attempt' = attempt
    <2>1. CASE ConnectFails(k)
      BY <1>2, <2>1, BecomeOne DEF ConnectFails, Fails
    <2>2. CASE Opened(k)
      BY <1>2, <2>2, BecomeOne DEF Opened
    <2>3. CASE Replay(k)
      <3>1. attempt' = attempt
        BY <1>2, <2>3 DEF Replay, Connected, Fails
      <3>2. \E q : Become(k, q)
        BY <1>2, <2>3 DEF Replay, Connected, Fails, SendDue
      <3> QED BY <1>2, <3>1, <3>2, BecomeOne
    <2> QED BY <1>2, <2>1, <2>2, <2>3 DEF Connecting
  <1>3. ASSUME NEW k \in Tasks, Cancel(k)
        PROVE  \/ ~Reconnecting'
               \/ task'[Listener] = task[Listener] /\ attempt' = attempt
    BY <1>3, BecomeOne, StatePcs DEF Cancel, Reconnecting
  <1>4. ~Listen /\ ~StreamEnds /\ ~StreamFails /\ ~MessageFails
    BY DEF Listen, StreamEnds, StreamFails, MessageFails, Reconnecting, At
  <1>5. CASE (\E s \in Sockets : Drop(s)) \/ UNCHANGED vars
    BY <1>5 DEF Drop, vars
  <1> QED BY <1>1, <1>2, <1>3, <1>4, <1>5 DEF Next, Streaming

\* Until a connect of its own returns, listen waits, opens and sends at most
\* (MaxReconnects + 1) * (ModeCount + 2) times, for any number of users, modes and attempts.
THEOREM ReconnectStepsHold == Spec => ReconnectSteps
  <1> DEFINE q == task[Listener]
             A == Reconnecting =>
                      LET left == StepsLeft(q, attempt)
                          after == StepsLeft(task'[Listener], attempt')
                      IN  /\ left \in 0..(MaxReconnects + 1) * AttemptSteps
                          /\ Connecting(Listener) \/ Wake =>
                                 ~Reconnecting' \/ Replayed \/ after < left
                          /\ Reconnecting' /\ ~Replayed => after <= left
  <1>1. ASSUME TypeOK, TypeOK', [Next]_vars, Reconnecting PROVE A
    <2> DEFINE left == StepsLeft(q, attempt)
               after == StepsLeft(task'[Listener], attempt')
    <2>1. /\ q \in TaskStates /\ task'[Listener] \in TaskStates
          /\ attempt \in 0..MaxReconnects /\ attempt' \in 0..MaxReconnects
      BY <1>1 DEF TypeOK, Tasks
    <2>2. left \in 0..(MaxReconnects + 1) * AttemptSteps
      <3> DEFINE rest == (MaxReconnects - attempt) * AttemptSteps
                 all == (MaxReconnects + 1) * AttemptSteps
      <3>1. /\ rest \in Nat /\ rest + AttemptSteps <= all
            /\ AttemptSteps \in Nat
        BY <2>1, AttemptsLeft DEF AttemptSteps
      <3>2. Place(q) \in 0..AttemptSteps
        BY <1>1, <2>1, PlaceType DEF Reconnecting
      <3>3. left = rest + Place(q)
        BY DEF StepsLeft
      <3>4. all \in Int
        BY <3>1
      <3> HIDE DEF rest, all, left
      <3>5. left \in 0..all
        BY <3>1, <3>2, <3>3, <3>4
      <3> QED BY <3>5 DEF all
    <2>3. left \in Int
      BY <2>2
    <2>4. CASE Connecting(Listener) \/ Wake
      <3>1. ~Reconnecting' \/ Replayed \/ Nearer(q, attempt, task'[Listener], attempt')
        BY <1>1, <2>4, ListenMoves
      <3>2. CASE Nearer(q, attempt, task'[Listener], attempt')
        <4>1. after < left
          BY <2>1, <3>2, NearerIsLess
        <4>2. after \in Int
          BY <2>1, <3>2 DEF StepsLeft, Place, Nearer, AttemptSteps, TaskStates
        <4> HIDE DEF after, left
        <4>3. after <= left
          BY <2>3, <4>1, <4>2
        <4> QED BY <2>2, <4>1, <4>3 DEF after, left
      <3> QED BY <2>2, <3>1, <3>2
    <2>5. CASE ~Connecting(Listener) /\ ~Wake
      <3>1. ~Reconnecting' \/ after = left
        BY <1>1, <2>5, OthersKeep
      <3> HIDE DEF after, left
      <3>2. ~Reconnecting' \/ after <= left
        BY <2>3, <3>1
      <3> QED BY <2>2, <2>5, <3>2 DEF after, left
    <2> QED BY <2>4, <2>5
  <1>2. TypeOK /\ TypeOK' /\ [Next]_vars => A
    BY <1>1
  <1> QED BY <1>2, TypeCorrect, PTL DEF Spec, ReconnectSteps
==============================================================================
