--------------------------- MODULE WebSocketClient ---------------------------
(***************************************************************************)
(* `WebSocketClient` (kite_auto/client/websocket_client.py): one task that *)
(* listens and reconnects, and user tasks that connect, close and change   *)
(* the subscriptions meanwhile.  They share the client's fields and        *)
(* interleave at its awaits.                                               *)
(*                                                                         *)
(* A task's pc names the await it is suspended at:                         *)
(*   opening  the token provider, then the factory                         *)
(*   replay   a send of _replay_subscriptions                              *)
(*   mode     the first send of subscribe                                  *)
(*   consume  the next message                                             *)
(*   sleep    on_error, then the wait before a reconnection                *)
(*                                                                         *)
(* A send hands its message to the connection when it is called: messages  *)
(* of all tasks reach the server in that order, or are lost with the       *)
(* connection.  Messages from the server are left out, except that one may *)
(* be malformed or fail its handler.                                       *)
(***************************************************************************)
EXTENDS Integers

CONSTANTS
    Users,          \* tasks other than the one that listens
    Tokens,         \* instruments
    ModeCount,      \* modes, in the order of WebSocketMode
    DefaultMode,    \* the server's mode for a new subscription
    MaxReconnects,  \* reconnect_max_attempts, or 0 if reconnect is off
    Sockets         \* connections that can be open, or waited for, at once

ASSUME WebSocketAssumption ==
    /\ "listener" \notin Users
    /\ ModeCount \in Nat \ {0}
    /\ DefaultMode \in 1..ModeCount
    /\ MaxReconnects \in Nat
    /\ "none" \notin Sockets

VARIABLES
    task,       \* [Tasks -> TaskStates]
    websocket,  \* self._websocket
    closed,     \* self._closed
    wanted,     \* [Tokens -> Feeds]: self._subscriptions with self._mode_by_token
    attempt,    \* attempt, of listen
    link,       \* [Sockets -> Links]
    feed,       \* [Sockets -> [Tokens -> Feeds]]: what the server sends on each
    torn        \* history: tokens left to a message that was not sent, or was overtaken

vars == <<task, websocket, closed, wanted, attempt, link, feed, torn>>

Listener == "listener"
Tasks == Users \cup {Listener}

NoSocket == "none"

Modes == 1..ModeCount
Off == 0
Feeds == Modes \cup {Off}
AllOff == [t \in Tokens |-> Off]

\* A closed connection ends a stream, a lost one fails it.
Links == {"open", "closed", "lost"}

TaskStates ==
    { q \in [ pc     : {"idle", "opening", "replay", "mode", "consume", "sleep"},
              socket : Sockets \cup {NoSocket},     \* that it consumes
              tokens : SUBSET Tokens,               \* of the messages it still has to send
              mode   : 0..(ModeCount + 1) ] :       \* of those, or the first left to replay
        q.pc = "mode" => q.mode \in Modes }

Waiting(pc) == [pc |-> pc, socket |-> NoSocket, tokens |-> {}, mode |-> 0]
Consuming(s) == [pc |-> "consume", socket |-> s, tokens |-> {}, mode |-> 0]
Sending(pc, tokens, mode) == [pc |-> pc, socket |-> NoSocket, tokens |-> tokens, mode |-> mode]

Idle == Waiting("idle")

Init ==
    /\ task = [k \in Tasks |-> Idle]
    /\ websocket = NoSocket
    /\ closed = FALSE
    /\ wanted = AllOff
    /\ attempt = 0
    /\ link = [s \in Sockets |-> "closed"]
    /\ feed = [s \in Sockets |-> AllOff]
    /\ torn = {}

------------------------------------------------------------------------------
At(k, pc) == task[k].pc = pc

Become(k, state) == task' = [task EXCEPT ![k] = state]

Subscribed == {t \in Tokens : wanted[t] # Off}

\* What the server makes of a message: subscribe, mode, unsubscribe.
Added(f, tokens) ==
    [t \in Tokens |-> IF t \in tokens /\ f[t] = Off THEN DefaultMode ELSE f[t]]
Changed(f, tokens, mode) ==
    [t \in Tokens |-> IF t \in tokens /\ f[t] # Off THEN mode ELSE f[t]]
Removed(f, tokens) == [t \in Tokens |-> IF t \in tokens THEN Off ELSE f[t]]

Alive == websocket # NoSocket /\ link[websocket] = "open"

Wants(tokens, mode) == wanted' = [t \in Tokens |-> IF t \in tokens THEN mode ELSE wanted[t]]

\* After a send on self._websocket the server's view of it is f.  A message on a
\* connection that is gone is lost, whether or not the send fails.
Sends(f) == feed' = IF Alive THEN [feed EXCEPT ![websocket] = f] ELSE feed

\* A message that gives tokens a mode leaves those right for which it is still wanted, and
\* those wrong for which a later call has moved the mode meanwhile.
Overtaken(tokens, mode) == {t \in tokens : wanted[t] \notin {Off, mode}}

Mends(tokens) == torn' = IF Alive THEN torn \ tokens ELSE torn

MendsOrTears(tokens, mode) ==
    torn' = IF Alive THEN (torn \ tokens) \cup Overtaken(tokens, mode) ELSE torn

------------------------------------------------------------------------------
(* Connections: `connect`, called by a user or by listen. *)

\* Mutated form: reconnects one time too many.
FailsOnceMore(k, failed) ==
    /\ \/ Become(k, Idle) /\ UNCHANGED attempt
       \/ /\ k = Listener
          /\ failed <= MaxReconnects
          /\ attempt' = failed + 1
          /\ Become(k, Waiting("sleep"))
    /\ websocket' = IF k = Listener THEN NoSocket ELSE websocket

\* An exception: a user's call ends; listen forgets its connection, and reconnects
\* unless as many attempts as allowed have failed before or on_error raises.
Fails(k, failed) ==
    /\ \/ Become(k, Idle) /\ UNCHANGED attempt
       \/ /\ k = Listener
          /\ failed < MaxReconnects
          /\ attempt' = failed + 1
          /\ Become(k, Waiting("sleep"))
    /\ websocket' = IF k = Listener THEN NoSocket ELSE websocket

\* connect returns: listen consumes self._websocket, if it is still there.
Connected(k) ==
    \/ k # Listener /\ Become(k, Idle) /\ UNCHANGED <<websocket, attempt>>
    \/ /\ k = Listener
       /\ websocket # NoSocket
       /\ attempt' = 0
       /\ Become(k, Consuming(websocket))
       /\ UNCHANGED websocket
    \/ k = Listener /\ websocket = NoSocket /\ Fails(k, 0)

\* A user connects.  With a connection there is nothing to do.
Connect(u) ==
    /\ At(u, "idle")
    /\ websocket = NoSocket
    /\ closed' = FALSE
    /\ Become(u, Waiting("opening"))
    /\ UNCHANGED <<websocket, wanted, attempt, link, feed, torn>>

\* No connection: the provider, the network or the server refuses.
ConnectFails(k) ==
    /\ At(k, "opening")
    /\ Fails(k, attempt)
    /\ UNCHANGED <<closed, wanted, link, feed, torn>>

\* A connection no one refers to.
Fresh == {s \in Sockets : /\ link[s] # "open"
                          /\ s # websocket
                          /\ \A k \in Tasks : task[k].socket # s}

\* A connection is there.  The replay of the subscriptions begins, if there are any.
Opened(k) ==
    /\ At(k, "opening")
    /\ \E s \in Fresh :
           /\ websocket' = s
           /\ link' = [link EXCEPT ![s] = "open"]
           /\ feed' = [feed EXCEPT ![s] = Added(AllOff, Subscribed)]
           /\ Become(k, IF Subscribed # {} THEN Sending("replay", Subscribed, 1)
                        ELSE IF k = Listener THEN Consuming(s) ELSE Idle)
    /\ attempt' = IF k = Listener /\ Subscribed = {} THEN 0 ELSE attempt
    /\ torn' = {}
    /\ UNCHANGED <<closed, wanted>>

\* Mutated form: skips a mode.
DueBeyond(k) == {m \in (task[k].mode + 1)..ModeCount : \E t \in task[k].tokens : wanted[t] = m}

\* Modes the replay has still to send, by what is wanted now.
Due(k) == {m \in task[k].mode..ModeCount : \E t \in task[k].tokens : wanted[t] = m}

\* Sends the first of them.
SendDue(k) ==
    \E m \in Due(k) :
        /\ \A n \in Due(k) : m <= n
        /\ Sends(Changed(feed[websocket], {t \in task[k].tokens : wanted[t] = m}, m))
        /\ Become(k, Sending("replay", task[k].tokens, m + 1))

\* The replay goes on with the next mode that a token of it has, or is complete.
Replay(k) ==
    /\ At(k, "replay")
    /\ \/ Due(k) = {} /\ Connected(k) /\ UNCHANGED feed
       \/ websocket # NoSocket /\ SendDue(k) /\ UNCHANGED <<websocket, attempt>>
       \/ Due(k) # {} /\ ~Alive /\ Fails(k, attempt) /\ UNCHANGED feed
    /\ UNCHANGED <<closed, wanted, link, torn>>

\* `close`.  How the connection ends depends on the closing handshake.
Close(u) ==
    /\ At(u, "idle")
    /\ closed' = TRUE
    /\ websocket' = NoSocket
    /\ IF Alive
         THEN /\ \E how \in {"closed", "lost"} : link' = [link EXCEPT ![websocket] = how]
              /\ feed' = [feed EXCEPT ![websocket] = AllOff]
         ELSE UNCHANGED <<link, feed>>
    /\ UNCHANGED <<task, wanted, attempt, torn>>

------------------------------------------------------------------------------
(* Subscriptions. *)

\* `subscribe` up to its first send.
Subscribe(u) ==
    /\ At(u, "idle")
    /\ \E tokens \in (SUBSET Tokens) \ {{}}, mode \in Modes :
           /\ Wants(tokens, mode)
           /\ IF websocket = NoSocket
                THEN UNCHANGED <<task, feed>>
                ELSE /\ Sends(Added(feed[websocket], tokens))
                     /\ \/ Become(u, Sending("mode", tokens, mode))
                        \/ ~Alive /\ UNCHANGED task
    /\ UNCHANGED <<websocket, closed, attempt, link, torn>>

\* The rest of subscribe.
SendMode(u) ==
    /\ At(u, "mode")
    /\ IF websocket = NoSocket
         THEN UNCHANGED feed
         ELSE Sends(Changed(feed[websocket], task[u].tokens, task[u].mode))
    /\ MendsOrTears(task[u].tokens, task[u].mode)
    /\ Become(u, Idle)
    /\ UNCHANGED <<websocket, closed, wanted, attempt, link>>

Unsubscribe(u) ==
    /\ At(u, "idle")
    /\ \E tokens \in (SUBSET Tokens) \ {{}} :
           /\ Wants(tokens, Off)
           /\ IF websocket = NoSocket
                THEN UNCHANGED feed
                ELSE Sends(Removed(feed[websocket], tokens))
           /\ Mends(tokens)
    /\ UNCHANGED <<task, websocket, closed, attempt, link>>

\* `set_mode`
SetMode(u) ==
    /\ At(u, "idle")
    /\ \E tokens \in (SUBSET Subscribed) \ {{}}, mode \in Modes :
           /\ Wants(tokens, mode)
           /\ IF websocket = NoSocket
                THEN UNCHANGED feed
                ELSE Sends(Changed(feed[websocket], tokens, mode))
           /\ Mends(tokens)
    /\ UNCHANGED <<task, websocket, closed, attempt, link>>

\* set_mode meets a token that is not subscribed, one of Tokens or any other: those before it
\* have the new mode, and nothing is sent.
SetModeFails(u) ==
    /\ At(u, "idle")
    /\ \E tokens \in (SUBSET Subscribed) \ {{}}, mode \in Modes :
           /\ Wants(tokens, mode)
           /\ torn' = torn \cup tokens
    /\ UNCHANGED <<task, websocket, closed, attempt, link, feed>>

------------------------------------------------------------------------------
(* `listen`, of the one task that listens. *)

\* The head of its loop.
Loop ==
    \/ closed /\ Become(Listener, Idle) /\ UNCHANGED attempt
    \/ ~closed /\ websocket = NoSocket /\ Become(Listener, Waiting("opening")) /\ UNCHANGED attempt
    \/ /\ ~closed
       /\ websocket # NoSocket
       /\ Become(Listener, Consuming(websocket))
       /\ attempt' = 0

Listen ==
    /\ At(Listener, "idle")
    /\ \/ closed /\ UNCHANGED task
       \/ ~closed /\ websocket = NoSocket /\ Become(Listener, Waiting("opening"))
       \/ ~closed /\ websocket # NoSocket /\ Become(Listener, Consuming(websocket))
    /\ attempt' = 0
    /\ UNCHANGED <<websocket, closed, wanted, link, feed, torn>>

\* Mutated form: waits for the next message of a connection that is closed.
StreamEndsNever ==
    /\ At(Listener, "consume")
    /\ link[task[Listener].socket] = "closed"
    /\ UNCHANGED vars

\* The connection was closed, by either side: the iteration ends without an error.
StreamEnds ==
    /\ At(Listener, "consume")
    /\ link[task[Listener].socket] = "closed"
    /\ Loop
    /\ UNCHANGED <<websocket, closed, wanted, link, feed, torn>>

\* The connection was lost.
StreamFails ==
    /\ At(Listener, "consume")
    /\ link[task[Listener].socket] = "lost"
    /\ Fails(Listener, attempt)
    /\ UNCHANGED <<closed, wanted, link, feed, torn>>

\* A message is malformed, or its handler raises.
MessageFails ==
    /\ At(Listener, "consume")
    /\ link[task[Listener].socket] = "open"
    /\ Fails(Listener, attempt)
    /\ UNCHANGED <<closed, wanted, link, feed, torn>>

\* Mutated form: does not look whether the client was closed.
WakeUnchecked ==
    /\ At(Listener, "sleep")
    /\ closed' = IF websocket = NoSocket THEN FALSE ELSE closed
    /\ Become(Listener, IF websocket = NoSocket THEN Waiting("opening") ELSE Consuming(websocket))
    /\ UNCHANGED <<websocket, wanted, attempt, link, feed, torn>>

\* The wait before a reconnection is over.
Wake ==
    /\ At(Listener, "sleep")
    /\ Loop
    /\ UNCHANGED <<websocket, closed, wanted, link, feed, torn>>

------------------------------------------------------------------------------
\* A task is cancelled where it is suspended.
Cancel(k) ==
    /\ ~At(k, "idle")
    /\ Become(k, Idle)
    /\ torn' = torn \cup task[k].tokens
    /\ UNCHANGED <<websocket, closed, wanted, attempt, link, feed>>

\* The server closes a connection, or it breaks.
Drop(s) ==
    /\ link[s] = "open"
    /\ \E how \in {"closed", "lost"} : link' = [link EXCEPT ![s] = how]
    /\ feed' = [feed EXCEPT ![s] = AllOff]
    /\ UNCHANGED <<task, websocket, closed, wanted, attempt, torn>>

------------------------------------------------------------------------------
Connecting(k) == ConnectFails(k) \/ Opened(k) \/ Replay(k)

UserCall(u) ==
    \/ Connect(u) \/ Close(u)
    \/ Subscribe(u) \/ SendMode(u) \/ Unsubscribe(u) \/ SetMode(u) \/ SetModeFails(u)

Streaming == StreamEnds \/ StreamFails \/ Wake

Next ==
    \/ \E u \in Users : UserCall(u)
    \/ \E k \in Tasks : Connecting(k) \/ Cancel(k)
    \/ Listen \/ Streaming \/ MessageFails
    \/ \E s \in Sockets : Drop(s)

Spec == Init /\ [][Next]_vars

(***************************************************************************)
(* Opening a connection and sending have timeouts, the waits are finite    *)
(* and a task whose await is over runs.  Nothing is assumed about users,   *)
(* messages or connections.                                                *)
(***************************************************************************)
FairSpec == Spec /\ WF_vars(Connecting(Listener)) /\ WF_vars(Streaming)

------------------------------------------------------------------------------
TypeOK ==
    /\ task \in [Tasks -> TaskStates]
    /\ websocket \in Sockets \cup {NoSocket}
    /\ closed \in BOOLEAN
    /\ wanted \in [Tokens -> Feeds]
    /\ attempt \in 0..MaxReconnects
    /\ link \in [Sockets -> Links]
    /\ feed \in [Sockets -> [Tokens -> Feeds]]
    /\ torn \subseteq Tokens

Sendings == {k \in Tasks : task[k].pc \in {"replay", "mode"}}

\* While user tasks change the subscriptions, and connections are lost, replaced and replayed
\* under them, the server sends on the client's connection the tokens that are wanted, at
\* any time, and in the modes that are wanted once no message is left to send.  Of the modes,
\* left out are tokens of calls that were cancelled, of a set_mode that failed, and of a
\* subscribe whose mode another call moved before it was sent, until their next message or
\* connection.
FeedIsWanted ==
    Alive =>
        /\ \A t \in Tokens : feed[websocket][t] # Off <=> wanted[t] # Off
        /\ Sendings = {} => \A t \in Tokens \ torn : feed[websocket][t] = wanted[t]

Opening == {k \in Tasks : At(k, "opening")}

\* After close no reconnection begins: until a user connects again, a connection opens only
\* by a connect that was under way at the close, of listen or of a user, and one by each.
\* Those the code lets through, since connect looks at nothing after its awaits: the closed
\* client then has an open connection, which listen consumes, though close's docstring says
\* "Close the WebSocket connection and stop reconnect loops."
OnlyPendingOpen ==
    [][closed =>
          \/ /\ closed' /\ Opening' \subseteq Opening
             /\ Opening' = Opening => websocket' \in {websocket, NoSocket}
          \/ \E u \in Users : At(u, "idle") /\ task'[u].pc = "opening" /\ websocket' = NoSocket]_vars

\* Once the client is closed with no connection and none on its way, listen returns or
\* a user opens the client again, unless listen consumes a connection that is open still,
\* since a failed message or another connect left it so.  A connect that was under way at the
\* close is left out too: see OnlyPendingOpen.
ListenEnds ==
    /\ closed /\ websocket = NoSocket
    /\ \A k \in Tasks : ~At(k, "opening")
    /\ At(Listener, "consume") => link[task[Listener].socket] # "open"
    ~> At(Listener, "idle") \/ ~closed

\* The docstring of listen: "Listen forever, reconnecting when configured until `close()` is
\* called."  Streaming is fair; if each of its steps finds the same closed connection and
\* changes nothing, listen spins.
ListenReconnects ==
    At(Listener, "consume") /\ link[task[Listener].socket] # "open"
        ~> ~(At(Listener, "consume") /\ link[task[Listener].socket] # "open")
==============================================================================
