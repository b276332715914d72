--------------------------------- MODULE Hub ---------------------------------
(***************************************************************************)
(* The WebSocket hub. The messages that the other services publish about a *)
(* match become frames for its players. One goroutine, Run, owns the map   *)
(* of connected clients; every message, every replay and every frame for a *)
(* client has a goroutine of its own, and each client two link. A         *)
(* match.found event waits in Redis for the players who connect later.     *)
(***************************************************************************)
EXTENDS Naturals

CONSTANTS
  Players, MatchIds,
  Team,        \* the players of each match
  Conns,       \* the WebSocket connections a run may see (bounds them)
  Owner,       \* the player of each connection
  NoMatch, NoConn

ASSUME HubAssumption ==
  /\ Team \in [MatchIds -> SUBSET Players]
  /\ Owner \in [Conns -> Players]
  /\ NoMatch \notin MatchIds /\ NoConn \notin Conns

Outcomes == {"confirmed", "dissolved"}

\* A published event, and the frame made from it ("found" is match.forming).
\* match.server_ready takes the way of an outcome, past Redis: left out.
Frame == [type : Outcomes \cup {"found"}, match : MatchIds]
Found(m) == [type |-> "found", match |-> m]

\* A goroutine that sends a frame to a client.
Sender == [conn : Conns, frame : Frame, from : {"fanout", "replay"}]

VARIABLES
  status,     \* match:{id}:status
  announced,  \* events on their way to, or in, a processEvent goroutine
  pending,    \* pending:match:{player}: the match of the stored match.found
  stored,     \* history: <<p, m>> when the event of m was stored for p, and
              \* since then neither time, nor another match, nor a replay
              \* that failed has touched it
  fanout,     \* h.fanout
  clients,    \* h.clients
  register,   \* the clients in, or on their way to, h.register
  unregister, \* h.unregister
  link,       \* each connection, "gone" when its readPump has ended
  closes,     \* how often send was closed
  replays,    \* the clients whose replayPending is to read the stored event
  checks,     \* the replays that are to read the status of its match
  senders,    \* the goroutines blocked on a send channel
  found       \* history: <<p, m>> when p was sent the match.found of m

redis  == <<status, pending, stored>>
run    == <<clients, register, unregister, closes>>
replay == <<replays, checks>>
vars == <<redis, announced, fanout, run, link, replay, senders, found>>

TypeOK ==
  /\ status \in [MatchIds -> Outcomes \cup {"none", "forming"}]
  /\ announced \subseteq Frame
  /\ pending \in [Players -> MatchIds \cup {NoMatch}]
  /\ stored \subseteq Players \X MatchIds
  /\ fanout \subseteq Frame
  /\ clients \in [Players -> Conns \cup {NoConn}]
  /\ register \subseteq Conns
  /\ unregister \subseteq Conns
  /\ link \in [Conns -> {"none", "open", "closed", "gone"}]
  /\ closes \in [Conns -> Nat]
  /\ replays \subseteq Conns
  /\ checks \subseteq [conn : Conns, match : MatchIds]
  /\ senders \subseteq Sender
  /\ found \subseteq Players \X MatchIds

Init ==
  /\ status = [m \in MatchIds |-> "none"]
  /\ announced = {} /\ fanout = {}
  /\ pending = [p \in Players |-> NoMatch] /\ stored = {}
  /\ clients = [p \in Players |-> NoConn]
  /\ register = {} /\ unregister = {}
  /\ link = [c \in Conns |-> "none"]
  /\ closes = [c \in Conns |-> 0]
  /\ replays = {} /\ checks = {} /\ senders = {}
  /\ found = {}

----------------------------------------------------------------------------
(* The other services, as far as the hub sees them.                        *)

\* The service may die before it publishes, and pub/sub may drop a message.
Publish(e) == announced' \in {announced, announced \cup {e}}

\* A worker commits a match. Its players may be in others: they may join twice,
\* and the workers of all shards publish to one hub.
Form(m) ==
  /\ status[m] = "none"
  /\ status' = [status EXCEPT ![m] = "forming"]
  /\ Publish(Found(m))
  /\ UNCHANGED <<pending, stored, fanout, run, link, replay, senders, found>>

\* Mutant: an outcome is published, although the match has another one.
DecideAgain(m, outcome) ==
  /\ status[m] # "none"
  /\ status' = [status EXCEPT ![m] = outcome]
  /\ Publish([type |-> outcome, match |-> m])
  /\ UNCHANGED <<pending, stored, fanout, run, link, replay, senders, found>>

\* Confirm or Dissolve.
Decide(m, outcome) ==
  /\ status[m] = "forming"
  /\ status' = [status EXCEPT ![m] = outcome]
  /\ Publish([type |-> outcome, match |-> m])
  /\ UNCHANGED <<pending, stored, fanout, run, link, replay, senders, found>>

----------------------------------------------------------------------------
(* processEvent, one goroutine per message, so in any order.               *)

\* What is left when m writes or deletes the keys of S. There is one key for a
\* player, whatever the match.
Untouched(m, S) == {x \in stored : x[1] \in S => x[2] = m}

\* The pipeline of a match.found; some of its commands may fail.
StorePending(m, S) ==
  /\ pending' = [p \in Players |-> IF p \in S THEN m ELSE pending[p]]
  /\ stored' = Untouched(m, S) \cup (S \X {m})

\* That of an outcome; it does not look at whose event it deletes.
DropPending(m, S) ==
  /\ pending' = [p \in Players |-> IF p \in S THEN NoMatch ELSE pending[p]]
  /\ stored' = Untouched(m, S)

ProcessEvent(e) ==
  /\ e \in announced
  /\ announced' = announced \ {e}
  /\ \/ /\ e.type = "found"
        /\ \E S \in SUBSET Team[e.match] : StorePending(e.match, S)
     \/ /\ e.type \in Outcomes
        /\ \E S \in SUBSET Team[e.match] : DropPending(e.match, S)
  /\ fanout' = fanout \cup {e}
  /\ UNCHANGED <<status, run, link, replay, senders, found>>

\* pendingEventTTL passes, whatever became of the match.
Expire(p) ==
  /\ pending[p] # NoMatch
  /\ pending' = [pending EXCEPT ![p] = NoMatch]
  /\ stored' = {x \in stored : x[1] # p}
  /\ UNCHANGED <<status, announced, fanout, run, link, replay,
                 senders, found>>

----------------------------------------------------------------------------
(* Run, the goroutine that owns the map.                                   *)

\* A client replaces another one of its player. The handlers of two
\* connections may get here in either order.
Register(c) ==
  /\ c \in register
  /\ register' = register \ {c}
  /\ clients' = [clients EXCEPT ![Owner[c]] = c]
  /\ closes' = [d \in Conns |-> IF d = clients[Owner[c]] /\ d # c
                                THEN closes[d] + 1 ELSE closes[d]]
  /\ replays' = replays \cup {c}
  /\ UNCHANGED <<redis, announced, fanout, unregister, link, checks, senders,
                 found>>

\* Mutant: a client is removed although another has replaced it.
UnregisterAny(c) ==
  /\ c \in unregister
  /\ unregister' = unregister \ {c}
  /\ clients' = [clients EXCEPT ![Owner[c]] = NoConn]
  /\ closes' = [closes EXCEPT ![c] = @ + 1]
  /\ UNCHANGED <<redis, announced, fanout, register, link, replay, senders,
                 found>>

\* A client that is not, or not yet, in the map is ignored.
Unregister(c) ==
  /\ c \in unregister
  /\ unregister' = unregister \ {c}
  /\ \/ /\ clients[Owner[c]] = c
        /\ clients' = [clients EXCEPT ![Owner[c]] = NoConn]
        /\ closes' = [closes EXCEPT ![c] = @ + 1]
     \/ /\ clients[Owner[c]] # c
        /\ UNCHANGED <<clients, closes>>
  /\ UNCHANGED <<redis, announced, fanout, register, link, replay, senders,
                 found>>

SendTo(c, e, origin) == [conn |-> c, frame |-> e, from |-> origin]

FanOutDirect(e) ==
  /\ e \in fanout
  /\ fanout' = fanout \ {e}
  /\ senders' = senders \cup {SendTo(clients[p], e, "fanout") :
                   p \in {q \in Team[e.match] : clients[q] # NoConn}}
  /\ UNCHANGED <<redis, announced, run, link, replay, found>>

----------------------------------------------------------------------------
(* replayPending.                                                          *)

ReadPending(c) ==
  /\ c \in replays
  /\ replays' = replays \ {c}
  /\ checks' = checks \cup
       {r \in [conn : {c}, match : {pending[Owner[c]]}] : r.match # NoMatch}
  /\ UNCHANGED <<redis, announced, fanout, run, link, senders, found>>

\* Mutant: the stored event is deleted as soon as it is replayed.
ReplayOnce(r) ==
  /\ r \in checks
  /\ checks' = checks \ {r}
  /\ pending' = [pending EXCEPT ![Owner[r.conn]] = NoMatch]
  /\ senders' = IF status[r.match] # "forming" THEN senders
                ELSE senders \cup {SendTo(r.conn, Found(r.match), "replay")}
  /\ UNCHANGED <<status, stored, announced, fanout, run, link, replays, found>>

\* An event of a match that is decided is deleted, whatever is stored by now.
CheckStatus(r) ==
  /\ r \in checks
  /\ checks' = checks \ {r}
  /\ \/ /\ status[r.match] = "forming"
        /\ senders' = senders \cup {SendTo(r.conn, Found(r.match), "replay")}
        /\ UNCHANGED <<pending, stored>>
     \/ /\ status[r.match] # "forming"
        /\ pending' = [pending EXCEPT ![Owner[r.conn]] = NoMatch]
        /\ stored' = Untouched(r.match, {Owner[r.conn]})
        /\ UNCHANGED senders
  /\ UNCHANGED <<status, announced, fanout, run, link, replays, found>>

\* A call of Redis fails. A status that cannot be read is not "forming", so
\* the event is deleted, too.
ReplayFails(c) ==
  /\ \/ /\ c \in replays
        /\ replays' = replays \ {c}
        /\ UNCHANGED <<checks, pending>>
     \/ \E r \in checks :
          /\ r.conn = c
          /\ checks' = checks \ {r}
          /\ pending' \in {pending, [pending EXCEPT ![Owner[c]] = NoMatch]}
          /\ UNCHANGED replays
  /\ stored' = {x \in stored : x[1] # Owner[c]}
  /\ UNCHANGED <<status, announced, fanout, run, link, senders, found>>

----------------------------------------------------------------------------
(* A connection and its pumps.                                             *)

ServeWS(c) ==
  /\ link[c] = "none"
  /\ link' = [link EXCEPT ![c] = "open"]
  /\ register' = register \cup {c}
  /\ UNCHANGED <<redis, announced, fanout, clients, unregister, closes, replay,
                 senders, found>>

CloseLink(c) ==
  link' = [link EXCEPT ![c] = IF @ = "open" THEN "closed" ELSE @]

\* The player leaves, the network breaks, or a pong is missing.
Disconnect(c) ==
  /\ link[c] = "open"
  /\ CloseLink(c)
  /\ UNCHANGED <<redis, announced, fanout, run, replay, senders, found>>

\* readPump's read fails.
ReadPumpEnds(c) ==
  /\ link[c] = "closed"
  /\ link' = [link EXCEPT ![c] = "gone"]
  /\ unregister' = unregister \cup {c}
  /\ UNCHANGED <<redis, announced, fanout, clients, register, closes, replay,
                 senders, found>>

\* send was closed: writePump closes the connection.
WritePumpEnds(c) ==
  /\ link[c] = "open" /\ closes[c] > 0
  /\ CloseLink(c)
  /\ UNCHANGED <<redis, announced, fanout, run, replay, senders, found>>

\* writePump takes the frame. It loses it when the connection is closed, if it
\* still runs.
Deliver(s) ==
  /\ s \in senders /\ closes[s.conn] = 0
  /\ senders' = senders \ {s}
  /\ \/ /\ link[s.conn] = "open"
        /\ found' = IF s.frame.type # "found" THEN found
                    ELSE found \cup {<<Owner[s.conn], s.frame.match>>}
     \/ /\ link[s.conn] # "open"
        /\ UNCHANGED found
  /\ UNCHANGED <<redis, announced, fanout, run, link, replay>>

\* The send panics on the closed channel, which the goroutine recovers from.
SendPanics(s) ==
  /\ s \in senders /\ closes[s.conn] > 0
  /\ senders' = senders \ {s}
  /\ UNCHANGED <<redis, announced, fanout, run, link, replay, found>>

\* Mutant: only the replays have a timeout.
SlowReplay(s) ==
  /\ s \in senders /\ s.from = "replay" /\ closes[s.conn] = 0
  /\ senders' = senders \ {s}
  /\ unregister' = unregister \cup {s.conn}
  /\ CloseLink(s.conn)
  /\ UNCHANGED <<redis, announced, fanout, clients, register, closes, replay,
                 found>>

\* sendTimeout passes: the client is disconnected. A replay has no timeout.
SlowClient(s) ==
  /\ s \in senders /\ s.from = "fanout" /\ closes[s.conn] = 0
  /\ senders' = senders \ {s}
  /\ unregister' = unregister \cup {s.conn}
  /\ CloseLink(s.conn)
  /\ UNCHANGED <<redis, announced, fanout, clients, register, closes, replay,
                 found>>

\* The process ends and is started again: Redis keeps the stored events.
Restart ==
  /\ clients' = [p \in Players |-> NoConn]
  /\ link' = [c \in Conns |-> IF link[c] = "none" THEN "none" ELSE "gone"]
  /\ register' = {} /\ unregister' = {}
  /\ replays' = {} /\ checks' = {} /\ senders' = {} /\ fanout' = {}
  /\ UNCHANGED <<redis, announced, closes, found>>

----------------------------------------------------------------------------

Run ==
  \/ \E c \in Conns : Register(c) \/ Unregister(c)
  \/ \E e \in fanout : FanOutDirect(e)

Replay == \E c \in Conns : \/ ReadPending(c)
                           \/ \E r \in checks : r.conn = c /\ CheckStatus(r)

\* What the pumps and the senders of a client do in the end: an open connection
\* takes the frames, and a closed one may leave them to the timeout.
Pump(c) ==
  \/ ReadPumpEnds(c) \/ WritePumpEnds(c)
  \/ \E s \in senders :
       /\ s.conn = c
       /\ \/ link[c] = "open" /\ Deliver(s)
          \/ SendPanics(s)
          \/ link[c] # "open" /\ SlowClient(s)

Next ==
  \/ Run \/ Replay \/ Restart
  \/ \E m \in MatchIds :
       Form(m) \/ \E outcome \in Outcomes : Decide(m, outcome)
  \/ \E e \in announced : ProcessEvent(e)
  \/ \E p \in Players : Expire(p)
  \/ \E c \in Conns :
       \/ ServeWS(c) \/ Disconnect(c) \/ ReadPumpEnds(c) \/ WritePumpEnds(c)
       \/ ReplayFails(c)
  \/ \E s \in senders : Deliver(s) \/ SendPanics(s) \/ SlowClient(s)

\* The goroutines of the hub run. Nobody has to connect or to stay, no match
\* has to be decided, and a message may be lost.
Fairness ==
  /\ WF_vars(Run) /\ WF_vars(Replay)
  /\ \A c \in Conns : WF_vars(Pump(c))

Spec == Init /\ [][Next]_vars /\ Fairness

----------------------------------------------------------------------------
(* Properties.                                                             *)

\* No send channel is closed twice, which would panic in Run and end the hub,
\* although a client may be replaced, time out and leave at once.
ClosedOnce == \A c \in Conns : closes[c] <= 1

\* The match of an event was formed, and has the outcome the event tells.
Truthful(e) ==
  /\ status[e.match] # "none"
  /\ e.type \in Outcomes => status[e.match] = e.type

\* No frame on its way says what did not happen: it is for a player of its
\* match, which was formed and has the outcome the frame tells.
FramesTruthful ==
  \A s \in senders : Owner[s.conn] \in Team[s.frame.match] /\ Truthful(s.frame)

\* The inductive invariant behind ClosedOnce and FramesTruthful: a client in
\* the map, or still to get there, has its channel open, whatever is stored or
\* on its way about a match is for its players, and what is stored is there.
ClientsOpen ==
  /\ \A p \in Players : clients[p] # NoConn =>
       /\ Owner[clients[p]] = p
       /\ closes[clients[p]] = 0
       /\ clients[p] \notin register
       /\ link[clients[p]] # "none"
  /\ \A c \in register : closes[c] = 0 /\ link[c] # "none"
  /\ \A c \in Conns : link[c] = "none" => closes[c] = 0

EventsTruthful ==
  /\ \A e \in announced \cup fanout : Truthful(e)
  /\ \A p \in Players : pending[p] # NoMatch =>
       p \in Team[pending[p]] /\ status[pending[p]] # "none"
  /\ \A x \in stored : x[1] \in Team[x[2]] /\ status[x[2]] # "none"
  /\ \A r \in checks : /\ Owner[r.conn] \in Team[r.match]
                       /\ status[r.match] # "none"

\* Nothing of its own match takes the event of a forming match away.
EventKept ==
  \A x \in stored : status[x[2]] = "forming" => pending[x[1]] = x[2]

HubInv ==
  /\ TypeOK /\ ClosedOnce /\ ClientsOpen
  /\ EventsTruthful /\ EventKept /\ FramesTruthful

Connected(p) == clients[p] # NoConn /\ link[clients[p]] = "open"

\* No lost wake-up between the fan-out and the replay: a player who is, or
\* gets, connected hears of a forming match whose event was stored, on one of
\* the connections that replace each other, unless the match is decided, the
\* player leaves, or something else reached the stored event first: its TTL,
\* another match of the player, or a replay that failed.
FoundReachesPlayer ==
  \A p \in Players, m \in MatchIds :
    (<<p, m>> \in stored /\ Connected(p))
    ~> \/ <<p, m>> \in found
       \/ status[m] # "forming" \/ ~Connected(p) \/ <<p, m>> \notin stored

\* No goroutine of a fan-out blocks for ever: its client takes the frame, goes
\* or is disconnected, also when it was registered after it had left.
Waiting(c) == \E s \in senders : s.conn = c /\ s.from = "fanout"
FanOutEnds == \A c \in Conns : Waiting(c) ~> ~Waiting(c)

\* What is documented of the stored event: it waits for the player as long as
\* its match is forming. It may run out, be deleted by a replay that could not
\* read the status, or be overwritten by a newer one; but it is not deleted.
FormingEventWaits ==
  [][\A p \in Players :
       /\ pending[p] # NoMatch /\ pending'[p] = NoMatch
       /\ status[pending[p]] = "forming"
       => Expire(p) \/ \E c \in Conns : ReplayFails(c)]_vars
=============================================================================
