------------------------------ MODULE HubProofs ------------------------------
(***************************************************************************)
(* The invariants of the hub hold for any number of players, matches and   *)
(* connections. Besides the types, the inductive invariant is about the    *)
(* channels of the clients, about the events on their way, and about the   *)
(* frames made from them. Most steps touch one of the three.               *)
(***************************************************************************)
EXTENDS Hub, TLAPS

\* Nobody is connected, and nothing happened yet.
LEMMA InitInv == Init => HubInv
BY HubAssumption
   DEF Init, HubInv, TypeOK, ClosedOnce, ClientsOpen, EventsTruthful,
       EventKept, FramesTruthful

----------------------------------------------------------------------------
(* What a step leaves alone.                                               *)

LEMMA ClientsKept ==
  ASSUME HubInv, UNCHANGED <<clients, register, closes, link>>
  PROVE  ClosedOnce' /\ ClientsOpen'
BY DEF HubInv, ClosedOnce, ClientsOpen

LEMMA EventsKept ==
  ASSUME HubInv, UNCHANGED redis,
         announced' \cup fanout' \subseteq announced \cup fanout,
         checks' \subseteq checks
  PROVE  EventsTruthful' /\ EventKept'
BY DEF HubInv, EventsTruthful, EventKept, Truthful, redis

LEMMA FramesKept ==
  ASSUME HubInv, UNCHANGED status, senders' \subseteq senders
  PROVE  FramesTruthful'
BY DEF HubInv, FramesTruthful, Truthful

----------------------------------------------------------------------------
(* The steps, one by one.                                                  *)

\* A match forms: nothing is stored, sent or decided about it yet.
LEMMA FormKeeps ==
  ASSUME HubInv, NEW m \in MatchIds, Form(m)
  PROVE  HubInv'
<1>1. TypeOK'
  BY HubAssumption DEF Form, HubInv, TypeOK, Publish, Found, Frame, redis, run,
                       replay
<1>2. ClosedOnce' /\ ClientsOpen'
  BY ClientsKept DEF Form, run
<1>3. EventsTruthful'
  BY HubAssumption DEF Form, HubInv, TypeOK, EventsTruthful, Publish, Found,
                       Outcomes, Truthful, replay
<1>4. FramesTruthful'
  BY HubAssumption DEF Form, HubInv, TypeOK, FramesTruthful, Truthful, Outcomes
<1>5. EventKept'
  <2>1. \A x \in stored : x[2] \in MatchIds /\ x[2] # m
    BY DEF Form, HubInv, TypeOK, EventsTruthful
  <2> QED
    BY <2>1 DEF Form, HubInv, TypeOK, EventKept
<1> QED
  BY <1>1, <1>2, <1>3, <1>4, <1>5 DEF HubInv

\* A forming match is decided: no event told an outcome before.
LEMMA DecideKeeps ==
  ASSUME HubInv, NEW m \in MatchIds, NEW outcome \in Outcomes,
         Decide(m, outcome)
  PROVE  HubInv'
<1>1. TypeOK'
  BY HubAssumption DEF Decide, HubInv, TypeOK, Publish, Frame, redis, run,
                       replay
<1>2. ClosedOnce' /\ ClientsOpen'
  BY ClientsKept DEF Decide, run
<1>3. EventsTruthful'
  BY HubAssumption DEF Decide, HubInv, TypeOK, EventsTruthful, Publish, Frame,
                       Outcomes, Truthful, replay
<1>4. FramesTruthful'
  BY HubAssumption DEF Decide, HubInv, TypeOK, FramesTruthful, Truthful,
                       Outcomes, Frame, Sender
<1>5. EventKept'
  <2>1. \A x \in stored : x[2] \in MatchIds
    BY DEF HubInv, TypeOK
  <2> QED
    BY <2>1 DEF Decide, HubInv, TypeOK, EventKept, Outcomes
<1> QED
  BY <1>1, <1>2, <1>3, <1>4, <1>5 DEF HubInv

\* processEvent stores or deletes the event for players of its match.
LEMMA ProcessEventKeeps ==
  ASSUME HubInv, NEW e \in announced, ProcessEvent(e)
  PROVE  HubInv'
<1>1. TypeOK'
  BY HubAssumption DEF ProcessEvent, HubInv, TypeOK, StorePending, DropPending, Untouched,
                       Frame, redis, run, replay
<1>2. ClosedOnce' /\ ClientsOpen'
  BY ClientsKept DEF ProcessEvent, run
<1>3. EventsTruthful'
  BY HubAssumption DEF ProcessEvent, HubInv, TypeOK, EventsTruthful,
                       StorePending, DropPending, Untouched, Frame, Truthful, replay
<1>4. FramesTruthful'
  BY FramesKept DEF ProcessEvent, redis
<1>5. EventKept'
  <2>1. e \in Frame /\ Truthful(e)
    BY DEF HubInv, TypeOK, EventsTruthful
  <2>2. CASE e.type = "found"
    <3>1. PICK S \in SUBSET Team[e.match] : StorePending(e.match, S)
      BY <2>2 DEF ProcessEvent, Outcomes
    <3>2. \A x \in stored : x[1] \in Players /\ x[2] \in MatchIds
      BY DEF HubInv, TypeOK
    <3>3. S \subseteq Players
      BY <2>1, HubAssumption DEF Frame
    <3> QED
      BY <3>1, <3>2, <3>3
         DEF ProcessEvent, StorePending, Untouched, HubInv, EventKept
  <2>3. CASE e.type \in Outcomes
    <3>1. PICK S \in SUBSET Team[e.match] : DropPending(e.match, S)
      BY <2>3 DEF ProcessEvent, Outcomes
    <3>2. status[e.match] # "forming"
      BY <2>1, <2>3 DEF Truthful, Outcomes
    <3>3. \A x \in stored : x[1] \in Players
      BY DEF HubInv, TypeOK
    <3> QED
      BY <3>1, <3>2, <3>3
         DEF ProcessEvent, DropPending, Untouched, HubInv, EventKept
  <2> QED
    BY <2>2, <2>3 DEF ProcessEvent
<1> QED
  BY <1>1, <1>2, <1>3, <1>4, <1>5 DEF HubInv

\* A stored event expires.
LEMMA ExpireKeeps ==
  ASSUME HubInv, NEW p \in Players, Expire(p)
  PROVE  HubInv'
<1>1. TypeOK'
  BY HubAssumption DEF Expire, HubInv, TypeOK, redis, run, replay
<1>2. ClosedOnce' /\ ClientsOpen'
  BY ClientsKept DEF Expire, run
<1>3. EventsTruthful'
  BY HubAssumption DEF Expire, HubInv, TypeOK, EventsTruthful, Truthful, replay
<1>4. FramesTruthful'
  BY FramesKept DEF Expire, redis
<1>5. EventKept'
  BY DEF Expire, HubInv, TypeOK, EventKept
<1> QED
  BY <1>1, <1>2, <1>3, <1>4, <1>5 DEF HubInv

\* A registration closes the channel of the client it replaces, which leaves
\* the map with that.
LEMMA RegisterKeeps ==
  ASSUME HubInv, NEW c \in Conns, Register(c)
  PROVE  HubInv'
<1>1. TypeOK'
  BY HubAssumption DEF Register, HubInv, TypeOK, redis, run, replay
<1>2. ClosedOnce' /\ ClientsOpen'
  BY HubAssumption DEF Register, HubInv, TypeOK, ClosedOnce, ClientsOpen, run,
                       replay
<1>3. EventsTruthful' /\ EventKept'
  BY EventsKept DEF Register
<1>4. FramesTruthful'
  BY FramesKept DEF Register, redis
<1> QED
  BY <1>1, <1>2, <1>3, <1>4 DEF HubInv

\* Only a client that is in the map is closed when it unregisters.
LEMMA UnregisterKeeps ==
  ASSUME HubInv, NEW c \in Conns, Unregister(c)
  PROVE  HubInv'
<1>1. TypeOK'
  BY HubAssumption DEF Unregister, HubInv, TypeOK, redis, run, replay
<1>2. ClosedOnce' /\ ClientsOpen'
  BY HubAssumption DEF Unregister, HubInv, TypeOK, ClosedOnce, ClientsOpen,
                       run, replay
<1>3. EventsTruthful' /\ EventKept'
  BY EventsKept DEF Unregister, replay
<1>4. FramesTruthful'
  BY FramesKept DEF Unregister, redis
<1> QED
  BY <1>1, <1>2, <1>3, <1>4 DEF HubInv

\* The frames of a fan-out are for clients of the players of its match.
LEMMA FanOutDirectKeeps ==
  ASSUME HubInv, NEW e \in fanout, FanOutDirect(e)
  PROVE  HubInv'
<1>1. TypeOK'
  <2>1. ASSUME NEW s \in senders'
        PROVE  s \in Sender
    <3>1. CASE s \in senders
      BY <3>1 DEF HubInv, TypeOK
    <3>2. CASE s \notin senders
      <4>1. PICK p \in Team[e.match] :
              clients[p] # NoConn /\ s = SendTo(clients[p], e, "fanout")
        BY <2>1, <3>2 DEF FanOutDirect
      <4>2. e \in Frame /\ p \in Players
        BY <4>1, HubAssumption DEF HubInv, TypeOK, Frame
      <4> QED
        BY <4>1, <4>2 DEF HubInv, TypeOK, SendTo, Sender
    <3> QED
      BY <3>1, <3>2
  <2> QED
    BY <2>1 DEF FanOutDirect, HubInv, TypeOK, redis, run, replay
<1>2. ClosedOnce' /\ ClientsOpen'
  BY ClientsKept DEF FanOutDirect, run
<1>3. EventsTruthful' /\ EventKept'
  BY EventsKept DEF FanOutDirect, replay
<1>4. FramesTruthful'
  <2>1. ASSUME NEW s \in senders', s \notin senders
        PROVE  Owner[s.conn] \in Team[s.frame.match] /\ Truthful(s.frame)
    <3>1. PICK p \in Team[e.match] :
            clients[p] # NoConn /\ s = SendTo(clients[p], e, "fanout")
      BY <2>1 DEF FanOutDirect
    <3>2. p \in Players
      BY <3>1, HubAssumption DEF HubInv, TypeOK, Frame
    <3>3. Owner[s.conn] = p /\ s.frame = e
      BY <3>1, <3>2 DEF HubInv, ClientsOpen, SendTo
    <3> QED
      BY <3>1, <3>3 DEF HubInv, EventsTruthful
  <2> QED
    BY <2>1 DEF FanOutDirect, HubInv, FramesTruthful, Truthful, redis
<1> QED
  BY <1>1, <1>2, <1>3, <1>4 DEF HubInv

\* A replay looks at the match of the event stored for its player.
LEMMA ReadPendingKeeps ==
  ASSUME HubInv, NEW c \in Conns, ReadPending(c)
  PROVE  HubInv'
<1>1. TypeOK'
  BY HubAssumption DEF ReadPending, HubInv, TypeOK, redis, run, replay
<1>2. ClosedOnce' /\ ClientsOpen'
  BY ClientsKept DEF ReadPending, run
<1>3. EventsTruthful'
  BY HubAssumption DEF ReadPending, HubInv, TypeOK, EventsTruthful, Truthful,
                       redis
<1>4. FramesTruthful'
  BY FramesKept DEF ReadPending, redis
<1>5. EventKept'
  BY DEF ReadPending, redis, HubInv, EventKept
<1> QED
  BY <1>1, <1>2, <1>3, <1>4, <1>5 DEF HubInv

\* A replay sends what was stored, or deletes it.
LEMMA CheckStatusKeeps ==
  ASSUME HubInv, NEW r \in checks, CheckStatus(r)
  PROVE  HubInv'
<1>1. TypeOK'
  BY HubAssumption DEF CheckStatus, Untouched, HubInv, TypeOK, SendTo, Found, Frame,
                       Sender, redis, run, replay
<1>2. ClosedOnce' /\ ClientsOpen'
  BY ClientsKept DEF CheckStatus, run
<1>3. EventsTruthful'
  BY HubAssumption DEF CheckStatus, Untouched, HubInv, TypeOK, EventsTruthful, Truthful,
                       redis
<1>4. FramesTruthful'
  <2>1. ASSUME NEW s \in senders', s \notin senders
        PROVE  Owner[s.conn] \in Team[s.frame.match] /\ Truthful(s.frame)
    <3>1. s.conn = r.conn /\ s.frame = Found(r.match)
      BY <2>1 DEF CheckStatus, SendTo
    <3>2. Owner[r.conn] \in Team[r.match] /\ status[r.match] # "none"
      BY DEF HubInv, EventsTruthful
    <3> QED
      BY <3>1, <3>2 DEF Found, Truthful, Outcomes
  <2> QED
    BY <2>1 DEF CheckStatus, HubInv, FramesTruthful, Truthful
<1>5. EventKept'
  BY DEF CheckStatus, Untouched, HubInv, TypeOK, EventKept
<1> QED
  BY <1>1, <1>2, <1>3, <1>4, <1>5 DEF HubInv

\* A replay that fails sends nothing.
LEMMA ReplayFailsKeeps ==
  ASSUME HubInv, NEW c \in Conns, ReplayFails(c)
  PROVE  HubInv'
<1>1. TypeOK'
  BY HubAssumption DEF ReplayFails, HubInv, TypeOK, run
<1>2. ClosedOnce' /\ ClientsOpen'
  BY ClientsKept DEF ReplayFails, run
<1>3. EventsTruthful'
  BY HubAssumption DEF ReplayFails, HubInv, TypeOK, EventsTruthful, Truthful
<1>4. FramesTruthful'
  BY FramesKept DEF ReplayFails
<1>5. EventKept'
  BY DEF ReplayFails, HubInv, TypeOK, EventKept
<1> QED
  BY <1>1, <1>2, <1>3, <1>4, <1>5 DEF HubInv

\* A new client has its channel open.
LEMMA ServeWSKeeps ==
  ASSUME HubInv, NEW c \in Conns, ServeWS(c)
  PROVE  HubInv'
<1>1. TypeOK'
  BY HubAssumption DEF ServeWS, HubInv, TypeOK, redis, run, replay
<1>2. ClosedOnce' /\ ClientsOpen'
  BY HubAssumption DEF ServeWS, HubInv, TypeOK, ClosedOnce, ClientsOpen, run
<1>3. EventsTruthful' /\ EventKept'
  BY EventsKept DEF ServeWS, replay
<1>4. FramesTruthful'
  BY FramesKept DEF ServeWS, redis
<1> QED
  BY <1>1, <1>2, <1>3, <1>4 DEF HubInv

\* A connection that breaks changes nothing about its channel.
LEMMA DisconnectKeeps ==
  ASSUME HubInv, NEW c \in Conns, Disconnect(c)
  PROVE  HubInv'
<1>1. TypeOK'
  BY HubAssumption DEF Disconnect, HubInv, TypeOK, CloseLink, redis, run,
                       replay
<1>2. ClosedOnce' /\ ClientsOpen'
  BY HubAssumption DEF Disconnect, HubInv, TypeOK, ClosedOnce, ClientsOpen,
                       CloseLink, run
<1>3. EventsTruthful' /\ EventKept'
  BY EventsKept DEF Disconnect, replay
<1>4. FramesTruthful'
  BY FramesKept DEF Disconnect, redis
<1> QED
  BY <1>1, <1>2, <1>3, <1>4 DEF HubInv

\* Nor does a readPump that ends,
LEMMA ReadPumpEndsKeeps ==
  ASSUME HubInv, NEW c \in Conns, ReadPumpEnds(c)
  PROVE  HubInv'
<1>1. TypeOK'
  BY HubAssumption DEF ReadPumpEnds, HubInv, TypeOK, redis, run, replay
<1>2. ClosedOnce' /\ ClientsOpen'
  BY HubAssumption DEF ReadPumpEnds, HubInv, TypeOK, ClosedOnce, ClientsOpen,
                       run
<1>3. EventsTruthful' /\ EventKept'
  BY EventsKept DEF ReadPumpEnds, replay
<1>4. FramesTruthful'
  BY FramesKept DEF ReadPumpEnds, redis
<1> QED
  BY <1>1, <1>2, <1>3, <1>4 DEF HubInv

\* or a writePump.
LEMMA WritePumpEndsKeeps ==
  ASSUME HubInv, NEW c \in Conns, WritePumpEnds(c)
  PROVE  HubInv'
<1>1. TypeOK'
  BY HubAssumption DEF WritePumpEnds, HubInv, TypeOK, CloseLink, redis, run,
                       replay
<1>2. ClosedOnce' /\ ClientsOpen'
  BY HubAssumption DEF WritePumpEnds, HubInv, TypeOK, ClosedOnce, ClientsOpen,
                       CloseLink, run
<1>3. EventsTruthful' /\ EventKept'
  BY EventsKept DEF WritePumpEnds, replay
<1>4. FramesTruthful'
  BY FramesKept DEF WritePumpEnds, redis
<1> QED
  BY <1>1, <1>2, <1>3, <1>4 DEF HubInv

\* A sender is done when its frame is taken,
LEMMA DeliverKeeps ==
  ASSUME HubInv, NEW s \in senders, Deliver(s)
  PROVE  HubInv'
<1>1. TypeOK'
  BY HubAssumption DEF Deliver, HubInv, TypeOK, Sender, Frame, redis, run,
                       replay
<1>2. ClosedOnce' /\ ClientsOpen'
  BY ClientsKept DEF Deliver, run
<1>3. EventsTruthful' /\ EventKept'
  BY EventsKept DEF Deliver, replay
<1>4. FramesTruthful'
  BY FramesKept DEF Deliver, redis
<1> QED
  BY <1>1, <1>2, <1>3, <1>4 DEF HubInv

\* when its channel was closed,
LEMMA SendPanicsKeeps ==
  ASSUME HubInv, NEW s \in senders, SendPanics(s)
  PROVE  HubInv'
<1>1. TypeOK'
  BY HubAssumption DEF SendPanics, HubInv, TypeOK, redis, run, replay
<1>2. ClosedOnce' /\ ClientsOpen'
  BY ClientsKept DEF SendPanics, run
<1>3. EventsTruthful' /\ EventKept'
  BY EventsKept DEF SendPanics, replay
<1>4. FramesTruthful'
  BY FramesKept DEF SendPanics, redis
<1> QED
  BY <1>1, <1>2, <1>3, <1>4 DEF HubInv

\* or when its time is up.
LEMMA SlowClientKeeps ==
  ASSUME HubInv, NEW s \in senders, SlowClient(s)
  PROVE  HubInv'
<1>1. TypeOK'
  BY HubAssumption DEF SlowClient, HubInv, TypeOK, CloseLink, Sender, redis,
                       run, replay
<1>2. ClosedOnce' /\ ClientsOpen'
  BY HubAssumption DEF SlowClient, HubInv, TypeOK, ClosedOnce, ClientsOpen,
                       CloseLink, run
<1>3. EventsTruthful' /\ EventKept'
  BY EventsKept DEF SlowClient, replay
<1>4. FramesTruthful'
  BY FramesKept DEF SlowClient, redis
<1> QED
  BY <1>1, <1>2, <1>3, <1>4 DEF HubInv

\* A restart empties the map and forgets what was on its way.
LEMMA RestartKeeps ==
  ASSUME HubInv, Restart
  PROVE  HubInv'
<1>1. TypeOK'
  BY HubAssumption DEF Restart, HubInv, TypeOK, redis, run, replay
<1>2. ClosedOnce' /\ ClientsOpen'
  BY HubAssumption DEF Restart, HubInv, TypeOK, ClosedOnce, ClientsOpen, run
<1>3. EventsTruthful' /\ EventKept'
  BY EventsKept DEF Restart
<1>4. FramesTruthful'
  BY FramesKept DEF Restart, redis
<1> QED
  BY <1>1, <1>2, <1>3, <1>4 DEF HubInv

----------------------------------------------------------------------------
(* The theorems.                                                           *)

LEMMA NextKeeps == HubInv /\ [Next]_vars => HubInv'
<1> SUFFICES ASSUME HubInv, [Next]_vars
             PROVE  HubInv'
  OBVIOUS
<1>1. CASE Run
  BY <1>1, RegisterKeeps, UnregisterKeeps, FanOutDirectKeeps DEF Run
<1>2. CASE Replay
  BY <1>2, ReadPendingKeeps, CheckStatusKeeps DEF Replay
<1>3. CASE Restart
  BY <1>3, RestartKeeps
<1>4. CASE \E m \in MatchIds :
             Form(m) \/ \E outcome \in Outcomes : Decide(m, outcome)
  BY <1>4, FormKeeps, DecideKeeps
<1>5. CASE \E e \in announced : ProcessEvent(e)
  BY <1>5, ProcessEventKeeps
<1>6. CASE \E p \in Players : Expire(p)
  BY <1>6, ExpireKeeps
<1>7. CASE \E c \in Conns : ServeWS(c) \/ Disconnect(c) \/ ReadPumpEnds(c)
                            \/ WritePumpEnds(c) \/ ReplayFails(c)
  BY <1>7, ServeWSKeeps, DisconnectKeeps, ReadPumpEndsKeeps,
     WritePumpEndsKeeps, ReplayFailsKeeps
<1>8. CASE \E s \in senders : Deliver(s) \/ SendPanics(s) \/ SlowClient(s)
  BY <1>8, DeliverKeeps, SendPanicsKeeps, SlowClientKeeps
<1>9. CASE UNCHANGED vars
  <2>1. ClosedOnce' /\ ClientsOpen'
    BY <1>9, ClientsKept DEF vars, run
  <2>2. EventsTruthful' /\ EventKept' /\ FramesTruthful'
    BY <1>9, EventsKept, FramesKept DEF vars, redis, replay
  <2>3. TypeOK'
    BY <1>9 DEF HubInv, TypeOK, vars, redis, run, replay
  <2> QED
    BY <2>1, <2>2, <2>3 DEF HubInv
<1> QED
  BY <1>1, <1>2, <1>3, <1>4, <1>5, <1>6, <1>7, <1>8, <1>9 DEF Next

\* The inductive invariant of the hub (Run, its goroutines and the pumps).
THEOREM HubInvariance == Spec => []HubInv
<1> QED
  BY InitInv, NextKeeps, PTL DEF Spec

\* No client's channel is closed twice, whoever replaces whom and whenever it
\* unregisters (h.register and h.unregister in Run).
THEOREM ClosedAtMostOnce == Spec => []ClosedOnce
<1>1. HubInv => ClosedOnce
  BY DEF HubInv
<1> QED
  BY <1>1, HubInvariance, PTL

\* Every frame on its way is true, and goes to a player of its match
\* (fanOutDirect and replayPending).
THEOREM TruthfulFrames == Spec => []FramesTruthful
<1>1. HubInv => FramesTruthful
  BY DEF HubInv
<1> QED
  BY <1>1, HubInvariance, PTL
=============================================================================
