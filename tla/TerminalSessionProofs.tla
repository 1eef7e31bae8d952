------------------------ MODULE TerminalSessionProofs ------------------------
(***************************************************************************)
(* For any number of calls, restarts and faults: every process that runs,  *)
(* and every session that is kept under an id, has a connection or a timer *)
(* that is going to dispose of it.                                         *)
(***************************************************************************)
EXTENDS TerminalSession, FiniteSetTheorems, TLAPS

PtySession ==
  [pty : {"none", "running", "exited"}, liveWs : Calls \cup {None},
   detached : BOOLEAN, armed : BOOLEAN, strays : Nat, dying : Nat, kills : Nat]

PanelTypes ==
  /\ view \in {"idle", "connecting", "live", "reconnecting", "ended"}
  /\ current \in Calls \cup {None} /\ socket \in Calls \cup {None}
  /\ inFlight \in BOOLEAN /\ polling \in BOOLEAN
  /\ page \in {"shown", "leaving", "disposed", "left"}

CallTypes ==
  /\ kind \in [Calls -> {"none", "connect", "reattach", "restart"}]
  /\ about \in [Calls -> Calls \cup {None}]
  /\ stage \in [Calls -> {"unused", "asked", "killed", "answered", "failed", "gone",
                          "backoff", "checking", "opening", "open", "over"}]
  /\ cut \in [Calls -> {None, "restart", "exited", "lost"}]
  /\ deaf \in [Calls -> SUBSET {"panel", "agent"}]

ServerTypes == leases \subseteq Calls /\ faults \in 0 .. MaxFaults

AgentTypes ==
  /\ attached \in [Calls -> Calls \cup {None}] /\ byId \in [Calls -> Calls \cup {None}]
  /\ session \in [Calls -> PtySession]

\* The agent has heard the end of the connection.
Ended == {w \in Calls : stage[w] = "open" /\ attached[w] = None}
Timers(o) == session[o].strays + (IF session[o].armed THEN 1 ELSE 0)

\* A session was made by a connection, which fixes its id.
SessionsWereOpened ==
  /\ \A w \in Calls : attached[w] # None => stage[attached[w]] = "open"
  /\ \A s \in Calls : byId[s] # None => stage[byId[s]] = "open"

\* Every timer was set at the end of another connection.
TimersAreCounted == \A o \in Calls : Timers(o) <= Cardinality(Ended)

ConnectionsAreBound ==
  \A w \in Calls :
    attached[w] # None <=> stage[w] = "open" /\ (cut[w] = None \/ "agent" \in deaf[w])

AgentHears ==
  \A w \in Calls : "agent" \in deaf[w] => stage[w] = "open" /\ cut[w] # None

ReattachNamesSession == \A w \in Calls : kind[w] = "reattach" => about[w] # None

CallInv == CallTypes /\ ConnectionsAreBound /\ AgentHears /\ ReattachNamesSession
AgentInv == AgentTypes /\ SessionsWereOpened /\ TimersAreCounted /\ ProcessIsHeld
Inv == PanelTypes /\ ServerTypes /\ CallInv /\ AgentInv

USE CallsAreBounded DEF CallsAreBounded, Calls

-----------------------------------------------------------------------------
(* Sessions and their timers.                                              *)

LEMMA EndedIsBounded ==
  /\ IsFiniteSet(Ended) /\ Cardinality(Ended) \in 0 .. MaxCalls
<1>1. IsFiniteSet(Calls) /\ Cardinality(Calls) = MaxCalls
  BY FS_Interval, 0 <= MaxCalls
<1>2. Ended \subseteq Calls
  BY DEF Ended
<1>3. IsFiniteSet(Ended) /\ Cardinality(Ended) <= Cardinality(Calls)
  BY <1>1, <1>2, FS_Subset
<1> QED BY <1>1, <1>3, FS_CardinalityType

\* Hearing of one more end counts one more.
LEMMA EndedGrows ==
  ASSUME NEW w \in Calls \ Ended, Ended' = Ended \cup {w}
  PROVE  Cardinality(Ended') = Cardinality(Ended) + 1
BY EndedIsBounded, FS_AddElement

LEMMA DisposedSession ==
  ASSUME NEW r \in PtySession
  PROVE  /\ Disposed(r) \in PtySession /\ Disposed(r).pty = "none"
         /\ Disposed(r).armed = r.armed /\ Disposed(r).strays = r.strays
         /\ Disposed(r).detached = r.detached
<1> DEFINE dying == r.dying + (IF r.pty = "running" THEN 1 ELSE 0)
           kills == r.kills + (IF r.pty = "none" THEN 0 ELSE 1)
<1>1. dying \in Nat /\ kills \in Nat
  BY DEF PtySession
<1>2. Disposed(r) = [r EXCEPT !.pty = "none", !.dying = dying, !.kills = kills]
  BY Zenon DEF Disposed
<1> HIDE DEF dying, kills
<1> QED BY <1>1, <1>2 DEF PtySession

LEMMA LapsedSession ==
  ASSUME NEW r \in PtySession
  PROVE  /\ Lapsed(r) \in PtySession /\ Lapsed(r).detached = r.detached
         /\ Lapsed(r).armed = r.armed /\ Lapsed(r).strays = r.strays
         /\ Lapsed(r).pty = IF r.detached THEN "none" ELSE r.pty
BY DisposedSession DEF Lapsed

LEMMA NewSessionTypes ==
  ASSUME NEW w \in Calls \cup {None}
  PROVE  /\ NewSession(w) \in PtySession /\ NewSession(w).pty = "none"
         /\ NewSession(w).strays = 0 /\ NewSession(w).armed = FALSE
BY DEF NewSession, PtySession

LEMMA TimersTypes ==
  ASSUME AgentTypes, NEW o \in Calls
  PROVE  Timers(o) \in Nat
BY DEF AgentTypes, PtySession, Timers

LEMMA StrayTypes ==
  ASSUME NEW r \in PtySession
  PROVE  r.strays \in Nat /\ r.armed \in BOOLEAN
BY DEF PtySession

LEMMA SidTypes ==
  ASSUME CallInv, NEW w \in Calls
  PROVE  Sid(w) \in Calls
BY DEF CallInv, CallTypes, ReattachNamesSession, Sid

-----------------------------------------------------------------------------
(* The steps of the panel and of the server.                               *)

\* No call connects, and those that did keep their session.
CallsKeepSessions ==
  /\ \A w \in Calls : stage'[w] = "open" <=> stage[w] = "open"
  /\ \A w \in Calls : stage[w] = "open" => kind'[w] = kind[w] /\ about'[w] = about[w]

LEMMA AgentRests ==
  ASSUME Inv, UNCHANGED agent, CallsKeepSessions
  PROVE  AgentInv'
<1>0. attached' = attached /\ byId' = byId /\ session' = session
  BY DEF agent
<1>1. AgentTypes' /\ SessionsWereOpened'
  BY <1>0 DEF Inv, AgentInv, AgentTypes, SessionsWereOpened, CallsKeepSessions
<1>2. Ended' = Ended
  BY <1>0 DEF Ended, CallsKeepSessions
<1>3. TimersAreCounted'
  BY <1>0, <1>2 DEF Inv, AgentInv, TimersAreCounted, Timers
<1>4. \A o \in Calls : stage[o] = "open" => Sid(o)' = Sid(o)
  BY DEF CallsKeepSessions, Sid
<1>5. \A o \in Calls : Held(o)' <=> Held(o)
  BY <1>0 DEF Held
<1>6. ProcessIsHeld'
  BY <1>0, <1>4, <1>5 DEF Inv, AgentInv, AgentTypes, SessionsWereOpened, ProcessIsHeld
<1> QED BY <1>1, <1>3, <1>6 DEF AgentInv

\* A call moves between places at which it has no connection.
LEMMA CallMoves ==
  ASSUME Inv, NEW w \in Calls, stage[w] # "open",
         NEW place \in {"unused", "asked", "killed", "answered", "failed", "gone",
                        "backoff", "checking", "opening", "over"},
         At(w, place), UNCHANGED <<kind, about, cut, deaf, agent>>
  PROVE  CallInv' /\ AgentInv'
<1>1. \A v \in Calls : stage'[v] = "open" <=> stage[v] = "open"
  BY DEF At, Inv, CallInv, CallTypes
<1>2. CallTypes'
  BY DEF At, Inv, CallInv, CallTypes
<1>3. CallsKeepSessions
  BY <1>1 DEF CallsKeepSessions
<1>4. ConnectionsAreBound' /\ AgentHears' /\ ReattachNamesSession'
  BY <1>1 DEF Inv, CallInv, agent, ConnectionsAreBound, AgentHears, ReattachNamesSession
<1> QED BY <1>2, <1>3, <1>4, AgentRests DEF CallInv

\* Connections may end; the agent hears of the end of those that were open.
ConnectionsKeep ==
  /\ cut' \in [Calls -> {None, "restart", "exited", "lost"}]
  /\ deaf' \in [Calls -> SUBSET {"panel", "agent"}]
  /\ \A w \in Calls : "agent" \in deaf'[w] => stage[w] = "open" /\ cut'[w] # None
  /\ \A w \in Calls : stage[w] = "open" =>
       (cut'[w] = None \/ "agent" \in deaf'[w] <=> cut[w] = None \/ "agent" \in deaf[w])

LEMMA CutAllKeeps ==
  ASSUME Inv, NEW ws \in SUBSET Calls, \A w \in ws : Connected(w),
         NEW why \in {"restart", "exited", "lost"}, CutAll(ws, why)
  PROVE  ConnectionsKeep
BY DEF CutAll, Connected, ConnectionsKeep, Inv, CallInv, CallTypes, AgentHears

LEMMA ConnectionsEnd ==
  ASSUME Inv, ConnectionsKeep, UNCHANGED <<kind, about, stage, attached>>
  PROVE  CallInv' /\ CallsKeepSessions
<1>1. CallTypes' /\ CallsKeepSessions
  BY DEF Inv, CallInv, CallTypes, ConnectionsKeep, CallsKeepSessions
<1>2. ConnectionsAreBound' /\ AgentHears' /\ ReattachNamesSession'
  BY DEF Inv, CallInv, ConnectionsKeep, ConnectionsAreBound, AgentHears, ReattachNamesSession
<1> QED BY <1>1, <1>2 DEF CallInv

\* The panel makes a call.
LEMMA PanelAsks ==
  ASSUME Inv, ConnectionsKeep, NEW w \in Calls, NEW s \in Calls \cup {None},
         NEW what \in {"connect", "reattach", "restart"}, what = "reattach" => s # None,
         Ask(w, what, s), UNCHANGED agent
  PROVE  CallInv' /\ AgentInv'
<1>1. CallTypes'
  BY DEF Ask, Inv, CallInv, CallTypes, ConnectionsKeep
<1>2. /\ CallsKeepSessions
      /\ stage[w] = "unused" /\ stage'[w] = "asked"
  BY DEF CallsKeepSessions, Ask, IsNext, Inv, CallInv, CallTypes
<1>3. ReattachNamesSession'
  BY DEF Ask, Inv, CallInv, CallTypes, ReattachNamesSession
<1>4. ConnectionsAreBound' /\ AgentHears'
  BY <1>2 DEF CallsKeepSessions, ConnectionsKeep, Inv, CallInv, ConnectionsAreBound,
              AgentHears, agent
<1> QED BY <1>1, <1>2, <1>3, <1>4, AgentRests DEF CallInv

LEMMA NothingEnds ==
  ASSUME Inv, UNCHANGED <<cut, deaf>>
  PROVE  ConnectionsKeep
BY DEF ConnectionsKeep, Inv, CallInv, CallTypes, AgentHears

-----------------------------------------------------------------------------
(* One lemma per group of steps.                                           *)

LEMMA PanelStepKeepsInv ==
  ASSUME Inv, NEW w \in Calls,
         \/ Answer(w) \/ Attach(w) \/ ReattachAnswer(w) \/ Retry(w) \/ GiveUp(w)
  PROVE  Inv'
<1> USE DEF panel, agent
<1>1. PanelTypes'
  <2>1. CASE Answer(w)
    BY <2>1 DEF Answer, Inv, PanelTypes
  <2>2. CASE Attach(w)
    BY <2>2 DEF Attach, Inv, PanelTypes
  <2>3. CASE ReattachAnswer(w)
    <3>1. /\ view' \in {view, "live", "ended"} /\ current' \in {current, about[w]}
          /\ socket' \in {socket, w} /\ inFlight' \in {inFlight, FALSE}
          /\ UNCHANGED <<polling, page>>
      BY <2>3 DEF ReattachAnswer
    <3>2. about[w] \in Calls \cup {None}
      BY DEF Inv, CallInv, CallTypes
    <3> QED BY <3>1, <3>2 DEF Inv, PanelTypes
  <2>4. CASE Retry(w)
    BY <2>4 DEF Retry, Inv, PanelTypes
  <2>5. CASE GiveUp(w)
    BY <2>5 DEF GiveUp, Inv, PanelTypes
  <2> QED BY <2>1, <2>2, <2>3, <2>4, <2>5
<1>2. ServerTypes'
  BY DEF Answer, Attach, ReattachAnswer, Retry, GiveUp, Inv, ServerTypes
<1>3. /\ stage[w] # "open"
      /\ \E place \in {"checking", "over", "opening", "backoff", "asked"} : At(w, place)
      /\ UNCHANGED <<kind, about, cut, deaf, agent>>
  BY DEF Answer, Attach, ReattachAnswer, Retry, GiveUp
<1>4. CallInv' /\ AgentInv'
  BY <1>3, CallMoves
<1> QED BY <1>1, <1>2, <1>4 DEF Inv

LEMMA PanelClosesKeepsInv ==
  ASSUME Inv, NEW w \in Calls, PanelCloses(w)
  PROVE  Inv'
<1>1. PanelTypes' /\ ServerTypes'
  BY DEF PanelCloses, Inv, PanelTypes, ServerTypes
<1>2. ConnectionsKeep /\ UNCHANGED agent
  BY DEF PanelCloses, ConnectionsKeep, Inv, CallInv, CallTypes, AgentHears
<1>3. ASSUME NEW v \in Calls, Ask(v, "reattach", current), current # None
      PROVE  CallInv' /\ AgentInv'
  BY <1>2, <1>3, PanelAsks DEF Inv, PanelTypes
<1>4. ASSUME UNCHANGED <<kind, about, stage>>
      PROVE  CallInv' /\ AgentInv'
  <2>1. CallInv' /\ CallsKeepSessions
    BY <1>2, <1>4, ConnectionsEnd DEF agent
  <2> QED BY <1>2, <2>1, AgentRests
<1>5. CallInv' /\ AgentInv'
  BY <1>3, <1>4 DEF PanelCloses
<1> QED BY <1>1, <1>5 DEF Inv

LEMMA CallStepKeepsInv ==
  ASSUME Inv, NEW w \in Calls, Connect(w) \/ ForceRestart(w)
  PROVE  Inv'
<1>1. PanelTypes' /\ ServerTypes' /\ UNCHANGED agent
  BY DEF Connect, ForceRestart, Inv, PanelTypes, ServerTypes
<1>2. CASE Connect(w)
  <2>1. ConnectionsKeep
    BY <1>2, NothingEnds DEF Connect
  <2>2. CallInv' /\ AgentInv'
    BY <1>1, <1>2, <2>1, PanelAsks DEF Connect
  <2> QED BY <1>1, <2>2 DEF Inv
<1>3. CASE ForceRestart(w)
  <2> DEFINE ws == {s \in {socket} \ {None} : Connected(s)}
  <2>1. ws \in SUBSET Calls /\ \A s \in ws : Connected(s)
    BY DEF Inv, PanelTypes
  <2>2. \E why \in {"restart", "lost"} : CutAll(ws, why)
    BY <1>3 DEF ForceRestart
  <2>3. ConnectionsKeep
    <3> HIDE DEF ws
    <3> QED BY <2>1, <2>2, CutAllKeeps
  <2>4. CallInv' /\ AgentInv'
    BY <1>1, <1>3, <2>3, PanelAsks DEF ForceRestart, Inv, PanelTypes
  <2> QED BY <1>1, <2>4 DEF Inv
<1> QED BY <1>2, <1>3

LEMMA HideKeepsInv ==
  ASSUME Inv, Hide
  PROVE  Inv'
<1>1. PanelTypes' /\ ServerTypes' /\ UNCHANGED agent
  BY DEF Hide, Inv, PanelTypes, ServerTypes
<1>2. CallTypes' /\ CallsKeepSessions
  BY DEF Hide, CallsKeepSessions, Inv, CallInv, CallTypes
<1>3. ConnectionsAreBound' /\ AgentHears' /\ ReattachNamesSession'
  BY <1>1 DEF Hide, Connected, agent, Inv, CallInv, CallTypes, ConnectionsAreBound,
              AgentHears, ReattachNamesSession
<1> QED BY <1>1, <1>2, <1>3, AgentRests DEF Inv, CallInv

LEMMA ServerStepKeepsInv ==
  ASSUME Inv, NEW w \in Calls, Mint(w) \/ Reattach(w)
  PROVE  Inv'
<1>1. PanelTypes'
  BY DEF Mint, Reattach, panel, Inv, PanelTypes
<1>2. UNCHANGED faults \/ Fault
  BY DEF Mint, Reattach
<1>3. faults' \in 0 .. MaxFaults
  BY <1>2 DEF Fault, Inv, ServerTypes
<1>4. leases' \subseteq Calls
  BY DEF Mint, Reattach, Inv, ServerTypes
<1>5. /\ stage[w] # "open"
      /\ \E place \in {"answered", "failed", "gone"} : At(w, place)
      /\ UNCHANGED <<kind, about, cut, deaf, agent>>
  BY DEF Mint, Reattach
<1> QED BY <1>1, <1>3, <1>4, <1>5, CallMoves DEF Inv, ServerTypes

-----------------------------------------------------------------------------
(* The steps of the agent.                                                 *)

\* Session o changes, with the connections that are bound to it and the id it is
\* kept under; no other session does.
SessionChanges(o, r) ==
  /\ session' = [session EXCEPT ![o] = r]
  /\ attached' \in [Calls -> Calls \cup {None}] /\ byId' \in [Calls -> Calls \cup {None}]
  /\ \A w \in Calls : attached'[w] = attached[w] \/ {attached[w], attached'[w]} \subseteq {o, None}
  /\ \A s \in Calls : byId'[s] \in {byId[s], None, o}

CallsStayOpen ==
  \A w \in Calls : stage[w] = "open" =>
    stage'[w] = "open" /\ kind'[w] = kind[w] /\ about'[w] = about[w]

\* Its timers stay within the ends that the agent heard of, and whoever needs it
\* held finds it held.
LEMMA SessionStep ==
  ASSUME Inv, NEW o \in Calls, NEW r \in PtySession, SessionChanges(o, r), CallsStayOpen,
         Cardinality(Ended) <= Cardinality(Ended'),
         r.strays + (IF r.armed THEN 1 ELSE 0) <= Cardinality(Ended'),
         r.pty = "running" => Held(o)',
         \A w \in Calls : attached'[w] = o => stage'[o] = "open",
         \A s \in Calls : byId'[s] = o => stage'[o] = "open" /\ Sid(o)' = s /\ Held(o)'
  PROVE  AgentInv'
<1>0. /\ session'[o] = r /\ session' \in [Calls -> PtySession]
      /\ \A q \in Calls \ {o} : session'[q] = session[q]
  BY DEF SessionChanges, Inv, AgentInv, AgentTypes
<1>1. AgentTypes'
  BY <1>0 DEF SessionChanges, AgentTypes
<1>2. ASSUME NEW s \in Calls, byId'[s] # None, byId'[s] # o
      PROVE  /\ byId'[s] = byId[s] /\ byId[s] \in Calls /\ stage[byId[s]] = "open"
             /\ Sid(byId[s]) = s /\ Held(byId[s])
  BY <1>2 DEF SessionChanges, Inv, AgentInv, AgentTypes, ProcessIsHeld, SessionsWereOpened
<1>3. SessionsWereOpened'
  <2>1. ASSUME NEW w \in Calls, attached'[w] # None
        PROVE  stage'[attached'[w]] = "open"
    BY <2>1 DEF SessionChanges, CallsStayOpen, Inv, AgentInv, AgentTypes, SessionsWereOpened
  <2>2. ASSUME NEW s \in Calls, byId'[s] # None
        PROVE  stage'[byId'[s]] = "open"
    BY <1>2, <2>2 DEF CallsStayOpen
  <2> QED BY <2>1, <2>2 DEF SessionsWereOpened
<1>4. Cardinality(Ended) \in Nat /\ Cardinality(Ended') \in Nat
  <2>1. (Cardinality(Ended) \in 0 .. MaxCalls)'
    BY EndedIsBounded, PTL
  <2> QED BY <2>1, EndedIsBounded
<1>5. TimersAreCounted'
  <2> SUFFICES ASSUME NEW q \in Calls
               PROVE  Timers(q)' <= Cardinality(Ended')
    BY DEF TimersAreCounted
  <2>1. Timers(q) \in Nat /\ Timers(q) <= Cardinality(Ended)
    BY TimersTypes DEF Inv, AgentInv, TimersAreCounted
  <2>2. CASE q = o
    BY <1>0, <2>2 DEF Timers
  <2>3. CASE q # o
    <3>1. Timers(q)' = Timers(q)
      BY <1>0, <2>3 DEF Timers
    <3> QED BY <1>4, <2>1, <3>1
  <2> QED BY <2>2, <2>3
<1>6. \A q \in Calls \ {o} : Held(q)' <=> Held(q)
  <2> TAKE q \in Calls \ {o}
  <2>1. \A w \in Calls : attached'[w] = q <=> attached[w] = q
    BY DEF SessionChanges
  <2> QED BY <1>0, <2>1 DEF Held
<1>7. ASSUME NEW s \in Calls, byId'[s] # None
      PROVE  (Sid(byId[s]) = s /\ Held(byId[s]))'
  <2>1. PICK q \in Calls : byId'[s] = q
    BY <1>1, <1>7 DEF AgentTypes
  <2>2. Sid(q)' = s /\ Held(q)'
    <3>1. CASE q = o
      BY <2>1, <3>1
    <3>2. CASE q # o
      <4>1. Sid(q) = s /\ Held(q) /\ stage[q] = "open"
        BY <1>2, <1>7, <2>1, <3>2
      <4>2. Sid(q)' = Sid(q)
        BY <4>1 DEF CallsStayOpen, Sid
      <4> QED BY <1>6, <3>2, <4>1, <4>2
    <3> QED BY <3>1, <3>2
  <2> QED BY <2>1, <2>2 DEF Sid, Held
<1>8. \A q \in Calls : session'[q].pty = "running" => Held(q)'
  BY <1>0, <1>6 DEF Inv, AgentInv, ProcessIsHeld
<1> QED BY <1>1, <1>3, <1>5, <1>7, <1>8 DEF AgentInv, ProcessIsHeld

\* The case in which no connection opens or is heard to end.
LEMMA SessionAlone ==
  ASSUME Inv, NEW o \in Calls, NEW r \in PtySession,
         session' = [session EXCEPT ![o] = r],
         UNCHANGED attached, CallsKeepSessions,
         byId' \in [Calls -> Calls \cup {None}],
         \A s \in Calls : byId'[s] \in {byId[s], None},
         r.strays + (IF r.armed THEN 1 ELSE 0) <= Timers(o),
         r.pty = "running" => Held(o)',
         byId[Sid(o)] = o /\ byId'[Sid(o)] = o => Held(o)'
  PROVE  AgentInv'
<1>1. SessionChanges(o, r) /\ CallsStayOpen
  BY DEF SessionChanges, CallsStayOpen, CallsKeepSessions, Inv, AgentInv, AgentTypes
<1>2. Ended' = Ended
  BY DEF Ended, CallsKeepSessions
<1>3. /\ Cardinality(Ended) <= Cardinality(Ended')
      /\ r.strays + (IF r.armed THEN 1 ELSE 0) <= Cardinality(Ended')
  BY <1>2, EndedIsBounded, TimersTypes DEF Inv, AgentInv, TimersAreCounted, PtySession
<1>4. \A w \in Calls : attached'[w] = o => stage'[o] = "open"
  BY <1>1 DEF CallsStayOpen, Inv, AgentInv, SessionsWereOpened
<1>5. ASSUME NEW s \in Calls, byId'[s] = o
      PROVE  stage'[o] = "open" /\ Sid(o)' = s /\ Held(o)'
  <2>1. byId[s] = o /\ Sid(o) = s /\ stage[o] = "open"
    BY <1>5 DEF Inv, AgentInv, ProcessIsHeld, SessionsWereOpened
  <2>2. Sid(o)' = Sid(o) /\ stage'[o] = "open"
    BY <1>1, <2>1 DEF CallsStayOpen, Sid
  <2> QED BY <1>5, <2>1, <2>2
<1> QED BY <1>1, <1>3, <1>4, <1>5, SessionStep

\* /internal/restart leaves nothing under the id of the session it disposes of.
LEMMA RestartedStep ==
  ASSUME Inv, NEW s \in Calls \cup {None}, Restarted(s),
         UNCHANGED attached, CallsKeepSessions
  PROVE  AgentInv'
<1>1. CASE s # None /\ byId[s] # None
  <2> DEFINE o == byId[s]
             r == [Disposed(session[o]) EXCEPT !.armed = FALSE]
  <2>1. o \in Calls /\ s \in Calls /\ session[o] \in PtySession /\ Sid(o) = s
    BY <1>1 DEF Inv, AgentInv, AgentTypes, ProcessIsHeld
  <2>2. r \in PtySession /\ r.pty = "none" /\ r.strays = session[o].strays /\ r.armed = FALSE
    <3>1. Disposed(session[o]) \in PtySession
          /\ Disposed(session[o]).pty = "none" /\ Disposed(session[o]).strays = session[o].strays
      BY <2>1, DisposedSession
    <3> QED BY <3>1 DEF PtySession
  <2>3. session' = [session EXCEPT ![o] = r] /\ byId' = [byId EXCEPT ![s] = None]
    BY <1>1 DEF Restarted
  <2>4. /\ byId' \in [Calls -> Calls \cup {None}] /\ byId'[Sid(o)] # o
        /\ \A q \in Calls : byId'[q] \in {byId[q], None}
    BY <2>1, <2>3 DEF Inv, AgentInv, AgentTypes
  <2>5. r.strays + (IF r.armed THEN 1 ELSE 0) <= Timers(o)
    BY <2>1, <2>2 DEF Timers, PtySession
  <2> HIDE DEF o, r
  <2> QED BY <2>1, <2>2, <2>3, <2>4, <2>5, SessionAlone
<1>2. CASE ~(s # None /\ byId[s] # None)
  BY <1>2, AgentRests DEF Restarted, agent
<1> QED BY <1>1, <1>2

LEMMA KillKeepsInv ==
  ASSUME Inv, NEW w \in Calls, Kill(w)
  PROVE  Inv'
<1>1. PanelTypes' /\ ServerTypes'
  BY DEF Kill, panel, Inv, PanelTypes, ServerTypes
<1>2. CallTypes' /\ CallsKeepSessions
  BY DEF Kill, At, CallsKeepSessions, Inv, CallInv, CallTypes
<1>3. ConnectionsAreBound' /\ AgentHears' /\ ReattachNamesSession'
  BY <1>2 DEF Kill, CallsKeepSessions, Inv, CallInv, ConnectionsAreBound, AgentHears,
              ReattachNamesSession
<1>4. AgentInv'
  <2>1. UNCHANGED attached /\ about[w] \in Calls \cup {None}
    BY DEF Kill, Inv, CallInv, CallTypes
  <2>2. CASE Restarted(about[w])
    BY <1>2, <2>1, <2>2, RestartedStep
  <2>3. CASE UNCHANGED <<session, byId>>
    BY <1>2, <2>1, <2>3, AgentRests DEF agent
  <2> QED BY <2>2, <2>3 DEF Kill
<1> QED BY <1>1, <1>2, <1>3, <1>4 DEF Inv, CallInv

LEMMA DisposeKeepsInv ==
  ASSUME Inv, Dispose
  PROVE  Inv'
<1>1. PanelTypes' /\ ServerTypes' /\ UNCHANGED calls /\ UNCHANGED attached
  BY DEF Dispose, Inv, PanelTypes, ServerTypes
<1>2. CallInv' /\ CallsKeepSessions
  BY <1>1, NothingEnds, ConnectionsEnd DEF calls
<1>3. AgentInv'
  <2>1. CASE Restarted(current)
    BY <1>1, <1>2, <2>1, RestartedStep DEF Inv, PanelTypes
  <2>2. CASE UNCHANGED <<session, byId>>
    BY <1>1, <1>2, <2>2, AgentRests DEF agent
  <2> QED BY <2>1, <2>2 DEF Dispose
<1> QED BY <1>1, <1>2, <1>3 DEF Inv

LEMMA InputKeepsInv ==
  ASSUME Inv, NEW w \in Calls, Input(w)
  PROVE  Inv'
<1>0. PICK o \in Calls : o = attached[w]
  BY DEF Input, Inv, AgentInv, AgentTypes
<1> DEFINE r == [session[o] EXCEPT !.pty = "running"]
<1>1. /\ PanelTypes' /\ ServerTypes' /\ UNCHANGED calls /\ UNCHANGED <<attached, byId>>
      /\ session' = [session EXCEPT ![o] = r]
  BY <1>0 DEF Input, panel, Inv, PanelTypes, ServerTypes
<1>2. CallInv' /\ CallsKeepSessions
  BY <1>1, NothingEnds, ConnectionsEnd DEF calls
<1>3. session[o] \in PtySession
  BY DEF Inv, AgentInv, AgentTypes
<1>4. r \in PtySession /\ r.strays + (IF r.armed THEN 1 ELSE 0) = Timers(o)
  BY <1>3 DEF PtySession, Timers
<1>5. Held(o)' /\ byId' \in [Calls -> Calls \cup {None}]
  BY <1>0, <1>1 DEF Held, Inv, AgentInv, AgentTypes
<1>6. AgentInv'
  <2>1. r.strays + (IF r.armed THEN 1 ELSE 0) <= Timers(o)
    BY <1>3, <1>4 DEF PtySession, Timers
  <2>2. UNCHANGED attached /\ Held(o)'
    BY <1>1, <1>5
  <2> HIDE DEF r
  <2> QED BY <1>1, <1>2, <1>4, <1>5, <2>1, <2>2, SessionAlone
<1> QED BY <1>1, <1>2, <1>6 DEF Inv

LEMMA BreakKeepsInv ==
  ASSUME Inv, NEW w \in Calls, Break(w)
  PROVE  Inv'
<1>1. PanelTypes' /\ ServerTypes' /\ UNCHANGED agent
  BY DEF Break, Fault, panel, Inv, PanelTypes, ServerTypes
<1>2. ConnectionsKeep
  BY CutAllKeeps DEF Break
<1>3. CallInv' /\ CallsKeepSessions
  BY <1>1, <1>2, ConnectionsEnd DEF Break, agent
<1> QED BY <1>1, <1>3, AgentRests DEF Inv

\* A process of session o exits or is forgotten, and connections end with it.
LEMMA ProcessEnds ==
  ASSUME Inv, NEW o \in Calls, NEW ws \in SUBSET Calls, \A w \in ws : Connected(w),
         CutAll(ws, "exited"), UNCHANGED <<kind, about, stage, attached, byId>>,
         NEW r \in PtySession, session' = [session EXCEPT ![o] = r],
         r.strays = session[o].strays, r.armed = session[o].armed,
         r.detached = session[o].detached, r.pty \in {session[o].pty, "exited"}
  PROVE  CallInv' /\ AgentInv'
<1>1. ConnectionsKeep
  BY CutAllKeeps
<1>2. CallInv' /\ CallsKeepSessions
  BY <1>1, ConnectionsEnd
<1>3. session[o] \in PtySession /\ byId' \in [Calls -> Calls \cup {None}]
  BY DEF Inv, AgentInv, AgentTypes
<1>4. r.strays + (IF r.armed THEN 1 ELSE 0) <= Timers(o)
  BY <1>3 DEF PtySession, Timers
<1>5. Held(o)' <=> Held(o)
  BY DEF Held, Inv, AgentInv, AgentTypes
<1>6. /\ r.pty = "running" => Held(o)
      /\ byId[Sid(o)] = o => Held(o)
  BY SidTypes DEF Inv, AgentInv, ProcessIsHeld
<1> QED BY <1>2, <1>3, <1>4, <1>5, <1>6, SessionAlone

LEMMA ExitKeepsInv ==
  ASSUME Inv, NEW o \in Calls, Exit(o)
  PROVE  Inv'
<1>1. /\ PanelTypes' /\ UNCHANGED <<attached, byId, kind, about, stage, leases>>
      /\ UNCHANGED faults \/ Fault
  BY DEF Exit, panel, Inv, PanelTypes
<1>2. ServerTypes'
  BY <1>1 DEF Fault, Inv, ServerTypes
<1>3. PICK ws \in SUBSET Calls : (\A w \in ws : Connected(w)) /\ CutAll(ws, "exited")
  <2> DEFINE live == {w \in Calls : w = session[o].liveWs /\ Connected(w)}
  <2>1. live \in SUBSET Calls /\ (\A w \in live : Connected(w)) /\ CutAll(live, "exited")
    BY DEF Exit
  <2> HIDE DEF live
  <2> QED BY <2>1
<1>4. session[o] \in PtySession
  BY DEF Inv, AgentInv, AgentTypes
<1>5. PICK r \in PtySession :
        /\ session' = [session EXCEPT ![o] = r]
        /\ r.strays = session[o].strays /\ r.armed = session[o].armed
        /\ r.detached = session[o].detached /\ r.pty \in {session[o].pty, "exited"}
  <2>1. CASE session' = [session EXCEPT ![o].pty = "exited"]
    <3> DEFINE r == [session[o] EXCEPT !.pty = "exited"]
    <3>1. r \in PtySession /\ session' = [session EXCEPT ![o] = r]
      BY <1>4, <2>1 DEF PtySession
    <3>2. /\ r.strays = session[o].strays /\ r.armed = session[o].armed
          /\ r.detached = session[o].detached /\ r.pty = "exited"
      BY <1>4 DEF PtySession
    <3> HIDE DEF r
    <3> QED BY <3>1, <3>2
  <2>2. CASE session[o].dying > 0 /\ session' = [session EXCEPT ![o].dying = session[o].dying - 1]
    <3> DEFINE r == [session[o] EXCEPT !.dying = session[o].dying - 1]
    <3>1. r \in PtySession /\ session' = [session EXCEPT ![o] = r]
      BY <1>4, <2>2 DEF PtySession
    <3>2. /\ r.strays = session[o].strays /\ r.armed = session[o].armed
          /\ r.detached = session[o].detached /\ r.pty = session[o].pty
      BY <1>4 DEF PtySession
    <3> HIDE DEF r
    <3> QED BY <3>1, <3>2
  <2> QED BY <2>1, <2>2 DEF Exit
<1> QED BY <1>1, <1>2, <1>3, <1>5, ProcessEnds DEF Inv

LEMMA KillTimeoutKeepsInv ==
  ASSUME Inv, NEW o \in Calls, KillTimeout(o)
  PROVE  Inv'
<1>1. /\ PanelTypes' /\ ServerTypes'
      /\ UNCHANGED <<attached, byId, kind, about, stage>>
  BY DEF KillTimeout, panel, Inv, PanelTypes, ServerTypes
<1>2. PICK ws \in SUBSET Calls : (\A w \in ws : Connected(w)) /\ CutAll(ws, "exited")
  <2> DEFINE live == {w \in Calls : session[o].pty = "running" /\ w = session[o].liveWs
                                     /\ Connected(w)}
  <2>1. live \in SUBSET Calls /\ (\A w \in live : Connected(w)) /\ CutAll(live, "exited")
    BY DEF KillTimeout
  <2> HIDE DEF live
  <2> QED BY <2>1
<1>3. session[o] \in PtySession /\ session[o].kills > 0
  BY DEF KillTimeout, Inv, AgentInv, AgentTypes
<1> DEFINE kills == session[o].kills - 1
           pty == IF session[o].pty = "running" THEN "exited" ELSE session[o].pty
           r == [session[o] EXCEPT !.kills = kills, !.pty = pty]
<1>4. session' = [session EXCEPT ![o] = r]
  BY DEF KillTimeout, Inv, AgentInv, AgentTypes
<1>5. /\ kills \in Nat /\ pty \in {session[o].pty, "exited"}
      /\ pty \in {"none", "running", "exited"}
  BY <1>3 DEF PtySession
<1> HIDE DEF kills, pty
<1>6. /\ r \in PtySession /\ r.strays = session[o].strays /\ r.armed = session[o].armed
      /\ r.detached = session[o].detached /\ r.pty \in {session[o].pty, "exited"}
  BY <1>3, <1>5 DEF PtySession
<1> HIDE DEF r
<1> QED BY <1>1, <1>2, <1>4, <1>6, ProcessEnds DEF Inv

LEMMA DetachTimeoutKeepsInv ==
  ASSUME Inv, NEW o \in Calls, DetachTimeout(o)
  PROVE  Inv'
<1>1. /\ PanelTypes' /\ ServerTypes' /\ UNCHANGED calls /\ UNCHANGED attached
      /\ byId' = [byId EXCEPT ![Sid(o)] = IF session[o].detached THEN None ELSE @]
  BY DEF DetachTimeout, panel, Inv, PanelTypes, ServerTypes
<1>2. CallInv' /\ CallsKeepSessions
  BY <1>1, NothingEnds, ConnectionsEnd DEF calls
<1>3. session[o] \in PtySession /\ Sid(o) \in Calls
  BY SidTypes DEF Inv, AgentInv, AgentTypes
<1>4. PICK r \in PtySession :
        /\ session' = [session EXCEPT ![o] = Lapsed(r)] /\ r.detached = session[o].detached
        /\ r.pty = session[o].pty
        /\ r.strays + (IF r.armed THEN 1 ELSE 0) <= Timers(o)
  <2>1. CASE /\ session[o].armed
             /\ session' = [session EXCEPT ![o] = Lapsed([@ EXCEPT !.armed = FALSE])]
    <3> DEFINE r == [session[o] EXCEPT !.armed = FALSE]
    <3>1. /\ r \in PtySession /\ r.detached = session[o].detached /\ r.pty = session[o].pty
          /\ r.strays = session[o].strays /\ r.armed = FALSE
      BY <1>3 DEF PtySession
    <3>3. r.strays + (IF r.armed THEN 1 ELSE 0) <= Timers(o)
      BY <1>3, <2>1, <3>1, StrayTypes DEF Timers
    <3>2. session' = [session EXCEPT ![o] = Lapsed(r)]
      BY <2>1
    <3> HIDE DEF r
    <3> QED BY <3>1, <3>2, <3>3
  <2>2. CASE /\ session[o].strays > 0
             /\ session' = [session EXCEPT ![o] = Lapsed([@ EXCEPT !.strays = session[o].strays - 1])]
    <3> DEFINE r == [session[o] EXCEPT !.strays = session[o].strays - 1]
    <3>1. /\ r \in PtySession /\ r.detached = session[o].detached /\ r.pty = session[o].pty
          /\ r.strays = session[o].strays - 1 /\ r.armed = session[o].armed
      BY <1>3, <2>2 DEF PtySession
    <3>3. r.strays + (IF r.armed THEN 1 ELSE 0) <= Timers(o)
      BY <1>3, <2>2, <3>1, StrayTypes DEF Timers
    <3>2. session' = [session EXCEPT ![o] = Lapsed(r)]
      BY <2>2
    <3> HIDE DEF r
    <3> QED BY <3>1, <3>2, <3>3
  <2> QED BY <2>1, <2>2 DEF DetachTimeout
<1>5. PICK l \in PtySession : /\ l = Lapsed(r) /\ l.armed = r.armed /\ l.strays = r.strays
                              /\ l.pty = (IF r.detached THEN "none" ELSE r.pty)
  BY LapsedSession
<1>6. /\ byId' \in [Calls -> Calls \cup {None}]
      /\ \A s \in Calls : byId'[s] \in {byId[s], None}
      /\ session[o].detached => byId'[Sid(o)] = None
  BY <1>1, <1>3 DEF Inv, AgentInv, AgentTypes
<1>7. ~session[o].detached /\ Held(o) => Held(o)'
  BY <1>1 DEF Held
<1>8. session[o].pty = "running" \/ byId[Sid(o)] = o => Held(o)
  BY <1>3 DEF Inv, AgentInv, ProcessIsHeld
<1>9. AgentInv'
  <2>1. /\ l.pty = "running" => Held(o)'
        /\ byId[Sid(o)] = o /\ byId'[Sid(o)] = o => Held(o)'
    BY <1>4, <1>5, <1>6, <1>7, <1>8
  <2> QED BY <1>1, <1>2, <1>4, <1>5, <1>6, <2>1, SessionAlone
<1> QED BY <1>1, <1>2, <1>9 DEF Inv

LEMMA AgentClosesKeepsInv ==
  ASSUME Inv, NEW w \in Calls, AgentCloses(w)
  PROVE  Inv'
<1>1. /\ PanelTypes' /\ ServerTypes' /\ UNCHANGED <<kind, about, stage, cut>>
      /\ deaf' = [deaf EXCEPT ![w] = @ \ {"agent"}]
      /\ attached' = [attached EXCEPT ![w] = None]
      /\ "agent" \in deaf[w]
  BY DEF AgentCloses, panel, Inv, PanelTypes, ServerTypes
<1>2. stage[w] = "open" /\ cut[w] # None /\ attached[w] # None
  BY <1>1 DEF Inv, CallInv, AgentHears, ConnectionsAreBound
<1>3. CallInv'
  <2>1. CallTypes' /\ ReattachNamesSession'
    BY <1>1 DEF Inv, CallInv, CallTypes, ReattachNamesSession
  <2>2. ConnectionsAreBound' /\ AgentHears'
    BY <1>1, <1>2 DEF Inv, CallInv, CallTypes, AgentInv, AgentTypes, ConnectionsAreBound,
                      AgentHears
  <2> QED BY <2>1, <2>2 DEF CallInv
<1>4. PICK o \in Calls :
        /\ o = attached[w]
        /\ IF cut[w] \in {"restart", "exited"}
             THEN /\ session' = [session EXCEPT ![o] = Disposed(@)]
                  /\ byId' = [byId EXCEPT ![Sid(o)] = None]
             ELSE /\ session' = [session EXCEPT ![o] =
                       [@ EXCEPT !.detached = TRUE, !.liveWs = None, !.armed = TRUE,
                                 !.strays = Timers(o)]]
                  /\ UNCHANGED byId
  <2>1. attached[w] \in Calls
    BY <1>2 DEF Inv, AgentInv, AgentTypes
  <2> QED BY <2>1, Zenon DEF AgentCloses, Timers
<1>5. session[o] \in PtySession /\ Sid(o) \in Calls /\ stage[o] = "open"
  BY <1>2, <1>4, SidTypes DEF Inv, AgentInv, AgentTypes, SessionsWereOpened
<1>6. CallsStayOpen
  BY <1>1 DEF CallsStayOpen
<1>7. Cardinality(Ended') = Cardinality(Ended) + 1
  <2>1. w \in Calls \ Ended /\ Ended' = Ended \cup {w}
    BY <1>1, <1>2 DEF Ended, Inv, AgentInv, AgentTypes
  <2> QED BY <2>1, EndedGrows
<1>8. Cardinality(Ended) \in Nat /\ Timers(o) \in Nat /\ Timers(o) <= Cardinality(Ended)
  BY EndedIsBounded, TimersTypes DEF Inv, AgentInv, TimersAreCounted
<1>9. ASSUME NEW r \in PtySession, session' = [session EXCEPT ![o] = r],
             r.strays + (IF r.armed THEN 1 ELSE 0) <= Timers(o) + 1,
             r.pty # "none" => r.detached /\ r.armed,
             \/ byId' = [byId EXCEPT ![Sid(o)] = None]
             \/ byId' = byId /\ r.detached /\ r.armed
      PROVE  AgentInv'
  <2>1. SessionChanges(o, r)
    BY <1>1, <1>4, <1>9 DEF SessionChanges, Inv, AgentInv, AgentTypes
  <2>2. session'[o] = r
    BY <1>9 DEF Inv, AgentInv, AgentTypes
  <2>3. r.pty = "running" => Held(o)'
    BY <1>9, <2>2 DEF Held
  <2>4. ASSUME NEW s \in Calls, byId'[s] = o
        PROVE  stage'[o] = "open" /\ Sid(o)' = s /\ Held(o)'
    <3>1. byId[s] = o
      BY <1>5, <1>9, <2>4 DEF Inv, AgentInv, AgentTypes
    <3>2. Sid(o) = s
      BY <3>1 DEF Inv, AgentInv, ProcessIsHeld
    <3>3. byId' = byId /\ r.detached /\ r.armed
      BY <1>5, <1>9, <2>4, <3>2 DEF Inv, AgentInv, AgentTypes
    <3>4. Held(o)'
      BY <2>2, <3>3 DEF Held
    <3>5. Sid(o)' = Sid(o)
      BY <1>1 DEF Sid
    <3> QED BY <1>1, <1>5, <3>2, <3>4, <3>5
  <2>5. \A v \in Calls : attached'[v] = o => stage'[o] = "open"
    BY <1>1, <1>5
  <2>6. /\ Cardinality(Ended) <= Cardinality(Ended')
        /\ r.strays + (IF r.armed THEN 1 ELSE 0) <= Cardinality(Ended')
    BY <1>7, <1>8, <1>9, StrayTypes
  <2> QED BY <1>6, <1>9, <2>1, <2>3, <2>4, <2>5, <2>6, SessionStep
<1>10. CASE cut[w] \in {"restart", "exited"}
  <2>1. /\ session' = [session EXCEPT ![o] = Disposed(session[o])]
        /\ byId' = [byId EXCEPT ![Sid(o)] = None]
    BY <1>4, <1>10
  <2>2. PICK r \in PtySession : /\ r = Disposed(session[o]) /\ r.pty = "none"
                                /\ r.armed = session[o].armed
                                /\ r.strays = session[o].strays
    BY <1>5, DisposedSession
  <2>3. r.strays + (IF r.armed THEN 1 ELSE 0) <= Timers(o) + 1
    BY <2>2 DEF Timers, PtySession
  <2>4. AgentInv'
    BY <1>9, <2>1, <2>2, <2>3
  <2> QED BY <1>1, <1>3, <2>4 DEF Inv
<1>11. CASE cut[w] \notin {"restart", "exited"}
  <2> DEFINE r == [session[o] EXCEPT !.detached = TRUE, !.liveWs = None, !.armed = TRUE,
                                     !.strays = Timers(o)]
  <2>1. session' = [session EXCEPT ![o] = r] /\ byId' = byId
    BY <1>4, <1>11, Zenon
  <2>2. r \in PtySession /\ r.detached /\ r.armed = TRUE /\ r.strays = Timers(o)
    BY <1>5, <1>8 DEF PtySession
  <2>3. r.strays + (IF r.armed THEN 1 ELSE 0) <= Timers(o) + 1
    BY <1>8, <2>2
  <2> HIDE DEF r
  <2>4. AgentInv'
    BY <1>9, <2>1, <2>2, <2>3
  <2> QED BY <1>1, <1>3, <2>4 DEF Inv
<1> QED BY <1>10, <1>11

LEMMA OpenKeepsInv ==
  ASSUME Inv, NEW w \in Calls, Open(w)
  PROVE  Inv'
<1>1. /\ PanelTypes' /\ ServerTypes' /\ UNCHANGED <<kind, about, cut, deaf>> /\ At(w, "open")
      /\ stage[w] = "opening" /\ cut[w] = None
  BY DEF Open, panel, Inv, PanelTypes, ServerTypes
<1>2. Sid(w) \in Calls
  BY SidTypes DEF Inv
<1>3. PICK o \in Calls :
        /\ o = IF byId[Sid(w)] = None THEN w ELSE byId[Sid(w)]
        /\ session' = [session EXCEPT ![o] =
             IF o = w THEN NewSession(w)
             ELSE [@ EXCEPT !.armed = FALSE, !.detached = FALSE, !.liveWs = w]]
        /\ byId' = [byId EXCEPT ![Sid(w)] = o]
        /\ attached' = [attached EXCEPT ![w] = o]
  BY <1>2 DEF Open, Inv, AgentInv, AgentTypes
<1>4. /\ attached'[w] = o /\ attached[w] = None
      /\ stage'[w] = "open" /\ \A v \in Calls \ {w} : stage'[v] = stage[v]
      /\ \A v \in Calls \ {w} : attached'[v] = attached[v]
  BY <1>1, <1>3 DEF At, Inv, CallInv, CallTypes, ConnectionsAreBound, AgentInv, AgentTypes
<1>5. CallInv'
  <2>1. CallTypes' /\ ReattachNamesSession'
    BY <1>1 DEF At, Inv, CallInv, CallTypes, ReattachNamesSession
  <2>2. ConnectionsAreBound' /\ AgentHears'
    BY <1>1, <1>4 DEF Inv, CallInv, ConnectionsAreBound, AgentHears
  <2> QED BY <2>1, <2>2 DEF CallInv
<1>6. stage'[o] = "open" /\ Sid(o)' = Sid(w)
  <2>1. stage[o] = "open" \/ o = w
    BY <1>2, <1>3 DEF Inv, AgentInv, SessionsWereOpened
  <2>2. Sid(o) = Sid(w)
    BY <1>2, <1>3 DEF Inv, AgentInv, ProcessIsHeld
  <2>3. Sid(o)' = Sid(o)
    BY <1>1 DEF Sid
  <2> QED BY <1>4, <2>1, <2>2, <2>3
<1>7. PICK r \in PtySession :
        /\ session' = [session EXCEPT ![o] = r]
        /\ r.strays + (IF r.armed THEN 1 ELSE 0) <= Timers(o)
  <2>1. session[o] \in PtySession
    BY DEF Inv, AgentInv, AgentTypes
  <2>2. CASE o = w
    <3>1. Timers(o) \in Nat
      BY TimersTypes DEF Inv, AgentInv
    <3>2. PICK r \in PtySession : r = NewSession(w) /\ r.strays = 0 /\ r.armed = FALSE
      BY NewSessionTypes
    <3>3. session' = [session EXCEPT ![o] = NewSession(w)]
      BY <1>3, <2>2, Zenon
    <3>4. r.strays + (IF r.armed THEN 1 ELSE 0) <= Timers(o)
      BY <3>1, <3>2
    <3> QED BY <3>2, <3>3, <3>4
  <2>3. CASE o # w
    <3> DEFINE r == [session[o] EXCEPT !.armed = FALSE, !.detached = FALSE, !.liveWs = w]
    <3>1. r \in PtySession /\ r.strays = session[o].strays /\ r.armed = FALSE
      BY <2>1 DEF PtySession
    <3>2. session' = [session EXCEPT ![o] = r]
      BY <1>3, <2>3
    <3>3. r.strays + (IF r.armed THEN 1 ELSE 0) <= Timers(o)
      BY <2>1, <3>1, StrayTypes DEF Timers
    <3> HIDE DEF r
    <3> QED BY <3>1, <3>2, <3>3
  <2> QED BY <2>2, <2>3
<1>8. SessionChanges(o, r)
  BY <1>2, <1>3, <1>4, <1>7 DEF SessionChanges, Inv, AgentInv, AgentTypes
<1>9. CallsStayOpen
  BY <1>1, <1>4 DEF CallsStayOpen
<1>10. Ended' = Ended
  BY <1>1, <1>4 DEF Ended
<1>11. /\ Cardinality(Ended) <= Cardinality(Ended')
       /\ r.strays + (IF r.armed THEN 1 ELSE 0) <= Cardinality(Ended')
  BY <1>7, <1>10, EndedIsBounded, TimersTypes DEF Inv, AgentInv, TimersAreCounted, PtySession
<1>12. Held(o)'
  BY <1>4 DEF Held
<1>13. ASSUME NEW s \in Calls, byId'[s] = o
       PROVE  s = Sid(w)
  <2>1. CASE s # Sid(w)
    <3>1. byId[s] = o
      BY <1>2, <1>3, <1>13, <2>1 DEF Inv, AgentInv, AgentTypes
    <3>2. Sid(o) = s /\ stage[o] = "open"
      BY <3>1 DEF Inv, AgentInv, ProcessIsHeld, SessionsWereOpened
    <3>3. o # w
      BY <1>1, <3>2
    <3>4. Sid(o) = Sid(w)
      BY <1>2, <1>3, <3>3 DEF Inv, AgentInv, ProcessIsHeld
    <3> QED BY <3>2, <3>4
  <2> QED BY <2>1
<1>14. AgentInv'
  BY <1>6, <1>8, <1>9, <1>11, <1>12, <1>13, SessionStep
<1> QED BY <1>1, <1>5, <1>14 DEF Inv

-----------------------------------------------------------------------------
(* The theorems.                                                           *)

LEMMA InitEstablishesInv ==
  ASSUME Init
  PROVE  Inv
<1>1. PanelTypes
  BY DEF Init, PanelTypes
<1>2. ServerTypes
  BY DEF Init, ServerTypes
<1>3. CallTypes
  BY DEF Init, CallTypes
<1>4. ConnectionsAreBound /\ AgentHears /\ ReattachNamesSession
  BY DEF Init, ConnectionsAreBound, AgentHears, ReattachNamesSession
<1>5. NewSession(None) \in PtySession /\ NewSession(None).pty = "none"
      /\ NewSession(None).strays = 0 /\ NewSession(None).armed = FALSE
  BY NewSessionTypes
<1>6. AgentTypes /\ SessionsWereOpened /\ ProcessIsHeld
  BY <1>5 DEF Init, AgentTypes, SessionsWereOpened, ProcessIsHeld
<1>7. TimersAreCounted
  BY <1>5, EndedIsBounded DEF Init, TimersAreCounted, Timers
<1> QED BY <1>1, <1>2, <1>3, <1>4, <1>6, <1>7 DEF Inv, CallInv, AgentInv

LEMMA NextKeepsInv ==
  ASSUME Inv, [Next]_vars
  PROVE  Inv'
<1>1. CASE UNCHANGED vars
  <2>1. PanelTypes' /\ ServerTypes' /\ UNCHANGED agent /\ UNCHANGED calls
    BY <1>1 DEF vars, agent, calls, Inv, PanelTypes, ServerTypes
  <2>2. CallInv' /\ CallsKeepSessions
    BY <2>1, NothingEnds, ConnectionsEnd DEF calls, agent
  <2> QED BY <2>1, <2>2, AgentRests DEF Inv
<1>2. ASSUME NEW w \in Calls, AgentStep(w)
      PROVE  Inv'
  BY <1>2, OpenKeepsInv, InputKeepsInv, ExitKeepsInv, KillTimeoutKeepsInv,
     AgentClosesKeepsInv, DetachTimeoutKeepsInv DEF AgentStep
<1>3. ASSUME NEW w \in Calls, ServerStep(w)
      PROVE  Inv'
  BY <1>3, ServerStepKeepsInv, KillKeepsInv DEF ServerStep
<1>4. ASSUME NEW w \in Calls, PanelStep(w)
      PROVE  Inv'
  BY <1>4, PanelStepKeepsInv, PanelClosesKeepsInv DEF PanelStep
<1>5. CASE StopPolling
  <2>1. PanelTypes' /\ ServerTypes' /\ UNCHANGED agent /\ UNCHANGED calls
    BY <1>5 DEF StopPolling, agent, calls, Inv, PanelTypes, ServerTypes
  <2>2. CallInv' /\ CallsKeepSessions
    BY <2>1, NothingEnds, ConnectionsEnd DEF calls, agent
  <2> QED BY <2>1, <2>2, AgentRests DEF Inv
<1> QED BY <1>1, <1>2, <1>3, <1>4, <1>5, BreakKeepsInv, CallStepKeepsInv, HideKeepsInv,
           DisposeKeepsInv DEF Next

LEMMA InvAlways == Spec => []Inv
<1>1. Init => Inv
  BY InitEstablishesInv
<1>2. Inv /\ [Next]_vars => Inv'
  BY NextKeepsInv
<1> QED BY <1>1, <1>2, PTL DEF Spec

\* Every variable keeps its type, as many detach timers as there are calls at most
\* wait for one session, and the agent has a session for every connection that it
\* opened and did not hear the end of.
THEOREM TerminalTypes == Spec => []TypeOK
<1>1. Inv => TypeOK
  <2> SUFFICES ASSUME Inv
               PROVE  TypeOK
    OBVIOUS
  <2>1. ASSUME NEW o \in Calls
        PROVE  session[o] \in SessionRecord
    <3>1. session[o] \in PtySession /\ Timers(o) <= Cardinality(Ended)
      BY DEF Inv, AgentInv, AgentTypes, TimersAreCounted
    <3>2. session[o].strays \in 0 .. MaxCalls
      BY <3>1, EndedIsBounded DEF Timers, PtySession
    <3> QED BY <3>1, <3>2 DEF PtySession, SessionRecord
  <2>2. session \in [Calls -> SessionRecord]
    BY <2>1 DEF Inv, AgentInv, AgentTypes
  <2> QED BY <2>2 DEF Inv, PanelTypes, ServerTypes, CallInv, CallTypes, AgentInv, AgentTypes,
                      ConnectionsAreBound, TypeOK
<1> QED BY <1>1, InvAlways, PTL

\* Whatever order connections open and end in, across re-attaches, restarts, disposals
\* and timers that were set for an earlier end: every process that runs
\* and every session that is kept under an id has a connection or a timer that is
\* going to dispose of it (terminal-agent.ts: open, close, disposeSession).
THEOREM ProcessStaysHeld == Spec => []ProcessIsHeld
<1>1. Inv => ProcessIsHeld
  BY DEF Inv, AgentInv
<1> QED BY <1>1, InvAlways, PTL
=============================================================================
