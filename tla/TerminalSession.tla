-------------------------- MODULE TerminalSession --------------------------
(***************************************************************************)
(* The terminal of the side panel.  The panel asks the browse server for a *)
(* session, the server leases it and grants the terminal agent a token, and*)
(* the panel attaches with a WebSocket.  A connection that breaks leaves   *)
(* the session, with its process, detached for a while: the panel asks for *)
(* another token and attaches again.  Restart and leaving the panel dispose*)
(* of the session.                                                         *)
(*                                                                         *)
(* A call of the panel gets at most one token and opens at most one        *)
(* WebSocket with it, and a session is made by one WebSocket: the number of*)
(* the call stands for all of them.  claude is found by the agent, the auth*)
(* token stays valid, and the agent does not crash.                        *)
(***************************************************************************)
EXTENDS Naturals, FiniteSets

CONSTANTS
  MaxCalls,      \* bound on the calls of the panel
  MaxRestarts,   \* bound on the clicks on Restart
  MaxFaults,     \* bound on connections that break, processes that exit, and
                 \* requests to connect or restart that fail
  None           \* no call, no session, no end of a connection

ASSUME CallsAreBounded ==
  /\ MaxCalls \in Nat /\ MaxRestarts \in Nat /\ MaxFaults \in Nat
  /\ None \notin 1 .. MaxCalls /\ None \notin {"restart", "exited", "lost"}

VARIABLES
  \* The panel (sidepanel-terminal.js).
  view,          \* state
  current,       \* currentSessionId
  socket,        \* ws
  inFlight,      \* reattachInFlight
  polling,       \* the loop of tryAutoConnect is running
  page,          \* "shown", or how far the farewell of a hidden page got
  \* Its calls and their connections.
  kind,          \* kind[w]: connect, reattach or restart
  about,         \* about[w]: the session that a re-attach or restart names
  stage,         \* stage[w]: how far call w got
  cut,           \* cut[w]: None or why the connection ends
  deaf,          \* deaf[w]: the ends that do not know yet that it ended
  \* The server (pty-session-lease.ts).
  leases,        \* the sessions that have a lease
  faults,        \* how much broke, exited or failed
  \* The agent (terminal-agent.ts).
  attached,      \* attached[w]: the session that connection w is bound to
  byId,          \* byId[s]: the session under id s
  session        \* session[o]: the PtySession that connection o made

panel == <<view, current, socket, inFlight, polling, page>>
calls == <<kind, about, stage, cut, deaf>>
agent == <<attached, byId, session>>
vars == <<view, current, socket, inFlight, polling, page, kind, about, stage, cut,
          deaf, leases, faults, attached, byId, session>>

Calls == 1 .. MaxCalls

\* The session id that the token of call w is bound to.
Sid(w) == IF kind[w] = "reattach" THEN about[w] ELSE w

Shown == page = "shown"
Connected(w) == stage[w] \in {"opening", "open"} /\ cut[w] = None

Fault == faults < MaxFaults /\ faults' = faults + 1

\* The calls are numbered in their order.
IsNext(w) == stage[w] = "unused" /\ \A v \in Calls : v < w => stage[v] # "unused"

Ask(w, what, s) ==
  /\ IsNext(w)
  /\ kind' = [kind EXCEPT ![w] = what]
  /\ about' = [about EXCEPT ![w] = s]
  /\ stage' = [stage EXCEPT ![w] = "asked"]

At(w, place) == stage' = [stage EXCEPT ![w] = place]

\* Connection w ends for a reason; both ends that have it hear of it.
CutAll(ws, why) ==
  /\ cut' = [w \in Calls |-> IF w \in ws THEN why ELSE cut[w]]
  /\ deaf' = [w \in Calls |->
       IF w \in ws THEN {"panel"} \cup {e \in {"agent"} : stage[w] = "open"}
       ELSE deaf[w]]

-----------------------------------------------------------------------------
(* The agent's sessions.                                                   *)

NewSession(w) ==
  [pty |-> "none", liveWs |-> w, detached |-> FALSE, armed |-> FALSE, strays |-> 0,
   dying |-> 0, kills |-> 0]

\* disposeSession: a process that runs is told to end with SIGINT, and a timer is set
\* for its SIGKILL; then the session has no process any more.
Disposed(r) ==
  [r EXCEPT !.pty = "none",
            !.dying = r.dying + (IF r.pty = "running" THEN 1 ELSE 0),
            !.kills = r.kills + (IF r.pty = "none" THEN 0 ELSE 1)]

\* /internal/restart: the session that has the id now.
Restarted(s) ==
  IF s # None /\ byId[s] # None
    THEN /\ session' = [session EXCEPT ![byId[s]] = [Disposed(@) EXCEPT !.armed = FALSE]]
         /\ byId' = [byId EXCEPT ![s] = None]
    ELSE UNCHANGED <<session, byId>>

\* Mutant: messages of a connection that re-attaches find no session.
OpenUnbound(w) ==
  /\ stage[w] = "opening" /\ cut[w] = None
  /\ LET o == IF byId[Sid(w)] = None THEN w ELSE byId[Sid(w)] IN
       /\ session' = [session EXCEPT ![o] =
            IF o = w THEN NewSession(w)
            ELSE [@ EXCEPT !.armed = FALSE, !.detached = FALSE, !.liveWs = w]]
       /\ byId' = [byId EXCEPT ![Sid(w)] = o]
       /\ attached' = [attached EXCEPT ![w] = IF o = w THEN o ELSE @]
  /\ At(w, "open")
  /\ UNCHANGED <<panel, kind, about, cut, deaf, leases, faults>>

\* A WebSocket is upgraded: its session id has a session or gets one.
Open(w) ==
  /\ stage[w] = "opening" /\ cut[w] = None
  /\ LET o == IF byId[Sid(w)] = None THEN w ELSE byId[Sid(w)] IN
       /\ session' = [session EXCEPT ![o] =
            IF o = w THEN NewSession(w)
            ELSE [@ EXCEPT !.armed = FALSE, !.detached = FALSE, !.liveWs = w]]
       /\ byId' = [byId EXCEPT ![Sid(w)] = o]
       /\ attached' = [attached EXCEPT ![w] = o]
  /\ At(w, "open")
  /\ UNCHANGED <<panel, kind, about, cut, deaf, leases, faults>>

\* maybeSpawnPty, on `start` or a key; frames arrive until the agent hears the end.
Input(w) ==
  /\ attached[w] # None
  /\ session[attached[w]].pty = "none"
  /\ session' = [session EXCEPT ![attached[w]].pty = "running"]
  /\ UNCHANGED <<panel, calls, leases, faults, attached, byId>>

\* proc.exited: the process that runs, or one that was told to end, exits, and the
\* connection that is live then is closed with 1000.  Nothing makes a process end
\* that ignores what it was told, and of an end behind no connection nobody hears.
Exit(o) ==
  /\ \/ /\ session[o].pty = "running" /\ Fault
        /\ session' = [session EXCEPT ![o].pty = "exited"]
     \/ /\ session[o].dying > 0 /\ UNCHANGED faults
        /\ \E w \in Calls : w = session[o].liveWs /\ Connected(w)
        /\ session' = [session EXCEPT ![o].dying = session[o].dying - 1]
  /\ CutAll({w \in Calls : w = session[o].liveWs /\ Connected(w)}, "exited")
  /\ UNCHANGED <<panel, kind, about, stage, leases, attached, byId>>

\* The SIGKILL timer of disposeSession fires and looks for the process in the session:
\* it finds none, or the one that was started since, which exits.
KillTimeout(o) ==
  /\ session[o].kills > 0
  /\ session' = [session EXCEPT ![o].kills = session[o].kills - 1,
                               ![o].pty = IF @ = "running" THEN "exited" ELSE @]
  /\ CutAll({w \in Calls : session[o].pty = "running" /\ w = session[o].liveWs /\ Connected(w)},
            "exited")
  /\ UNCHANGED <<panel, kind, about, stage, leases, faults, attached, byId>>

\* Mutant: a session that is left is not disposed of later.
AgentClosesUntimed(w) ==
  /\ "agent" \in deaf[w]
  /\ deaf' = [deaf EXCEPT ![w] = @ \ {"agent"}]
  /\ attached' = [attached EXCEPT ![w] = None]
  /\ LET o == attached[w] IN
     IF cut[w] \in {"restart", "exited"}
       THEN /\ session' = [session EXCEPT ![o] = Disposed(@)]
            /\ byId' = [byId EXCEPT ![Sid(o)] = None]
       ELSE /\ session' = [session EXCEPT ![o] =
                 [@ EXCEPT !.detached = TRUE, !.liveWs = None]]
            /\ UNCHANGED byId
  /\ UNCHANGED <<panel, kind, about, stage, cut, leases, faults>>

\* close: 1000 and 4001 dispose of the session, everything else detaches it.
AgentCloses(w) ==
  /\ "agent" \in deaf[w]
  /\ deaf' = [deaf EXCEPT ![w] = @ \ {"agent"}]
  /\ attached' = [attached EXCEPT ![w] = None]
  /\ LET o == attached[w] IN
     IF cut[w] \in {"restart", "exited"}
       THEN /\ session' = [session EXCEPT ![o] = Disposed(@)]
            /\ byId' = [byId EXCEPT ![Sid(o)] = None]
       ELSE /\ session' = [session EXCEPT ![o] =
                 [@ EXCEPT !.detached = TRUE, !.liveWs = None, !.armed = TRUE,
                           !.strays = session[o].strays + (IF session[o].armed THEN 1 ELSE 0)]]
            /\ UNCHANGED byId
  /\ UNCHANGED <<panel, kind, about, stage, cut, leases, faults>>

\* What a detach timer leaves of the session that it is set for.
Lapsed(r) == IF r.detached THEN Disposed(r) ELSE r

\* Mutant: the session is forgotten with its process running.
ForgetDetached(o) ==
  /\ session[o].armed
  /\ session' = [session EXCEPT ![o].armed = FALSE]
  /\ byId' = [byId EXCEPT ![Sid(o)] = IF session[o].detached THEN None ELSE @]
  /\ UNCHANGED <<panel, calls, leases, faults, attached>>

\* A detach timer fires, the last one set or one that was set before.
DetachTimeout(o) ==
  /\ \/ session[o].armed
        /\ session' = [session EXCEPT ![o] = Lapsed([@ EXCEPT !.armed = FALSE])]
     \/ session[o].strays > 0
        /\ session' = [session EXCEPT ![o] = Lapsed([@ EXCEPT !.strays = session[o].strays - 1])]
  /\ byId' = [byId EXCEPT ![Sid(o)] = IF session[o].detached THEN None ELSE @]
  /\ UNCHANGED <<panel, calls, leases, faults, attached>>

-----------------------------------------------------------------------------
(* The server's routes.                                                    *)

\* /pty-session, and /pty-restart behind the disposal: mint and grant.
Mint(w) ==
  /\ stage[w] = "killed" \/ (stage[w] = "asked" /\ about[w] = None)
  /\ \/ /\ At(w, "answered") /\ UNCHANGED faults
        /\ leases' = (leases \ {about[w]}) \cup {w}
     \/ /\ At(w, "failed") /\ Fault
        /\ leases' = leases \ {about[w]}
  /\ UNCHANGED <<panel, kind, about, cut, deaf, agent>>

\* /pty-restart tries to dispose of the session first.
Kill(w) ==
  /\ stage[w] = "asked" /\ kind[w] = "restart" /\ about[w] # None
  /\ Restarted(about[w]) \/ UNCHANGED <<session, byId>>
  /\ At(w, "killed")
  /\ UNCHANGED <<panel, kind, about, cut, deaf, leases, faults, attached>>

\* /pty-session/reattach validates the lease, which may have expired, and grants
\* another token.
Reattach(w) ==
  /\ stage[w] = "asked" /\ kind[w] = "reattach"
  /\ \/ /\ At(w, "gone")
        /\ leases' = leases \ {about[w]}
     \/ /\ about[w] \in leases /\ UNCHANGED leases
        /\ At(w, "answered") \/ At(w, "failed")
  /\ UNCHANGED <<panel, kind, about, cut, deaf, faults, agent>>

\* /pty-dispose: the session, then its lease.
Dispose ==
  /\ \/ /\ page = "leaving" /\ page' = "disposed"
        /\ Restarted(current) \/ UNCHANGED <<session, byId>>
        /\ UNCHANGED <<current, leases>>
     \/ /\ page = "disposed" /\ page' = "left"
        /\ leases' = leases \ {current} /\ current' = None
        /\ UNCHANGED <<session, byId>>
  /\ UNCHANGED <<view, socket, inFlight, polling, calls, faults, attached>>

-----------------------------------------------------------------------------
(* The panel.                                                              *)

\* The tick of tryAutoConnect: connect, once.
Connect(w) ==
  /\ Shown /\ polling /\ view = "idle"
  /\ Ask(w, "connect", None)
  /\ view' = "connecting" /\ polling' = FALSE
  /\ UNCHANGED <<current, socket, inFlight, page, cut, deaf, leases, faults, agent>>

StopPolling ==
  /\ Shown /\ polling /\ view # "idle"
  /\ polling' = FALSE
  /\ UNCHANGED <<view, current, socket, inFlight, page, calls, leases, faults, agent>>

\* What connect and forceRestart do with the answer of the server.
Answer(w) ==
  /\ Shown /\ kind[w] \in {"connect", "restart"}
  /\ \/ /\ stage[w] = "answered" /\ At(w, "checking")
        /\ current' = w
        /\ UNCHANGED <<view, polling>>
     \/ /\ stage[w] = "failed" /\ At(w, "over")
        /\ view' = "idle"
        /\ current' = IF kind[w] = "restart" THEN None ELSE current
        /\ polling' = (polling \/ kind[w] = "restart")
  /\ UNCHANGED <<socket, inFlight, page, kind, about, cut, deaf, leases, faults, agent>>

\* claude is there: the panel attaches.
Attach(w) ==
  /\ Shown /\ stage[w] = "checking" /\ At(w, "opening")
  /\ view' = "live" /\ socket' = w
  /\ UNCHANGED <<current, inFlight, polling, page, kind, about, cut, deaf, leases, faults, agent>>

\* Mutant: the loop ends without a word when the lease is gone.
ReattachOrStop(w) ==
  /\ Shown /\ kind[w] = "reattach"
  /\ \/ /\ stage[w] = "answered" /\ At(w, "opening")
        /\ inFlight' = FALSE /\ view' = "live" /\ current' = about[w] /\ socket' = w
     \/ /\ stage[w] = "gone" /\ At(w, "over")
        /\ inFlight' = FALSE
        /\ UNCHANGED <<view, current, socket>>
     \/ /\ stage[w] = "failed" /\ At(w, "backoff")
        /\ UNCHANGED <<inFlight, view, current, socket>>
  /\ UNCHANGED <<polling, page, kind, about, cut, deaf, leases, faults, agent>>

\* What the loop of startReattachLoop does with the answer: it attaches
\* (openReattachWebSocket), ends, or waits.
ReattachAnswer(w) ==
  /\ Shown /\ kind[w] = "reattach"
  /\ \/ /\ stage[w] = "answered" /\ At(w, "opening")
        /\ inFlight' = FALSE /\ view' = "live" /\ current' = about[w] /\ socket' = w
     \/ /\ stage[w] = "gone" /\ At(w, "over")
        /\ inFlight' = FALSE /\ view' = "ended"
        /\ UNCHANGED <<current, socket>>
     \/ /\ stage[w] = "failed" /\ At(w, "backoff")
        /\ UNCHANGED <<inFlight, view, current, socket>>
  /\ UNCHANGED <<polling, page, kind, about, cut, deaf, leases, faults, agent>>

\* The next tick of the loop, unless it is no longer wanted ...
Retry(w) ==
  /\ Shown /\ stage[w] = "backoff"
  /\ At(w, IF inFlight THEN "asked" ELSE "over")
  /\ UNCHANGED <<panel, kind, about, cut, deaf, leases, faults, agent>>

\* ... or too late.
GiveUp(w) ==
  /\ Shown /\ stage[w] = "backoff" /\ inFlight /\ At(w, "over")
  /\ inFlight' = FALSE /\ view' = "ended"
  /\ UNCHANGED <<current, socket, polling, page, kind, about, cut, deaf, leases, faults, agent>>

\* The close handlers: a connection that was lost while the terminal was live
\* starts the loop; what ends another one's depends on how it was opened.
PanelCloses(w) ==
  /\ Shown /\ "panel" \in deaf[w]
  /\ cut[w] = "restart" => "agent" \notin deaf[w]
  /\ deaf' = [deaf EXCEPT ![w] = @ \ {"panel"}]
  /\ socket' = None
  /\ IF view = "live" /\ cut[w] = "lost" /\ current # None
       THEN /\ \E v \in Calls : Ask(v, "reattach", current)
            /\ view' = "reconnecting" /\ inFlight' = TRUE
       ELSE /\ view' = IF kind[w] = "reattach" /\ view # "live" THEN view ELSE "ended"
            /\ UNCHANGED <<inFlight, kind, about, stage>>
  /\ UNCHANGED <<current, polling, page, cut, leases, faults, agent>>

\* Restart, at any time: the connection is closed with 4001 before the server is
\* asked to dispose of the session.
ForceRestart(w) ==
  /\ Shown
  /\ Cardinality({r \in Calls : kind[r] = "restart"}) < MaxRestarts
  /\ Ask(w, "restart", current)
  /\ CutAll({s \in {socket} \ {None} : Connected(s)},
            IF socket # None /\ stage[socket] = "open" THEN "restart" ELSE "lost")
  /\ view' = "idle" /\ socket' = None
  /\ UNCHANGED <<current, inFlight, polling, page, leases, faults, agent>>

\* pagehide: what the panel knew and waited for is gone with it.
Hide ==
  /\ Shown
  /\ page' = IF current = None THEN "left" ELSE "leaving"
  /\ view' = "ended" /\ socket' = None /\ inFlight' = FALSE /\ polling' = FALSE
  /\ cut' = [w \in Calls |-> IF Connected(w) THEN "lost" ELSE cut[w]]
  /\ deaf' = [w \in Calls |->
       IF attached[w] # None THEN {"agent"} ELSE {}]
  /\ stage' = [w \in Calls |->
       IF stage[w] \in {"unused", "asked", "killed", "open"} THEN stage[w] ELSE "over"]
  /\ UNCHANGED <<current, kind, about, leases, faults, agent>>

\* A connection fails or breaks.
Break(w) ==
  /\ Connected(w) /\ Fault
  /\ CutAll({w}, "lost")
  /\ UNCHANGED <<panel, kind, about, stage, leases, agent>>

-----------------------------------------------------------------------------
Init ==
  /\ view = "idle" /\ current = None /\ socket = None
  /\ inFlight = FALSE /\ polling = TRUE /\ page = "shown"
  /\ kind = [w \in Calls |-> "none"] /\ about = [w \in Calls |-> None]
  /\ stage = [w \in Calls |-> "unused"] /\ cut = [w \in Calls |-> None]
  /\ deaf = [w \in Calls |-> {}]
  /\ leases = {} /\ faults = 0
  /\ attached = [w \in Calls |-> None] /\ byId = [s \in Calls |-> None]
  /\ session = [o \in Calls |-> NewSession(None)]

AgentStep(w) ==
  Open(w) \/ Input(w) \/ Exit(w) \/ KillTimeout(w) \/ AgentCloses(w) \/ DetachTimeout(w)
ServerStep(w) == Mint(w) \/ Kill(w) \/ Reattach(w)
PanelStep(w) ==
  Answer(w) \/ Attach(w) \/ ReattachAnswer(w) \/ Retry(w) \/ GiveUp(w) \/ PanelCloses(w)

Next ==
  \/ \E w \in Calls :
       \/ AgentStep(w) \/ ServerStep(w) \/ PanelStep(w)
       \/ Break(w)
       \/ Connect(w) \/ ForceRestart(w)
  \/ StopPolling \/ Hide \/ Dispose

Spec == Init /\ [][Next]_vars

\* The agent hears of every end and its timers fire; the server answers; the
\* panel goes on, and the time of a loop runs out however often it is tried again.
\* No process is assumed to end because it is told to.
Fairness ==
  /\ WF_vars(\E w \in Calls : AgentCloses(w) \/ DetachTimeout(w) \/ KillTimeout(w))
  /\ WF_vars(\E w \in Calls : ServerStep(w))
  /\ WF_vars(\E w \in Calls : ReattachAnswer(w))
  /\ SF_vars(\E w \in Calls : GiveUp(w))

FairSpec == Spec /\ Fairness

-----------------------------------------------------------------------------
(* Properties.                                                             *)

SessionRecord ==
  [pty : {"none", "running", "exited"}, liveWs : Calls \cup {None},
   detached : BOOLEAN, armed : BOOLEAN, strays : 0 .. MaxCalls, dying : Nat, kills : Nat]

\* Every variable has its type, and the agent has a session for every connection
\* that it opened and did not hear the end of.
TypeOK ==
  /\ view \in {"idle", "connecting", "live", "reconnecting", "ended"}
  /\ current \in Calls \cup {None} /\ socket \in Calls \cup {None}
  /\ inFlight \in BOOLEAN /\ polling \in BOOLEAN
  /\ page \in {"shown", "leaving", "disposed", "left"}
  /\ kind \in [Calls -> {"none", "connect", "reattach", "restart"}]
  /\ about \in [Calls -> Calls \cup {None}]
  /\ stage \in [Calls -> {"unused", "asked", "killed", "answered", "failed", "gone",
                          "backoff", "checking", "opening", "open", "over"}]
  /\ cut \in [Calls -> {None, "restart", "exited", "lost"}]
  /\ deaf \in [Calls -> SUBSET {"panel", "agent"}]
  /\ leases \subseteq Calls /\ faults \in 0 .. MaxFaults
  /\ attached \in [Calls -> Calls \cup {None}] /\ byId \in [Calls -> Calls \cup {None}]
  /\ session \in [Calls -> SessionRecord]
  /\ \A w \in Calls :
       attached[w] # None <=> stage[w] = "open" /\ (cut[w] = None \/ "agent" \in deaf[w])

\* Someone will dispose of session o: a connection that is bound to it, when it
\* ends, or a timer.
Held(o) ==
  \/ \E w \in Calls : attached[w] = o
  \/ session[o].detached /\ (session[o].armed \/ session[o].strays > 0)

\* Whatever order connections open and end in, across re-attaches, restarts and
\* timers: no process runs, and no session is kept under an id, that nobody is
\* going to dispose of, and a session is kept under its own id.
ProcessIsHeld ==
  \A o \in Calls :
    /\ session[o].pty = "running" => Held(o)
    /\ byId[o] # None => Sid(byId[o]) = o /\ Held(byId[o])

\* Once the panel is left every process of it has exited or was told to end, for good,
\* even when the farewell of the page never arrives.  That it then ends is up to the
\* process: the SIGKILL that should follow does not reach it (KillTimeout).
LeavingSignalsProcesses ==
  ~Shown ~> [](\A o \in Calls : session[o].pty # "running")

\* Reconnecting ends in a terminal, or in its end that the user is shown.
ReconnectingEnds == view = "reconnecting" ~> view # "reconnecting"

-----------------------------------------------------------------------------
(* What a comment says, where the code disagrees.                          *)

\* "Aborts on: reattachInFlight transitions to false (user clicked Restart ...)":
\* a loop that runs when Restart is clicked does not attach to the session that the
\* server is asked to dispose of.
RestartAbortsReattach ==
  [][\A w, r \in Calls :
       /\ kind[w] = "reattach" /\ stage[w] = "answered" /\ stage'[w] = "opening"
       /\ w < r /\ kind[r] = "restart"
       => about[r] # about[w]]_vars
=============================================================================
