---------------------------- MODULE ClientSession ----------------------------
(***************************************************************************)
(* The session table of a client process (sdk/transmission/session): the   *)
(* session servers, the sessions under them and the bitmap of session ids, *)
(* guarded by one recursive lock, used by application threads, by the IPC  *)
(* thread that delivers the callbacks of the service, by the session timer *)
(* and by the offline callback.  Application callbacks and IPC calls run   *)
(* outside the lock, with a session id that may be freed and given out     *)
(* again meanwhile.                                                        *)
(*                                                                         *)
(* A channel is numbered when the service accepts an open request or a     *)
(* peer connects; chans is what the service knows about it.  Session       *)
(* names, peers and data are reduced to small sets; the getters of session *)
(* attributes change nothing and are left out.                             *)
(***************************************************************************)
EXTENDS Integers, FiniteSets

CONSTANTS ServerName, PeerDev, Thread, SessNil,
          MaxSessionId,      \* MAX_SESSION_ID
          MaxServers,        \* MAX_SESSION_SERVER_NUMBER
          MaxChannels        \* bound: channels the service ever opens

VARIABLES servers,    \* the names in g_clientSessionServerList
          cnt,        \* its cnt
          sessions,   \* the sessions of all servers
          idBits,     \* g_idFlagBitmap
          chans,      \* the channels of the service
          app,        \* what each application thread is doing
          ipc         \* what the IPC thread is doing

csVars == <<servers, cnt, sessions, idBits, chans, app, ipc>>

Channel == 1 .. MaxChannels
NoChannel == 0

\* fresh: the session that the thread's id stood for is still the listed one.
Idle == [pc |-> "idle", id |-> 0, ch |-> NoChannel, name |-> SessNil, fresh |-> TRUE]

\* early: a callback about the channel found no session.
NoChan == [state |-> "none", name |-> SessNil, peer |-> SessNil, early |-> FALSE]
Gone(early) == [NoChan EXCEPT !.state = "gone", !.early = early]

ClientSessionInit ==
    /\ servers = {} /\ cnt = 0 /\ sessions = {} /\ idBits = {}
    /\ chans = [c \in Channel |-> NoChan]
    /\ app = [t \in Thread |-> Idle] /\ ipc = Idle

-----------------------------------------------------------------------------
(* The table, under its lock. *)

ById(id) == {s \in sessions : s.id = id}
ByChannel(c) == {s \in sessions : s.ch = c}

\* Threads that hold one of these ids no longer hold a valid one.
Stale(ids) ==
    app' = [t \in Thread |-> IF app[t].id \in ids THEN [app[t] EXCEPT !.fresh = FALSE] ELSE app[t]]

\* CreateNewSession, CreateNonEncryptSessionInfo or the node of
\* AcceptSessionAsServer.
NewSession(id, kind, name, peer, c) ==
    [id |-> id, kind |-> kind, name |-> name, peer |-> peer, ch |-> c,
     enabled |-> kind = "server", mixed |-> FALSE]

MutantFromZero == (0 .. MaxSessionId) \ idBits

FreeIds == (1 .. MaxSessionId) \ idBits

\* GenerateSessionId: the lowest free bit.
GenerateSessionId == CHOOSE i \in FreeIds : \A j \in FreeIds : i <= j

MutantKeepsId(kind, name, peer, c) ==
    /\ FreeIds # {}
    /\ idBits' = idBits \cup {GenerateSessionId}
    /\ sessions' = sessions \cup {s \in {NewSession(GenerateSessionId, kind, name, peer, c)} : name \in servers}

\* AddSession: the id is released again when there is no such server.  It
\* fails without an effect when the ids have run out.
AddSession(kind, name, peer, c) ==
    IF FreeIds # {} /\ name \in servers
    THEN /\ idBits' = idBits \cup {GenerateSessionId}
         /\ sessions' = sessions \cup {NewSession(GenerateSessionId, kind, name, peer, c)}
    ELSE UNCHANGED <<idBits, sessions>>

\* Each of a set of sessions leaves the list and frees its id.
RemoveSessions(S) ==
    /\ sessions' = sessions \ S
    /\ idBits' = idBits \ {s.id : s \in S}

\* ClientTransCloseChannel: an IPC to the service, which knows the channel or
\* does not; before ClientSetChannelBySessionId there is no channel to name.
ClientTransCloseChannel(cs) ==
    chans' = [c \in Channel |->
                IF c \in cs /\ chans[c].state \in {"opening", "open"}
                THEN Gone(chans[c].early) ELSE chans[c]]

\* OnSessionClosed, ClientTransCloseChannel and removal of every session of S,
\* all under the lock: DestroyClientSessionServer, TransSessionTimer and
\* DestroyClientSessionByDevId.
CloseAll(S) ==
    /\ RemoveSessions(S)
    /\ ClientTransCloseChannel({s.ch : s \in S})
    /\ Stale({s.id : s \in S})

-----------------------------------------------------------------------------
(* Session servers. *)

\* CreateSessionServer: the local entry, then the registration in the service.
CreateSessionServer(t, n) ==
    /\ app[t].pc = "idle" /\ n \notin servers /\ cnt < MaxServers
    /\ servers' = servers \cup {n} /\ cnt' = cnt + 1
    /\ app' = [app EXCEPT ![t] = [Idle EXCEPT !.pc = "register", !.name = n]]
    /\ UNCHANGED <<sessions, idBits, chans, ipc>>

\* ClientDeleteSessionServer.
ClientDeleteSessionServer(n) ==
    /\ servers' = servers \ {n}
    /\ cnt' = IF n \in servers THEN cnt - 1 ELSE cnt
    /\ RemoveSessions({s \in sessions : s.name = n})
    /\ ClientTransCloseChannel({s.ch : s \in {x \in sessions : x.name = n}})

ServerIpcCreateSessionServer(t, ok) ==
    LET n == app[t].name
        ids == {s.id : s \in {x \in sessions : x.name = n}}
    IN  /\ app[t].pc = "register"
        /\ IF ok THEN /\ app' = [app EXCEPT ![t] = Idle]
                      /\ UNCHANGED <<servers, cnt, sessions, idBits, chans, ipc>>
           ELSE /\ ClientDeleteSessionServer(n)
                /\ app' = [u \in Thread |-> IF u = t THEN Idle
                              ELSE IF app[u].id \in ids THEN [app[u] EXCEPT !.fresh = FALSE]
                              ELSE app[u]]
                /\ UNCHANGED ipc

\* RemoveSessionServer, once the service has dropped the name.
RemoveSessionServer(n) ==
    /\ n \in servers
    /\ ClientDeleteSessionServer(n)
    /\ Stale({s.id : s \in {x \in sessions : x.name = n}})
    /\ UNCHANGED ipc

-----------------------------------------------------------------------------
(* Opening. *)

MutantOnlyEnabled(n, p) ==
    {s \in sessions : s.kind = "client" /\ s.name = n /\ s.peer = p /\ s.enabled}

\* GetExistSession: a session this side opened, enabled or not.
GetExistSession(n, p) ==
    {s \in sessions : s.kind = "client" /\ s.name = n /\ s.peer = p}

ClientAddSession(n, p) == AddSession("client", n, p, NoChannel)

\* Never shared, and without a peer device until it is enabled.
ClientAddAuthSession(n) == AddSession("auth", n, SessNil, NoChannel)

\* OpenSession and OpenSessionSync up to the unlock of ClientAddSession.  The
\* polling of CheckSessionIsOpened, bounded and without an effect, is left out:
\* the flag of this first look is the one that is used.
OpenSession(t, n, p) ==
    LET old == GetExistSession(n, p)
    IN  /\ app[t].pc = "idle"
        /\ IF old # {}
           THEN /\ \E s \in old :
                      /\ s.enabled
                      /\ app' = [app EXCEPT ![t] = [Idle EXCEPT !.id = s.id, !.pc = "repeat"]]
                /\ UNCHANGED <<sessions, idBits>>
           ELSE /\ ClientAddSession(n, p)
                /\ n \in servers /\ FreeIds # {}
                /\ app' = [app EXCEPT ![t] = [Idle EXCEPT !.pc = "ipc", !.id = GenerateSessionId,
                                                          !.name = n]]
        /\ UNCHANGED <<servers, cnt, chans, ipc>>

OpenAuthSession(t, n) ==
    /\ app[t].pc = "idle" /\ n \in servers /\ FreeIds # {}
    /\ ClientAddAuthSession(n)
    /\ app' = [app EXCEPT ![t] = [Idle EXCEPT !.pc = "ipc", !.id = GenerateSessionId, !.name = n]]
    /\ UNCHANGED <<servers, cnt, chans, ipc>>

\* ServerIpcOpenSession and ServerIpcOpenAuthSession: the service numbers a
\* channel and answers, or refuses.  Its callbacks may come first.
ServerIpcOpen(t, c) ==
    /\ app[t].pc = "ipc" /\ chans[c].state = "none"
    /\ \A d \in Channel : d < c => chans[d].state # "none"
    /\ chans' = [chans EXCEPT ![c] = [NoChan EXCEPT !.state = "opening", !.name = app[t].name]]
    /\ app' = [app EXCEPT ![t].pc = "set", ![t].ch = c]
    /\ UNCHANGED <<servers, cnt, sessions, idBits, ipc>>

ServerIpcOpenFails(t) ==
    /\ app[t].pc = "ipc"
    /\ app' = [app EXCEPT ![t].pc = "delete"]
    /\ UNCHANGED <<servers, cnt, sessions, idBits, chans, ipc>>

\* ClientSetChannelBySessionId: whichever session has the id now.
ClientSetChannelBySessionId(t) ==
    LET a == app[t]
    IN  /\ a.pc = "set"
        /\ sessions' = {IF s.id = a.id
                        THEN [s EXCEPT !.ch = a.ch, !.mixed = @ \/ ~a.fresh]
                        ELSE s : s \in sessions}
        /\ app' = [app EXCEPT ![t] = IF ById(a.id) = {} THEN [a EXCEPT !.pc = "delete"]
                                     ELSE Idle]
        /\ UNCHANGED <<servers, cnt, idBits, chans, ipc>>

\* OpenSessionWithExistSession, for a session that was enabled at the first
\* look: the application is told that it is open, and may refuse it, which
\* starts CloseSession.
OpenSessionWithExistSession(t, accept) ==
    LET a == app[t]
    IN  /\ a.pc = "repeat"
        /\ \/ /\ accept \/ ById(a.id) = {}
              /\ app' = [app EXCEPT ![t] = Idle]
           \/ \E s \in ById(a.id) :
                 /\ ~accept
                 /\ app' = [app EXCEPT ![t].pc = "closing", ![t].ch = s.ch]
        /\ UNCHANGED <<servers, cnt, sessions, idBits, chans, ipc>>

-----------------------------------------------------------------------------
(* Closing by the application. *)

\* CloseSession looks the channel up, closes it and deletes the session, in
\* three lock regions.
CloseSession(t, id) ==
    /\ app[t].pc = "idle"
    /\ \E s \in ById(id) :
          app' = [app EXCEPT ![t] = [Idle EXCEPT !.pc = "closing", !.id = id, !.ch = s.ch]]
    /\ UNCHANGED <<servers, cnt, sessions, idBits, chans, ipc>>

CloseChannel(t) ==
    /\ app[t].pc = "closing"
    /\ ClientTransCloseChannel({app[t].ch})
    /\ app' = [app EXCEPT ![t].pc = "delete"]
    /\ UNCHANGED <<servers, cnt, sessions, idBits, ipc>>

\* ClientDeleteSession: whichever session has the id now.
ClientDeleteSession(t) ==
    LET a == app[t]
    IN  /\ a.pc = "delete"
        /\ RemoveSessions(ById(a.id))
        /\ app' = [u \in Thread |-> IF u = t THEN Idle
                      ELSE IF app[u].id = a.id THEN [app[u] EXCEPT !.fresh = FALSE] ELSE app[u]]
        /\ UNCHANGED <<servers, cnt, chans, ipc>>

-----------------------------------------------------------------------------
(* The IPC thread: TransOnChannelOpened, TransOnChannelOpenFailed and       *)
(* TransOnChannelClosed with the session callbacks they end in.             *)

ClientGetSessionCallbackByName(n) == n \in servers

\* TransOnSessionOpened up to ClientGetSessionCallbackByName, for a channel
\* this side opened; without the server nothing is enabled.
TransOnSessionOpened(c) ==
    /\ ipc.pc = "idle" /\ chans[c].state = "opening"
    /\ IF ClientGetSessionCallbackByName(chans[c].name)
       THEN /\ ipc' = [Idle EXCEPT !.pc = "opened", !.ch = c]
            /\ UNCHANGED chans
       ELSE /\ chans' = [chans EXCEPT ![c] = Gone(TRUE)]
            /\ UNCHANGED ipc
    /\ UNCHANGED <<servers, cnt, sessions, idBits, app>>

\* The same for a channel a peer opened to a session server.
PeerConnects(c, n, p) ==
    /\ ipc.pc = "idle" /\ chans[c].state = "none" /\ n \in servers
    /\ \A d \in Channel : d < c => chans[d].state # "none"
    /\ chans' = [chans EXCEPT ![c] = [state |-> "opening", name |-> n, peer |-> p, early |-> FALSE]]
    /\ ipc' = [Idle EXCEPT !.pc = "opened", !.ch = c]
    /\ UNCHANGED <<servers, cnt, sessions, idBits, app>>

MutantAcceptsBoth(c) ==
    /\ AddSession("server", chans[c].name, chans[c].peer, c)
    /\ IF chans[c].name \in servers /\ FreeIds # {}
       THEN ipc' = [ipc EXCEPT !.pc = "tell_open", !.id = GenerateSessionId] /\ UNCHANGED chans
       ELSE ipc' = Idle /\ chans' = [chans EXCEPT ![c] = Gone(FALSE)]

\* AcceptSessionAsServer.
AcceptSessionAsServer(c) ==
    /\ chans[c].peer # SessNil
    /\ AddSession("server", chans[c].name, chans[c].peer, c)
    /\ IF chans[c].name \in servers /\ FreeIds # {}
       THEN ipc' = [ipc EXCEPT !.pc = "tell_open", !.id = GenerateSessionId] /\ UNCHANGED chans
       ELSE ipc' = Idle /\ chans' = [chans EXCEPT ![c] = Gone(FALSE)]

\* ClientEnableSessionByChannelId: only a session whose channel is already set
\* is found.
ClientEnableSessionByChannelId(c) ==
    /\ chans[c].peer = SessNil
    /\ IF ByChannel(c) = {}
       THEN /\ ipc' = Idle
            /\ chans' = [chans EXCEPT ![c] = Gone(TRUE)]
            /\ UNCHANGED sessions
       ELSE /\ \E s \in ByChannel(c) :
                  /\ sessions' = (sessions \ {s}) \cup {[s EXCEPT !.enabled = TRUE,
                                     !.peer = IF s.kind = "auth" THEN CHOOSE p \in PeerDev : TRUE ELSE @]}
                  /\ ipc' = [ipc EXCEPT !.pc = "tell_open", !.id = s.id]
            /\ UNCHANGED chans
    /\ UNCHANGED idBits

EnableOrAccept ==
    /\ ipc.pc = "opened"
    /\ AcceptSessionAsServer(ipc.ch) \/ ClientEnableSessionByChannelId(ipc.ch)
    /\ UNCHANGED <<servers, cnt, app>>

\* The application accepts the session, or refuses it and it is deleted.  The
\* service learns the result.
TellOpened(accept) ==
    LET c == ipc.ch
    IN  /\ ipc.pc = "tell_open"
        /\ ipc' = IF accept THEN Idle ELSE [ipc EXCEPT !.pc = "delete"]
        /\ chans' = [chans EXCEPT ![c] = IF @.state # "opening" THEN @
                                         ELSE IF accept THEN [NoChan EXCEPT !.state = "open"]
                                         ELSE Gone(FALSE)]
        /\ UNCHANGED <<servers, cnt, sessions, idBits, app>>

MutantKeepsSession(c, from) ==
    /\ ipc.pc = "idle" /\ chans[c].state = from
    /\ chans' = [chans EXCEPT ![c] = Gone(ByChannel(c) = {})]
    /\ \/ ByChannel(c) = {} /\ ipc' = ipc
       \/ \E s \in ByChannel(c) : ipc' = ipc
    /\ UNCHANGED <<servers, cnt, sessions, idBits, app>>

\* TransOnSessionOpenFailed and TransOnSessionClosed find the id by the
\* channel.  The service has already forgotten the channel.
GetSessionCallbackByChannelId(c, from) ==
    /\ ipc.pc = "idle" /\ chans[c].state = from
    /\ chans' = [chans EXCEPT ![c] = Gone(ByChannel(c) = {})]
    /\ \/ ByChannel(c) = {} /\ ipc' = ipc
       \/ \E s \in ByChannel(c) : ipc' = [Idle EXCEPT !.pc = "callback", !.id = s.id, !.ch = c]
    /\ UNCHANGED <<servers, cnt, sessions, idBits, app>>

\* ClientGetSessionCallbackById, the application's callback, and on to the
\* deletion.
Callback ==
    /\ ipc.pc = "callback"
    /\ ipc' = IF ById(ipc.id) = {} THEN Idle ELSE [ipc EXCEPT !.pc = "delete"]
    /\ UNCHANGED <<servers, cnt, sessions, idBits, chans, app>>

IpcDeleteSession ==
    /\ ipc.pc = "delete"
    /\ RemoveSessions(ById(ipc.id))
    /\ Stale({ipc.id})
    /\ ipc' = Idle
    /\ UNCHANGED <<servers, cnt, chans>>

-----------------------------------------------------------------------------
\* TransSessionTimer: sessions of TRANS_SESSION_TIMEOUT hours.
TransSessionTimer(S) ==
    /\ S # {}
    /\ CloseAll(S)
    /\ UNCHANGED <<servers, cnt, ipc>>

\* ClientTransLnnOfflineProc: every session with the device.
ClientTransLnnOfflineProc(p) ==
    /\ \E s \in sessions : s.peer = p
    /\ CloseAll({s \in sessions : s.peer = p})
    /\ UNCHANGED <<servers, cnt, ipc>>

AppStep(t) ==
    \/ \E n \in ServerName :
          \/ CreateSessionServer(t, n) \/ OpenAuthSession(t, n)
          \/ \E p \in PeerDev : OpenSession(t, n, p)
    \/ \E b \in BOOLEAN : ServerIpcCreateSessionServer(t, b) \/ OpenSessionWithExistSession(t, b)
    \/ \E c \in Channel : ServerIpcOpen(t, c)
    \/ ServerIpcOpenFails(t) \/ ClientSetChannelBySessionId(t)
    \/ \E i \in 1 .. MaxSessionId : CloseSession(t, i)
    \/ CloseChannel(t) \/ ClientDeleteSession(t)

IpcStep ==
    \/ \E c \in Channel :
          \/ TransOnSessionOpened(c)
          \/ GetSessionCallbackByChannelId(c, "opening")
          \/ GetSessionCallbackByChannelId(c, "open")
          \/ \E n \in ServerName, p \in PeerDev : PeerConnects(c, n, p)
    \/ EnableOrAccept \/ (\E b \in BOOLEAN : TellOpened(b)) \/ Callback \/ IpcDeleteSession

ClientSessionNext ==
    \/ \E t \in Thread : AppStep(t)
    \/ IpcStep
    \/ \E n \in ServerName : RemoveSessionServer(n)
    \/ \E S \in {{s} : s \in sessions} \cup {sessions} : TransSessionTimer(S)
    \/ \E p \in PeerDev : ClientTransLnnOfflineProc(p)

ClientSessionSpec == ClientSessionInit /\ [][ClientSessionNext]_csVars

-----------------------------------------------------------------------------
(* Properties. *)

\* The type of every variable.
SessionTypeOK ==
    /\ servers \subseteq ServerName /\ cnt \in 0 .. MaxServers
    /\ idBits \subseteq 1 .. MaxSessionId
    /\ \A s \in sessions : s.id \in 1 .. MaxSessionId /\ s.ch \in 0 .. MaxChannels
    /\ \A t \in Thread : app[t].id \in 0 .. MaxSessionId

\* The bitmap holds exactly the ids of the listed sessions, no id is given out
\* twice, and every session is under a listed server that cnt counts: no path
\* leaks one of the 16 ids or frees one in use, whichever of the lock regions
\* interleave (client_trans_session_manager.c:73-114, 347-364, 509-547).
TablesConsistent ==
    /\ idBits = {s.id : s \in sessions} /\ Cardinality(sessions) = Cardinality(idBits)
    /\ {s.name : s \in sessions} \subseteq servers
    /\ cnt = Cardinality(servers)

\* A repeated OpenSession shares the session of the first one, also while that
\* one is still being opened (GetExistSession and AddSession under one lock).
OneSessionPerPeer ==
    \A r, s \in sessions :
        r.kind = "client" /\ s.kind = "client" /\ r.name = s.name /\ r.peer = s.peer => r = s

\* No channel of the service has two sessions: data and callbacks about a
\* channel have one addressee.
OneSessionPerChannel ==
    \A r, s \in sessions : r.ch = s.ch /\ r.ch # NoChannel => r = s

\* When no call is in progress, a listed session stands for a channel that the
\* service still has, except where the service's answer came before
\* ClientSetChannelBySessionId (early) or an OpenSession set the channel of a
\* session that had got its id (mixed).
SessionsMatchService ==
    (ipc.pc = "idle" /\ \A t \in Thread : app[t].pc = "idle") =>
        \A s \in sessions :
            \/ s.mixed
            \/ s.ch # NoChannel /\ (chans[s.ch].early \/ chans[s.ch].state \in {"opening", "open"})

=============================================================================
