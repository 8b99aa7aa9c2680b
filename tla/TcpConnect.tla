----------------------------- MODULE TcpConnect ------------------------------
(***************************************************************************)
(* TCP connections of the service (core/connection/tcp/src/                *)
(* softbus_tcp_connect_manager.c) under the connection manager             *)
(* (core/connection/manager/softbus_conn_manager.c), which tells the       *)
(* registered modules of them.                                             *)
(*                                                                         *)
(* A connection id is its descriptor, so it is reused as soon as the socket *)
(* is closed.  A call is one step per lock region; accept, data and close  *)
(* events are handled by the one select thread.  known is what the users of *)
(* connections were told: the registered modules of accepted ones, and the *)
(* requester of one it opened.                                             *)
(***************************************************************************)
EXTENDS Naturals, FiniteSets

CONSTANTS TcpFd,       \* descriptors
          TcpUser,     \* threads that connect and disconnect
          ConnMod,     \* modules that can register
          Ip,          \* addresses of peers
          MaxConnNum,  \* g_tcpMaxConnNum
          TcpNil

VARIABLES conns,      \* g_tcpConnInfoList
          triggers,   \* descriptors of module PROXY in the base listener
          tsock,      \* state of each socket
          listeners,  \* g_listenerList of the connection manager
          known,      \* per module and for the requesters: connections told of
          silent,     \* connections that went without a word
          tuser, tsel

tcVars == <<conns, triggers, tsock, listeners, known, silent, tuser, tsel>>

Told == ConnMod \cup {"requester"}
IdleUser == [pc |-> "idle", fd |-> TcpNil, ip |-> TcpNil]
IdleSel == [pc |-> "idle", fd |-> TcpNil, ip |-> TcpNil, ev |-> TcpNil, todo |-> {}]
Listed == {f \in TcpFd : conns[f] # TcpNil}

TcpConnInit ==
    /\ conns = [f \in TcpFd |-> TcpNil] /\ triggers = {}
    /\ tsock = [f \in TcpFd |-> "free"]
    /\ listeners = {} /\ known = [m \in Told |-> {}] /\ silent = {}
    /\ tuser = [u \in TcpUser |-> IdleUser] /\ tsel = IdleSel

-----------------------------------------------------------------------------
(* The list. *)

MutantAddsMore == TRUE

\* The limit of AddTcpConnInfo.
BelowLimit == Cardinality(Listed) < MaxConnNum

\* AddTcpConnInfo; lost records that the trigger was already deleted.
AddTcpConnInfo(f, ip, server) ==
    conns' = [conns EXCEPT ![f] = [ip |-> ip, server |-> server, lost |-> f \notin triggers]]

MutantKeepsSocket(fds) == tsock

\* TcpShutDown of the sockets of deleted nodes.
ShutDown(fds) == [f \in TcpFd |-> IF f \in fds THEN "free" ELSE tsock[f]]

\* DelTcpConnInfo succeeds whether or not there is such a node.
DelTcpConnInfo(f) ==
    /\ conns' = [conns EXCEPT ![f] = TcpNil]
    /\ tsock' = ShutDown({f} \cap Listed)

-----------------------------------------------------------------------------
(* ConnSetConnectCallback and ConnUnSetConnectCallback. *)

AddListener(m) ==
    /\ m \notin listeners
    /\ listeners' = listeners \cup {m} /\ known' = [known EXCEPT ![m] = {}]
    /\ UNCHANGED <<conns, triggers, tsock, silent, tuser, tsel>>

DelListener(m) ==
    /\ m \in listeners /\ listeners' = listeners \ {m}
    /\ known' = [known EXCEPT ![m] = {}]
    /\ UNCHANGED <<conns, triggers, tsock, silent, tuser, tsel>>

-----------------------------------------------------------------------------
(* Users. *)

\* TcpConnectDevice: the socket, connected, and the trigger.
TcpConnectDevice(u, f, ip) ==
    /\ tuser[u].pc = "idle" /\ tsock[f] = "free"
    /\ tsock' = [tsock EXCEPT ![f] = "up"] /\ triggers' = triggers \cup {f}
    /\ tuser' = [tuser EXCEPT ![u] = [pc |-> "add", fd |-> f, ip |-> ip]]
    /\ UNCHANGED <<conns, listeners, known, silent, tsel>>

\* AddTcpConnInfo, or, at the limit, everything undone and OnConnectFailed.
ConnectAdd(u) ==
    LET f == tuser[u].fd
    IN  /\ tuser[u].pc = "add"
        /\ IF BelowLimit
           THEN /\ AddTcpConnInfo(f, tuser[u].ip, FALSE) /\ silent' = silent \ {f}
                /\ tuser' = [tuser EXCEPT ![u].pc = "success"] /\ UNCHANGED <<triggers, tsock>>
           ELSE /\ triggers' = triggers \ {f} /\ tsock' = [tsock EXCEPT ![f] = "free"]
                /\ tuser' = [tuser EXCEPT ![u] = IdleUser] /\ UNCHANGED <<conns, silent>>
        /\ UNCHANGED <<listeners, known, tsel>>

\* OnConnectSuccessed, after the list was unlocked: the connection may be gone.
OnConnectSuccessed(u) ==
    LET f == tuser[u].fd
    IN  /\ tuser[u].pc = "success" /\ tuser' = [tuser EXCEPT ![u] = IdleUser]
        /\ known' = [known EXCEPT !["requester"] = @ \cup {f}] /\ silent' = silent \cup ({f} \ Listed)
        /\ UNCHANGED <<conns, triggers, tsock, listeners, tsel>>

\* TcpDisconnectDevice: TcpGetConnectionInfo.
TcpDisconnectDevice(u, f) ==
    /\ tuser[u].pc = "idle" /\ conns[f] # TcpNil
    /\ tuser' = [tuser EXCEPT ![u] = [IdleUser EXCEPT !.pc = "untrigger", !.fd = f]]
    /\ UNCHANGED <<conns, triggers, tsock, listeners, known, silent, tsel>>

DisconnectDelTrigger(u) ==
    /\ tuser[u].pc = "untrigger"
    /\ triggers' = triggers \ {tuser[u].fd}
    /\ tuser' = [tuser EXCEPT ![u].pc = "del"]
    /\ UNCHANGED <<conns, tsock, listeners, known, silent, tsel>>

\* Nobody but the caller knows: the others' connection is silently gone.
DisconnectDel(u) ==
    LET f == tuser[u].fd
    IN  /\ tuser[u].pc = "del"
        /\ DelTcpConnInfo(f)
        /\ silent' = silent \cup ({f} \cap Listed)
        /\ tuser' = [tuser EXCEPT ![u] = IdleUser]
        /\ UNCHANGED <<triggers, listeners, known, tsel>>

\* TcpDisconnectDeviceNow: every connection to the address, in one region; and
\* DelAllConnInfo of TcpStopListening, for all of them.
DelConns(fds) ==
    /\ fds # {}
    /\ triggers' = triggers \ fds
    /\ conns' = [f \in TcpFd |-> IF f \in fds THEN TcpNil ELSE conns[f]]
    /\ tsock' = ShutDown(fds) /\ silent' = silent \cup fds
    /\ UNCHANGED <<listeners, known, tuser, tsel>>

TcpDisconnectDeviceNow(ip) == DelConns({f \in Listed : conns[f].ip = ip})

DelAllConnInfo == DelConns(Listed)

-----------------------------------------------------------------------------
(* Peers. *)

\* The peer closes, or it sends a header whose data never comes.
PeerEvent(f, what) ==
    /\ tsock[f] = "up" /\ tsock' = [tsock EXCEPT ![f] = what]
    /\ UNCHANGED <<conns, triggers, listeners, known, silent, tuser, tsel>>

-----------------------------------------------------------------------------
(* The select thread. *)

\* TcpOnConnectEvent: the trigger, then the node, or, at the limit, neither.
TcpOnConnectEvent(f, ip) ==
    /\ tsel.pc = "idle" /\ tsock[f] = "free"
    /\ tsock' = [tsock EXCEPT ![f] = "up"] /\ triggers' = triggers \cup {f}
    /\ tsel' = [IdleSel EXCEPT !.pc = "accept", !.fd = f, !.ip = ip]
    /\ UNCHANGED <<conns, listeners, known, silent, tuser>>

AcceptAdd ==
    LET f == tsel.fd
    IN  /\ tsel.pc = "accept"
        /\ IF BelowLimit
           THEN /\ AddTcpConnInfo(f, tsel.ip, TRUE) /\ silent' = silent \ {f}
                /\ tsel' = [IdleSel EXCEPT !.pc = "copy", !.fd = f, !.ev = "up"] /\ UNCHANGED <<triggers, tsock>>
           ELSE /\ triggers' = triggers \ {f} /\ tsock' = [tsock EXCEPT ![f] = "free"]
                /\ tsel' = IdleSel /\ UNCHANGED <<conns, silent>>
        /\ UNCHANGED <<listeners, known, tuser>>

MutantTellsNobody(ev) == {}

\* Who is told: the modules, and of an end the requester too.
ToldOf(ev) == IF ev = "up" THEN listeners ELSE listeners \cup {"requester"}

\* ConnManagerConnected and ConnManagerDisconnected: GetAllListener.
GetAllListener ==
    /\ tsel.pc = "copy" /\ tsel' = [tsel EXCEPT !.pc = "tell", !.todo = ToldOf(tsel.ev)]
    /\ UNCHANGED <<conns, triggers, tsock, listeners, known, silent, tuser>>

\* The next module copied; a new connection may be gone by now.
TellModule(m) ==
    /\ tsel.pc = "tell" /\ m \in tsel.todo
    /\ known' = [known EXCEPT ![m] = IF tsel.ev = "up" THEN @ \cup {tsel.fd} ELSE @ \ {tsel.fd}]
    /\ tsel' = [tsel EXCEPT !.todo = @ \ {m}]
    /\ UNCHANGED <<conns, triggers, tsock, listeners, silent, tuser>>

TellDone ==
    /\ tsel.pc = "tell" /\ tsel.todo = {} /\ tsel' = IdleSel
    /\ UNCHANGED <<conns, triggers, tsock, listeners, known, silent, tuser>>

MutantStopsThere(f) == IdleSel

\* The event goes on to the connection.
ThenDel(f) == [IdleSel EXCEPT !.pc = "del", !.fd = f, !.ev = tsock[f]]

\* TcpOnDataEvent when recv finds the connection closed, or RecvData fails:
\* DelTrigger.
DataEventDelTrigger(f) ==
    /\ tsel.pc = "idle" /\ f \in triggers /\ tsock[f] \in {"closed", "bad"}
    /\ triggers' = triggers \ {f}
    /\ tsel' = ThenDel(f)
    /\ UNCHANGED <<conns, tsock, listeners, known, silent, tuser>>

\* DelTcpConnInfo, and OnDisconnected even when there was no such node.  A
\* failed RecvData deletes the connection and tells nobody.
DataEventDel ==
    LET f == tsel.fd
    IN  /\ tsel.pc = "del" /\ DelTcpConnInfo(f)
        /\ silent' = IF tsel.ev = "bad" THEN silent \cup ({f} \cap Listed) ELSE silent
        /\ tsel' = IF tsel.ev = "bad" THEN IdleSel ELSE [IdleSel EXCEPT !.pc = "copy", !.fd = f, !.ev = "down"]
        /\ UNCHANGED <<triggers, listeners, known, tuser>>

TcpConnNext ==
    \/ \E m \in ConnMod : AddListener(m) \/ DelListener(m)
    \/ \E m \in Told : TellModule(m)
    \/ \E u \in TcpUser :
          \/ \E f \in TcpFd, ip \in Ip : TcpConnectDevice(u, f, ip)
          \/ ConnectAdd(u) \/ OnConnectSuccessed(u) \/ DisconnectDelTrigger(u) \/ DisconnectDel(u)
          \/ \E f \in TcpFd : TcpDisconnectDevice(u, f)
    \/ \E ip \in Ip : TcpDisconnectDeviceNow(ip)
    \/ DelAllConnInfo \/ AcceptAdd \/ GetAllListener \/ TellDone \/ DataEventDel
    \/ \E f \in TcpFd : \/ DataEventDelTrigger(f)
                        \/ \E ip \in Ip : TcpOnConnectEvent(f, ip)
                        \/ \E what \in {"closed", "bad"} : PeerEvent(f, what)

TcpConnSpec == TcpConnInit /\ [][TcpConnNext]_tcVars

-----------------------------------------------------------------------------
(* Properties. *)

\* The type of every variable, and the limit on connections.
ConnTypeOK ==
    /\ tsock \in [TcpFd -> {"free", "up", "closed", "bad"}] /\ triggers \subseteq TcpFd
    /\ listeners \subseteq ConnMod /\ known \in [Told -> SUBSET TcpFd]
    /\ Cardinality(Listed) <= MaxConnNum

\* A listed connection is watched, or someone is deleting it: else nobody will
\* notice that the peer closed it.  The exception is an event or a disconnect
\* of the same descriptor between the trigger and the node of a new connection.
ListedAreWatched ==
    \A f \in Listed : \/ f \in triggers \/ conns[f].lost
                      \/ \E u \in TcpUser : tuser[u].pc = "del" /\ tuser[u].fd = f
                      \/ (tsel.pc = "del" /\ tsel.fd = f)

\* A socket is open exactly as long as it has a node or is about to get one: the
\* shutdown comes with the node's deletion, once.
SocketsOwned ==
    \A f \in TcpFd : (tsock[f] # "free") <=>
        \/ conns[f] # TcpNil
        \/ \E u \in TcpUser : tuser[u].pc = "add" /\ tuser[u].fd = f
        \/ (tsel.pc = "accept" /\ tsel.fd = f)

\* A connection that a module or a requester was told of still exists, or they
\* are being told that it went, unless it went without a word (a user's
\* disconnect, a peer that stops in the middle of a packet) or before the
\* requester was told that it was there.
KnownExist ==
    \A m \in listeners \cup {"requester"} :
        \A f \in known[m] \ silent :
            f \in Listed \/ (tsel.fd = f /\ tsel.ev = "down" /\ (tsel.pc = "copy" \/ m \in tsel.todo))

=============================================================================
