--------------------------- MODULE Authentication ---------------------------
(* Authentication: the verification of a device, and the channels of the
   authentication messages. Each section has variables of its own; their
   specifications are checked side by side. *)
EXTENDS Integers, Sequences, FiniteSets

-----------------------------------------------------------------------------
(***************************************************************************)
(* Verifying a device (auth_manager.c, auth_connection.c, auth_socket.c,   *)
(* auth_sessionkey.c): the exchange of device ids, the authentication of   *)
(* HiChain, the session keys and the exchange of the encrypted device      *)
(* information, on the device that asks ("client") and the one that is     *)
(* asked ("server").                                                       *)
(*                                                                         *)
(* Three threads of a device use the same records without a lock: the one  *)
(* that receives (rx), HiChain's own, and the looper (work), which runs    *)
(* the LNN state machines and the timeouts.  HiChain is external: three    *)
(* messages, after which each side is told the key.  A handler is one step *)
(* per lock region where another thread can come between.  A record freed  *)
(* under a thread that uses it is undefined behaviour: broken stops the    *)
(* model.                                                                  *)
(***************************************************************************)

CONSTANTS AuthId,    \* verifications
          Others,    \* devices that verify another device meanwhile
          MaxKeys,   \* MAX_KEY_LIST_SIZE
          AuthNil    \* no record, no thread at work

VARIABLES am,        \* am[d][a]: AuthManager of the two lists, or AuthNil
          keys,      \* keys[d]: g_sessionKeyListHead
          mail,      \* mail[d]: messages on their way to d
          medium,    \* option.type of a verification
          link,      \* the connection of a verification
          timer,     \* timer[d]: messages of g_authHandler
          hichain,   \* hichain[d][a]: how far HiChain's thread is with the key
          rx,        \* receiving thread: <<step, a>>
          work,      \* looper: <<step, a>>
          lnn,       \* lnn[d][a]: what LNN does with the verification
          told,      \* what the callbacks told LNN
          missed,    \* received device information was lost by a race, or its key
          orphan,    \* keys set while their record was being deleted
          broken

amVars == <<am, keys, mail, medium, link, timer, hichain, rx, work, lnn, told, missed, orphan, broken>>

Device == {"client", "server"}
Peer(d) == IF d = "client" THEN "server" ELSE "client"

\* auth->status.
WaitConn == 1
InAuth == 2
InSync == 3
SyncFinish == 4
Passed == 5

NewAuth == [status |-> WaitConn, dev |-> "none", len |-> 0]

AuthInit ==
    /\ am = [d \in Device |-> [a \in AuthId |-> AuthNil]]
    /\ keys = [d \in Device |-> <<>>] /\ mail = [d \in Device |-> <<>>]
    /\ medium \in [AuthId -> {"br", "tcp"}] /\ link = [a \in AuthId |-> "none"]
    /\ timer = [d \in Device |-> {}] /\ hichain = [d \in Device |-> [a \in AuthId |-> "none"]]
    /\ rx = [d \in Device |-> AuthNil] /\ work = [d \in Device |-> AuthNil]
    /\ lnn = [d \in Device |-> [a \in AuthId |-> "none"]]
    /\ told = [d \in Device |-> [a \in AuthId |-> {}]]
    /\ missed = [d \in Device |-> {}] /\ orphan = [d \in Device |-> {}] /\ broken = FALSE

-----------------------------------------------------------------------------
(* Parts of the handlers. *)

Tell(d, a, what) == told' = [told EXCEPT ![d][a] = @ \cup what]
Has(d, a) == am[d][a] # AuthNil
SetStatus(d, a, s) == am' = [am EXCEPT ![d][a].status = s]

\* AuthPostData: the message is on its way, if the connection is there.
Sent(d, a, m) == IF link[a] = "up" THEN [mail EXCEPT ![Peer(d)] = Append(@, <<m, a>>)] ELSE mail

\* AuthSyncDeviceUuid: the local device's id.
AuthSyncDeviceUuid(d, a) == [mail EXCEPT ![Peer(d)] = Append(@, <<"id", a>>)]

\* EventRemove.
Disarmed(d, a) == [timer EXCEPT ![d] = @ \ {a}]

\* HandleAuthFail.
HandleAuthFail(d, a) == timer' = Disarmed(d, a) /\ Tell(d, a, {"fail"})

MutantKeepsKey(d, a) == keys

\* AuthClearSessionKeyBySeq.
KeysWithout(d, a) == [keys EXCEPT ![d] = SelectSeq(@, LAMBDA k : k # a)]

\* AuthSetLocalSessionKey: the oldest of a full list goes.
KeysWith(d, a) == [keys EXCEPT ![d] = <<a>> \o (IF Len(@) = MaxKeys THEN SubSeq(@, 1, Len(@) - 1) ELSE @)]
Evicted(d) == IF Len(keys[d]) = MaxKeys THEN {keys[d][MaxKeys]} ELSE {}

\* AuthIsSeqInKeyList.
HasKey(d, a) == \E i \in DOMAIN keys[d] : keys[d][i] = a

\* The receiving thread or HiChain's has a pointer to the record.
InUse(d, a) == (rx[d] # AuthNil /\ rx[d][2] = a) \/ hichain[d][a] \in {"set", "call"}

\* The looper is in AuthHandleLeaveLNN.
Leaving(d, a) == work[d] \in {<<"close", a>>, <<"delete", a>>}

-----------------------------------------------------------------------------
(* Starting. *)

\* AuthVerifyDevice, HandleVerifyDevice: over TCP connected (HandleIpVerifyDevice)
\* and the id sent, over BR up to the request to connect.
AuthVerifyDevice(a) ==
    /\ lnn["client"][a] = "none" /\ work["client"] = AuthNil
    /\ IF medium[a] = "tcp"
       THEN /\ am' = [am EXCEPT !["client"][a] = [NewAuth EXCEPT !.status = InAuth]]
            /\ link' = [link EXCEPT ![a] = "up"] /\ mail' = AuthSyncDeviceUuid("client", a)
       ELSE /\ am' = [am EXCEPT !["client"][a] = NewAuth] /\ link' = [link EXCEPT ![a] = "asked"] /\ UNCHANGED mail
    /\ lnn' = [lnn EXCEPT !["client"][a] = "fsm"] /\ work' = [work EXCEPT !["client"] = <<"arm", a>>]
    /\ UNCHANGED <<keys, medium, timer, hichain, rx, told, missed, orphan, broken>>

\* It fails, and what was made is undone.
AuthVerifyRefused(a) ==
    /\ lnn["client"][a] = "none" /\ work["client"] = AuthNil
    /\ lnn' = [lnn EXCEPT !["client"][a] = "left"] /\ Tell("client", a, {"fail"})
    /\ UNCHANGED <<am, keys, mail, medium, link, timer, hichain, rx, work, missed, orphan, broken>>

MutantNeverArms(a) == timer

\* EventInLooper.
Armed(a) == [timer EXCEPT !["client"] = @ \cup {a}]

VerifyArms(a) ==
    /\ work["client"] = <<"arm", a>>
    /\ timer' = Armed(a) /\ work' = [work EXCEPT !["client"] = AuthNil]
    /\ UNCHANGED <<am, keys, mail, medium, link, hichain, rx, lnn, told, missed, orphan, broken>>

\* AuthOnConnectSuccessful, AuthSyncDeviceUuid, which may fail before or after
\* the status is set.
AuthOnConnectSuccessful(a) ==
    /\ link[a] = "asked" /\ link' = [link EXCEPT ![a] = "up"]
    /\ \/ /\ Has("client", a) /\ SetStatus("client", a, InAuth)
          /\ mail' = AuthSyncDeviceUuid("client", a) /\ UNCHANGED <<timer, told>>
       \/ /\ Has("client", a) /\ HandleAuthFail("client", a)
          /\ (SetStatus("client", a, InAuth) \/ UNCHANGED am) /\ UNCHANGED mail
       \/ ~Has("client", a) /\ UNCHANGED <<am, mail, timer, told>>
    /\ UNCHANGED <<keys, medium, hichain, rx, work, lnn, missed, orphan, broken>>

\* AuthOnConnectFailed.
AuthOnConnectFailed(a) ==
    /\ link[a] = "asked" /\ link' = [link EXCEPT ![a] = "down"]
    /\ IF Has("client", a) THEN HandleAuthFail("client", a) ELSE UNCHANGED <<timer, told>>
    /\ UNCHANGED <<am, keys, mail, medium, hichain, rx, work, lnn, missed, orphan, broken>>

\* The connection is lost; AuthOnDisConnect does nothing.
Lose(a) ==
    /\ link[a] = "up" /\ link' = [link EXCEPT ![a] = "down"]
    /\ mail' = [d \in Device |-> SelectSeq(mail[d], LAMBDA m : m[2] # a)]
    /\ UNCHANGED <<am, keys, medium, timer, hichain, rx, work, lnn, told, missed, orphan, broken>>

-----------------------------------------------------------------------------
(* Receiving. *)

\* AuthIpOnDataReceived: over TCP the server's record has its socket for an
\* id (ServerIpAuthInit), so that what carries the client's id is dropped.
SeqAccepted(d, a) == ~(medium[a] = "tcp" /\ d = "server")

\* CreateServerAuth: the first message of a verification makes its record.
ServerAuth(a) == IF Has("server", a) THEN am["server"][a] ELSE NewAuth

\* HandleReceiveDeviceId on the server: it answers with its own, or fails: an
\* id that cannot be read (status untouched), or an answer that cannot be sent.
ServerReceivesId(a) ==
    \/ /\ link[a] = "up" /\ timer' = [timer EXCEPT !["server"] = @ \cup {a}]
       /\ am' = [am EXCEPT !["server"][a] = [ServerAuth(a) EXCEPT !.status = InAuth]]
       /\ mail' = [AuthSyncDeviceUuid("server", a) EXCEPT !["server"] = Tail(@)]
       /\ UNCHANGED told
    \/ /\ HandleAuthFail("server", a) /\ mail' = [mail EXCEPT !["server"] = Tail(@)]
       /\ \E s \in {InAuth, ServerAuth(a).status} :
             am' = [am EXCEPT !["server"][a] = [ServerAuth(a) EXCEPT !.status = s]]

\* HandleReceiveDeviceId on the client, StartAuth: HiChain starts or refuses, or
\* its parameters cannot be made and nothing happens.
StartAuth(a) ==
    /\ UNCHANGED am
    /\ \/ /\ Has("client", a) /\ mail' = [Sent("client", a, "auth1") EXCEPT !["client"] = Tail(@)]
          /\ UNCHANGED <<timer, told>>
       \/ Has("client", a) /\ HandleAuthFail("client", a) /\ mail' = [mail EXCEPT !["client"] = Tail(@)]
       \/ mail' = [mail EXCEPT !["client"] = Tail(@)] /\ UNCHANGED <<timer, told>>

\* AuthOnTransmit: HiChain's answer to a message.
Answered(d, a, m) ==
    CASE m = "auth1" -> Sent(d, a, "auth2") [] m = "auth2" -> Sent(d, a, "auth3") [] OTHER -> mail

\* HandleReceiveAuthData.
ReceiveAuth(d, a, m) ==
    /\ UNCHANGED am
    /\ \/ /\ Has(d, a)
          /\ mail' = [Answered(d, a, m) EXCEPT ![d] = Tail(@)]
          /\ hichain' = [hichain EXCEPT ![d][a] = IF m # "auth1" /\ @ = "none" THEN "due" ELSE @]
          /\ UNCHANGED <<timer, told>>
       \/ /\ Has(d, a) /\ HandleAuthFail(d, a) /\ mail' = [mail EXCEPT ![d] = Tail(@)] /\ UNCHANGED hichain
       \/ ~Has(d, a) /\ mail' = [mail EXCEPT ![d] = Tail(@)] /\ UNCHANGED <<timer, told, hichain>>

MutantNoKeyNeeded(d, a) == am[d][a].status = InSync

\* AuthHandlePeerSyncDeviceInfo: too early, to be kept.
TooEarly(d, a) == ~HasKey(d, a) \/ am[d][a].status = InSync

\* AuthHandlePeerSyncDeviceInfo: LNN gets the device information, and over TCP
\* the verification is over.
Deliver(d, a, dev) ==
    /\ am' = [am EXCEPT ![d][a].dev = dev, ![d][a].status = Passed]
    /\ IF medium[a] = "tcp" THEN timer' = Disarmed(d, a) /\ Tell(d, a, {"info", "pass"})
       ELSE UNCHANGED timer /\ Tell(d, a, {"info"})

ReceiveSync(d, a) ==
    /\ mail' = [mail EXCEPT ![d] = Tail(@)] /\ UNCHANGED hichain
    /\ IF ~Has(d, a) THEN UNCHANGED <<am, rx, timer, told>>
       ELSE IF TooEarly(d, a) THEN rx' = [rx EXCEPT ![d] = <<"alloc", a>>] /\ UNCHANGED <<am, timer, told>>
       ELSE Deliver(d, a, am[d][a].dev) /\ UNCHANGED rx

\* AuthOnDataReceived, AuthIpOnDataReceived.
Receive(d) ==
    /\ rx[d] = AuthNil /\ mail[d] # <<>>
    /\ LET m == Head(mail[d])[1]
           a == Head(mail[d])[2]
       IN  \/ /\ ~SeqAccepted(d, a) /\ mail' = [mail EXCEPT ![d] = Tail(@)]
              /\ UNCHANGED <<am, timer, hichain, rx, told>>
           \/ SeqAccepted(d, a) /\ m = "id" /\ (IF d = "server" THEN ServerReceivesId(a) ELSE StartAuth(a)) /\ UNCHANGED <<hichain, rx>>
           \/ SeqAccepted(d, a) /\ m \in {"auth1", "auth2", "auth3"} /\ ReceiveAuth(d, a, m) /\ UNCHANGED rx
           \/ SeqAccepted(d, a) /\ m = "sync" /\ ReceiveSync(d, a)
    /\ UNCHANGED <<keys, medium, link, work, lnn, missed, orphan, broken>>

\* encryptDevData is replaced by a new buffer; the looper has already looked.
StashAlloc(d, a) ==
    /\ rx[d] = <<"alloc", a>> /\ rx' = [rx EXCEPT ![d] = <<"copy", a>>]
    /\ am' = [am EXCEPT ![d][a].dev = "alloc"]
    /\ missed' = [missed EXCEPT ![d] = IF am[d][a].status = SyncFinish THEN @ \cup {a} ELSE @]
    /\ UNCHANGED <<keys, mail, medium, link, timer, hichain, work, lnn, told, orphan, broken>>

\* memcpy_s and encryptLen; the looper has freed the buffer.
StashCopy(d, a) ==
    /\ rx[d] = <<"copy", a>> /\ rx' = [rx EXCEPT ![d] = AuthNil]
    /\ IF am[d][a].dev = "alloc"
       THEN am' = [am EXCEPT ![d][a].dev = "full", ![d][a].len = 1] /\ UNCHANGED broken
       ELSE broken' = TRUE /\ UNCHANGED am
    /\ UNCHANGED <<keys, mail, medium, link, timer, hichain, work, lnn, told, missed, orphan>>

\* ReceiveCloseAck: only peers of other versions send it.
ReceiveCloseAck(a) ==
    /\ Has("client", a) /\ medium[a] = "br" /\ link[a] = "up" /\ "pass" \notin told["client"][a]
    /\ timer' = Disarmed("client", a) /\ Tell("client", a, {"pass"})
    /\ UNCHANGED <<am, keys, mail, medium, link, hichain, rx, work, lnn, missed, orphan, broken>>

\* AuthOnSessionKeyReturned: the record is looked up,
AuthOnSessionKeyReturned(d, a) ==
    /\ hichain[d][a] = "due" /\ hichain' = [hichain EXCEPT ![d][a] = IF Has(d, a) THEN "set" ELSE "none"]
    /\ UNCHANGED <<am, keys, mail, medium, link, timer, rx, work, lnn, told, missed, orphan, broken>>

\* the key is set with the status,
SetSessionKey(d, a) ==
    /\ hichain[d][a] = "set" /\ hichain' = [hichain EXCEPT ![d][a] = "call"]
    /\ keys' = KeysWith(d, a) /\ SetStatus(d, a, InSync)
    /\ missed' = [missed EXCEPT ![d] = @ \cup Evicted(d)]
    /\ orphan' = IF Leaving(d, a) THEN [orphan EXCEPT ![d] = @ \cup {a}] ELSE orphan
    /\ UNCHANGED <<mail, medium, link, timer, rx, work, lnn, told, broken>>

\* and LNN is told.
OnKeyGenerated(d, a) ==
    /\ hichain[d][a] = "call" /\ hichain' = [hichain EXCEPT ![d][a] = "none"]
    /\ Tell(d, a, {"key"}) /\ lnn' = [lnn EXCEPT ![d][a] = IF @ = "left" THEN "left" ELSE "fsm"]
    /\ UNCHANGED <<am, keys, mail, medium, link, timer, rx, work, missed, orphan, broken>>

\* The same for a verification with another device.
OtherKeyReturned(d) ==
    /\ d \in Others /\ ~HasKey(d, "other") /\ keys' = KeysWith(d, "other")
    /\ missed' = [missed EXCEPT ![d] = @ \cup Evicted(d)]
    /\ UNCHANGED <<am, mail, medium, link, timer, hichain, rx, work, lnn, told, orphan, broken>>

\* AuthOnError.
AuthOnError(d, a) ==
    /\ hichain[d][a] = "due" /\ hichain' = [hichain EXCEPT ![d][a] = "none"]
    /\ IF Has(d, a) THEN HandleAuthFail(d, a) ELSE UNCHANGED <<timer, told>>
    /\ UNCHANGED <<am, keys, mail, medium, link, rx, work, lnn, missed, orphan, broken>>

-----------------------------------------------------------------------------
(* The looper: LNN and the timeouts. *)

\* AuthPostData of the device information: sent and SYNC_FINISH.
PostSync(d, a) ==
    /\ work[d] = AuthNil /\ lnn[d][a] = "fsm" /\ "key" \in told[d][a] /\ Has(d, a)
    /\ lnn' = [lnn EXCEPT ![d][a] = "posted"] /\ mail' = Sent(d, a, "sync")
    /\ IF link[a] = "up"
       THEN SetStatus(d, a, SyncFinish) /\ work' = [work EXCEPT ![d] = <<"check", a>>]
       ELSE UNCHANGED <<am, work>>
    /\ UNCHANGED <<keys, medium, link, timer, hichain, rx, told, missed, orphan, broken>>

MutantForgets(d, a) == UNCHANGED <<am, timer, told>>

\* HandlePeerSyncDeviceInfo: what came too early is handled now.  A buffer
\* that is not yet filled has no length: it is freed and nothing handled.
HandleKept(d, a) ==
    IF am[d][a].dev = "none" THEN UNCHANGED <<am, timer, told>>
    ELSE IF am[d][a].len = 0 \/ TooEarly(d, a) THEN am' = [am EXCEPT ![d][a].dev = "none"] /\ UNCHANGED <<timer, told>>
    ELSE Deliver(d, a, "none")

PostCheck(d, a) ==
    /\ work[d] = <<"check", a>> /\ work' = [work EXCEPT ![d] = AuthNil]
    /\ HandleKept(d, a)
    /\ UNCHANGED <<keys, mail, medium, link, hichain, rx, lnn, missed, orphan, broken>>

\* AuthTimeout.
AuthTimeout(d, a) ==
    /\ work[d] = AuthNil /\ a \in timer[d] /\ timer' = Disarmed(d, a)
    /\ IF Has(d, a) THEN Tell(d, a, {"fail"}) ELSE UNCHANGED told
    /\ UNCHANGED <<am, keys, mail, medium, link, hichain, rx, work, lnn, missed, orphan, broken>>

\* LNN's state machine is cleaned up.  AuthHandleLeaveLNN: the key goes,
AuthHandleLeaveLNN(d, a) ==
    /\ work[d] = AuthNil /\ lnn[d][a] \in {"fsm", "posted"} /\ Has(d, a)
    /\ keys' = KeysWithout(d, a) /\ lnn' = [lnn EXCEPT ![d][a] = "left"]
    /\ work' = [work EXCEPT ![d] = <<IF medium[a] = "tcp" THEN "close" ELSE "delete", a>>]
    /\ UNCHANGED <<am, mail, medium, link, timer, hichain, rx, told, missed, orphan, broken>>

\* AuthCloseTcpFd,
LeaveCloses(d, a) ==
    /\ work[d] = <<"close", a>> /\ work' = [work EXCEPT ![d] = <<"delete", a>>]
    /\ link' = [link EXCEPT ![a] = "down"]
    /\ UNCHANGED <<am, keys, mail, medium, timer, hichain, rx, lnn, told, missed, orphan, broken>>

\* and the record, though a thread may use it.
DeleteAuth(d, a) ==
    /\ work[d] = <<"delete", a>> /\ work' = [work EXCEPT ![d] = AuthNil]
    /\ am' = [am EXCEPT ![d][a] = AuthNil] /\ broken' = InUse(d, a)
    /\ UNCHANGED <<keys, mail, medium, link, timer, hichain, rx, lnn, told, missed, orphan>>

-----------------------------------------------------------------------------
AuthNext ==
    /\ ~broken
    /\ \/ \E a \in AuthId :
           \/ AuthVerifyDevice(a) \/ AuthVerifyRefused(a) \/ VerifyArms(a)
           \/ AuthOnConnectSuccessful(a) \/ AuthOnConnectFailed(a) \/ Lose(a) \/ ReceiveCloseAck(a)
       \/ \E d \in Device :
           \/ Receive(d) \/ OtherKeyReturned(d)
           \/ \E a \in AuthId :
               \/ StashAlloc(d, a) \/ StashCopy(d, a) \/ AuthOnError(d, a)
               \/ AuthOnSessionKeyReturned(d, a) \/ SetSessionKey(d, a) \/ OnKeyGenerated(d, a)
               \/ PostSync(d, a) \/ PostCheck(d, a) \/ AuthTimeout(d, a)
               \/ AuthHandleLeaveLNN(d, a) \/ LeaveCloses(d, a) \/ DeleteAuth(d, a)

AuthSpec == AuthInit /\ [][AuthNext]_amVars

\* The looper runs what is due.
Runs == ~broken
AuthFairness ==
    \A a \in AuthId : WF_amVars(Runs /\ VerifyArms(a)) /\ WF_amVars(Runs /\ AuthTimeout("client", a))
                      /\ \A d \in Device : WF_amVars(Runs /\ PostCheck(d, a))

AuthLiveSpec == AuthSpec /\ AuthFairness

-----------------------------------------------------------------------------
(* Properties. *)

\* The type of every variable.
AuthTypeOK ==
    \A d \in Device : /\ Len(keys[d]) <= MaxKeys /\ timer[d] \subseteq AuthId /\ missed[d] \subseteq AuthId \cup {"other"}
                      /\ \A a \in AuthId : Has(d, a) => am[d][a].status \in 1 .. 5 /\ am[d][a].dev \in {"none", "alloc", "full"}

\* LNN gets the peer's device information only after its key: it cannot be
\* decrypted before, and is kept for as long as it takes.
KeyBeforeInfo == \A d \in Device, a \in AuthId : "info" \in told[d][a] => "key" \in told[d][a]

\* Device information kept for later does not outlive its moment: once LNN has
\* sent its own and no thread is at work, none lies in the record, unless it
\* was kept just as LNN's was sent, or its key made place for another.
KeptInfoHandled ==
    \A d \in Device, a \in AuthId :
        (Has(d, a) /\ lnn[d][a] = "posted" /\ link[a] = "up" /\ rx[d] = AuthNil /\ work[d] = AuthNil /\ ~broken /\ a \notin missed[d])
            => am[d][a].dev = "none"

\* A key belongs to a verification that is listed: one that left takes its key
\* along, except a key that HiChain returned between the clearing of the keys
\* and the deletion of the record (AuthHandleLeaveLNN): it stays until others
\* push it out.
KeysOfListed == \A d \in Device, a \in AuthId : HasKey(d, a) => Has(d, a) \/ a \in orphan[d]

VerifyAsked(a) == lnn["client"][a] = "fsm"
VerifyOver(a) == told["client"][a] # {} \/ lnn["client"][a] = "left" \/ broken

\* A verification asked for is answered, or LNN gave it up, whatever is lost on
\* the way.
VerifyAnswered == \A a \in AuthId : VerifyAsked(a) ~> VerifyOver(a)

-----------------------------------------------------------------------------
(***************************************************************************)
(* Channels for messages before a device is verified: a channel            *)
(* (trans_auth_manager.c) on an authentication record of its own           *)
(* (auth_manager.c) over a TCP connection (auth_socket.c).                 *)
(*                                                                         *)
(* The applications open and close, the selecting thread (asel) receives   *)
(* and notices what is lost.  A connection carries one channel and has a   *)
(* number of its own; the numbers of sockets are not used again.           *)
(* Undefined behaviour: the record of a lost incoming connection is read   *)
(* after it was freed, which gives its number or another; an open that     *)
(* fails after the channel was listed frees the channel twice (fatal).     *)
(***************************************************************************)

CONSTANTS MaxConn,    \* connections made or taken
          AuthUser    \* threads of applications that open channels

VARIABLES ac,         \* ac[f]: a connection, its record and its channel
          opening,    \* opening[u]: <<step, f>> of TransOpenAuthMsgChannel
          asel,       \* <<step, f>> of the selecting thread
          unsaid,     \* channels closed after they were told open, and not said
          deaf,       \* channels whose loss came before they were listed, or was misread
          fatal

acVars == <<ac, opening, asel, unsaid, deaf, fatal>>

Conns == 1 .. MaxConn
NoConn == [side |-> "none", rec |-> FALSE, sock |-> "none", trig |-> FALSE, chan |-> "none", told |-> "none", asked |-> FALSE]

AuthChanInit ==
    /\ ac = [f \in Conns |-> NoConn] /\ opening = [u \in AuthUser |-> AuthNil] /\ asel = AuthNil
    /\ unsaid = {} /\ deaf = {} /\ fatal = FALSE

Used == {f \in Conns : ac[f].side # "none"}
New(f) == f = Cardinality(Used) + 1 /\ f \in Conns

\* AuthOpenChannel, CreateServerIpAuth.
Record(side) == [NoConn EXCEPT !.side = side, !.rec = TRUE, !.sock = "open", !.trig = TRUE]

MutantKeepsRecord(c) == c

\* AuthCloseChannel, AuthHandleLeaveLNN: the record goes and its socket.
Closed(c) == IF c.rec THEN [c EXCEPT !.rec = FALSE, !.sock = "shut", !.trig = FALSE] ELSE c

MutantStaysListed(c) == c

\* DelAuthChannelInfoByChanId, DelAuthChannelInfoByAuthId.
Unlisted(c) == IF c.chan = "listed" THEN [c EXCEPT !.chan = "gone"] ELSE c

MutantSaysNothing(c, what) == c

\* g_cb of the channel, to the application.
Said(c, what) == [c EXCEPT !.told = what]

-----------------------------------------------------------------------------
(* Opening and closing. *)

\* TransOpenAuthMsgChannel: the connection is there and read from now on.
OpenConnect(u) ==
    \E f \in Conns :
        /\ New(f) /\ opening[u] = AuthNil
        /\ ac' = [ac EXCEPT ![f] = Record("client")] /\ opening' = [opening EXCEPT ![u] = <<"add", f>>]
        /\ UNCHANGED <<asel, unsaid, deaf, fatal>>

\* AddAuthChannelInfo.
OpenAdd(u) ==
    \E f \in Conns :
        /\ opening[u] = <<"add", f>> /\ opening' = [opening EXCEPT ![u] = <<"post", f>>]
        /\ ac' = [ac EXCEPT ![f].chan = "listed"]
        /\ UNCHANGED <<asel, unsaid, deaf, fatal>>

\* TransPostAuthChannelMsg of the request.
OpenPost(u) ==
    \E f \in Conns :
        /\ opening[u] = <<"post", f>> /\ ac[f].chan = "listed" /\ ac[f].rec
        /\ opening' = [opening EXCEPT ![u] = AuthNil] /\ ac' = [ac EXCEPT ![f].asked = TRUE]
        /\ UNCHANGED <<asel, unsaid, deaf, fatal>>

\* The channel is freed already, or the request cannot be sent: it is freed twice.
OpenFails(u) ==
    \E f \in Conns :
        /\ opening[u] = <<"post", f>> /\ fatal' = TRUE
        /\ UNCHANGED <<ac, opening, asel, unsaid, deaf>>

\* TransCloseAuthChannel.
TransCloseAuthChannel(f) ==
    /\ ac[f].chan = "listed" /\ ac[f].rec /\ (ac[f].asked \/ ac[f].told = "open")
    /\ ac' = [ac EXCEPT ![f] = Said(Unlisted(Closed(@)), "closed")]
    /\ UNCHANGED <<opening, asel, unsaid, deaf, fatal>>

-----------------------------------------------------------------------------
(* The selecting thread. *)

\* AuthOnConnectEvent.
AuthOnConnectEvent(f) ==
    /\ New(f) /\ asel = AuthNil /\ ac' = [ac EXCEPT ![f] = Record("server")]
    /\ UNCHANGED <<opening, asel, unsaid, deaf, fatal>>

\* OnRequsetUpdateAuthChannel; the application learns of the channel.
RecvRequest(f) ==
    /\ asel = AuthNil /\ ac[f].side = "server" /\ ac[f].trig /\ ac[f].chan = "none"
    /\ ac' = [ac EXCEPT ![f].chan = "listed", ![f].told = "open"] /\ asel' = <<"reply", f>>
    /\ UNCHANGED <<opening, unsaid, deaf, fatal>>

\* OnRecvAuthChannelRequest, EXIT_ERR: nobody takes the channel.
RequestRefused(f) ==
    /\ asel = AuthNil /\ ac[f].side = "server" /\ ac[f].trig /\ ac[f].chan = "none"
    /\ ac' = [ac EXCEPT ![f] = Closed(@)]
    /\ UNCHANGED <<opening, asel, unsaid, deaf, fatal>>

ReplySent(f) ==
    /\ asel = <<"reply", f>> /\ ac[f].rec /\ asel' = AuthNil
    /\ UNCHANGED <<ac, opening, unsaid, deaf, fatal>>

\* EXIT_ERR after the application learned of the channel: it is not told.
ReplyFails(f) ==
    /\ asel = <<"reply", f>> /\ asel' = AuthNil
    /\ ac' = [ac EXCEPT ![f] = Closed(Unlisted(@))]
    /\ unsaid' = IF ac[f].chan = "listed" THEN unsaid \cup {f} ELSE unsaid
    /\ UNCHANGED <<opening, deaf, fatal>>

\* OnRecvAuthChannelReply.
RecvReply(f) ==
    /\ asel = AuthNil /\ ac[f].side = "client" /\ ac[f].trig /\ ac[f].asked /\ ac[f].told = "none"
    /\ ac[f].chan = "listed" /\ ac' = [ac EXCEPT ![f] = Said(@, "open")]
    /\ UNCHANGED <<opening, asel, unsaid, deaf, fatal>>

\* EXIT_ERR: an error, or nobody takes the channel.
RecvError(f) ==
    /\ asel = AuthNil /\ ac[f].side = "client" /\ ac[f].trig /\ ac[f].asked /\ ac[f].told = "none"
    /\ ac[f].chan = "listed" /\ ac' = [ac EXCEPT ![f] = Said(Unlisted(Closed(@)), "failed")]
    /\ UNCHANGED <<opening, asel, unsaid, deaf, fatal>>

\* The peer closes the connection.
PeerCloses(f) ==
    /\ ac[f].sock = "open" /\ ac' = [ac EXCEPT ![f].sock = "lost"]
    /\ UNCHANGED <<opening, asel, unsaid, deaf, fatal>>

\* AuthOnDataEvent, AuthNotifyLnnDisconn: an incoming record goes.
NotifyDisconn(f) ==
    /\ asel = AuthNil /\ ac[f].sock = "lost" /\ ac[f].trig
    /\ ac' = [ac EXCEPT ![f] = [(IF @.side = "server" THEN Closed(@) ELSE @) EXCEPT !.trig = FALSE]]
    /\ asel' = <<"trans", f>>
    /\ UNCHANGED <<opening, unsaid, deaf, fatal>>

\* AuthNotifyTransDisconn, AuthOnCloseChannel.
NotifyTrans(f) ==
    /\ asel = <<"trans", f>> /\ asel' = AuthNil
    /\ IF ac[f].chan = "listed"
       THEN ac' = [ac EXCEPT ![f] = Said(Closed(Unlisted(@)), "closed")] /\ UNCHANGED deaf
       ELSE deaf' = deaf \cup {f} /\ UNCHANGED ac
    /\ UNCHANGED <<opening, unsaid, fatal>>

\* auth->authId of a freed record.
NotifyOther(f) ==
    /\ asel = <<"trans", f>> /\ ac[f].side = "server" /\ asel' = AuthNil
    /\ deaf' = deaf \cup {f} /\ UNCHANGED <<ac, opening, unsaid, fatal>>

-----------------------------------------------------------------------------
AuthChanNext ==
    /\ ~fatal
    /\ \/ \E u \in AuthUser : OpenConnect(u) \/ OpenAdd(u) \/ OpenPost(u) \/ OpenFails(u)
       \/ \E f \in Conns :
            \/ TransCloseAuthChannel(f) \/ AuthOnConnectEvent(f) \/ RecvRequest(f) \/ RequestRefused(f)
            \/ ReplySent(f) \/ ReplyFails(f) \/ RecvReply(f) \/ RecvError(f)
            \/ PeerCloses(f) \/ NotifyDisconn(f) \/ NotifyTrans(f) \/ NotifyOther(f)

AuthChanSpec == AuthChanInit /\ [][AuthChanNext]_acVars

-----------------------------------------------------------------------------
(* Properties. *)

At(f) == (\E u \in AuthUser : opening[u] # AuthNil /\ opening[u][2] = f) \/ (asel # AuthNil /\ asel[2] = f)

\* The type of every variable.
AuthChanTypeOK ==
    /\ \A f \in Conns : ac[f].chan \in {"none", "listed", "gone"} /\ ac[f].sock \in {"none", "open", "lost", "shut"}
    /\ unsaid \subseteq Conns /\ deaf \subseteq Conns

\* A record that nobody reads from any more belongs to a channel: closing one
\* way or the other leaves no record and no socket behind.
RecordsOwned == \A f \in Conns : ac[f].rec => ac[f].trig \/ ac[f].chan = "listed" \/ At(f) \/ f \in deaf

\* A channel the application takes for open is listed, unless it was told of
\* the channel and the reply could then not be sent.
OpenIsListed == \A f \in Conns : ac[f].told = "open" => ac[f].chan = "listed" \/ f \in unsaid

\* A listed channel will learn that its connection is lost, unless the loss
\* came before it was listed or was looked up by what lay in freed memory.
ListedHears == \A f \in Conns : ac[f].chan = "listed" => ac[f].trig \/ At(f) \/ f \in deaf

=============================================================================
