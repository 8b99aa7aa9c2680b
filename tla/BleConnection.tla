---------------------------- MODULE BleConnection ----------------------------
(* The BLE connections: the GATT service, the connections and what is posted
   on them, the cutting of messages into fragments, and the queue of the
   sending thread. Each section has variables of its own; their
   specifications are checked side by side. *)
EXTENDS Integers, Sequences, FiniteSets, SequencesExt

-----------------------------------------------------------------------------
(* The GATT service of the BLE connection: it is registered, built of two    *)
(* characteristics with a descriptor each and started by messages of the     *)
(* looper and callbacks of the stack (softbus_ble_connection.c over          *)
(* softbus_adapter_ble_gatt_server.c), while other threads start and stop    *)
(* listening.  The stack is external: it answers requests in order, and a    *)
(* request or its answer may fail.                                           *)

CONSTANTS MaxTurnOns,  \* times Bluetooth is turned on
          MaxListens,  \* calls of Start- and StopLocalListening
          MaxGattFails \* requests and answers that fail

VARIABLES svc,     \* g_gattService
          hal,     \* g_gattsCallback is set, g_halRegFlag, an answer to BleGattsRegister is due
          gattMsg, \* messages of the looper
          ops,     \* requests the stack has still to answer
          gatt,    \* the service in the stack: [running, last: the characteristic added last]
          gcount,  \* [on, listens, fails] of the bounds
          late     \* the service was asked for before the registration was confirmed

gsVars == <<svc, hal, gattMsg, ops, gatt, gcount, late>>

NoService == [state |-> "INITIAL", svcId |-> 0, net |-> 0, conn |-> 0, netDes |-> "none", connDes |-> "none"]

GattInit ==
    /\ svc = NoService
    /\ hal = [callback |-> FALSE, reg |-> FALSE, due |-> FALSE]
    /\ gattMsg = <<>> /\ ops = <<>>
    /\ gatt = [running |-> FALSE, last |-> "none"]
    /\ gcount = [on |-> 0, listens |-> 0, fails |-> 0] /\ late = FALSE

Fails == gcount.fails < MaxGattFails /\ gcount' = [gcount EXCEPT !.fails = @ + 1]
GattWorks == UNCHANGED gcount

-----------------------------------------------------------------------------
(* A request of the adapter: the stack takes it or refuses it. *)
Request(op) == (GattWorks /\ ops' = Append(ops, op)) \/ (Fails /\ UNCHANGED ops)

BleConnOnBtStateChanged ==
    /\ gcount.on < MaxTurnOns /\ gcount' = [gcount EXCEPT !.on = @ + 1]
    /\ gattMsg' = Append(gattMsg, "service")
    /\ UNCHANGED <<svc, hal, ops, gatt, late>>

Take(m) == gattMsg # <<>> /\ Head(gattMsg) = m /\ gattMsg' = Tail(gattMsg)

(* The callbacks are registered once; the answer of the stack to the         *)
(* registration of the server may come before the call returns or later.     *)
SoftBusRegisterGattsCallbacks(sync) ==
    hal' = [callback |-> TRUE, reg |-> hal.reg \/ sync, due |-> ~hal.reg /\ ~sync]

AddServiceMsg ==
    /\ Take("service")
    /\ \/ hal.callback /\ UNCHANGED <<svc, hal, ops, late>> /\ GattWorks
       \/ ~hal.callback /\ Fails /\ UNCHANGED <<svc, hal, ops, late>>
       \/ /\ ~hal.callback
          /\ \E sync \in BOOLEAN : SoftBusRegisterGattsCallbacks(sync)
          /\ svc' = [svc EXCEPT !.state = "ADDING"]
          /\ IF hal'.reg
             THEN Request("service") /\ UNCHANGED late
             ELSE late' = TRUE /\ GattWorks /\ UNCHANGED ops
    /\ UNCHANGED gatt

BleRegisterServerCallback ==
    /\ hal.due
    /\ \/ GattWorks /\ hal' = [hal EXCEPT !.due = FALSE, !.reg = TRUE]
       \/ Fails /\ hal' = [hal EXCEPT !.due = FALSE]
    /\ UNCHANGED <<svc, gattMsg, ops, gatt, late>>

(* A request for a service that is not there is refused. *)
Ask(op) ==
    IF hal.reg /\ svc.svcId # 0 THEN Request(op)
    ELSE GattWorks /\ UNCHANGED ops
AddCharaMsg ==
    /\ \E c \in {"net", "conn"} : Take(c) /\ Ask(c)
    /\ UNCHANGED <<svc, hal, gatt, late>>
AddDescriptorMsg ==
    Take("descriptor") /\ Ask("descriptor") /\ UNCHANGED <<svc, hal, gatt, late>>

-----------------------------------------------------------------------------
(* BleStartLocalListening and BleStopLocalListening on a state of the        *)
(* service; w: the stack takes the request.                                  *)
Listening(s, w) == IF s.state = "ADDED" /\ w THEN [s EXCEPT !.state = "STARTING"] ELSE s
Stopping(s, w) == IF s.state = "STARTED" /\ w THEN [s EXCEPT !.state = "STOPPING"] ELSE s
Asked(s, s2, op) == IF s2 = s THEN ops ELSE Append(ops, op)

BleStartLocalListening ==
    /\ gcount.listens < MaxListens
    /\ \E w \in BOOLEAN :
        /\ svc' = Listening(svc, w) /\ ops' = Asked(svc, svc', "start")
        /\ gcount' = [gcount EXCEPT !.listens = @ + 1, !.fails = @ + (IF w THEN 0 ELSE 1)]
        /\ gcount'.fails <= MaxGattFails
    /\ UNCHANGED <<hal, gattMsg, gatt, late>>
BleStopLocalListening ==
    /\ gcount.listens < MaxListens
    /\ \E w \in BOOLEAN :
        /\ svc' = Stopping(svc, w) /\ ops' = Asked(svc, svc', "stop")
        /\ gcount' = [gcount EXCEPT !.listens = @ + 1, !.fails = @ + (IF w THEN 0 ELSE 1)]
        /\ gcount'.fails <= MaxGattFails
    /\ UNCHANGED <<hal, gattMsg, gatt, late>>

AllAdded(s) == s.svcId # 0 /\ s.conn # 0 /\ s.net # 0 /\ s.connDes # "none" /\ s.netDes # "none"

(* UpdateGattService, for the answer ok of the stack. *)
MutantStopped(ok) == "ADDED"
AfterStop(ok) == IF ok THEN "ADDED" ELSE "STARTED"
UpdateGattService(s, ok) ==
    CASE s.state = "ADDING" ->
           IF AllAdded(s) THEN Listening([s EXCEPT !.state = "ADDED"], TRUE)
           ELSE [s EXCEPT !.state = IF s.svcId # 0 THEN "DELETING" ELSE "INITIAL"]
      [] s.state = "STARTING" -> [s EXCEPT !.state = IF ok THEN "STARTED" ELSE "ADDED"]
      [] s.state = "STOPPING" -> [s EXCEPT !.state = AfterStop(ok)]
      [] s.state = "DELETING" -> [s EXCEPT !.state = IF ok THEN "INITIAL" ELSE "INVALID"]
      [] OTHER -> s

(* ResetGattService: the identifiers are forgotten, so the answer to the     *)
(* deletion will not be recognised.                                          *)
ResetGattService == [NoService EXCEPT !.state = IF svc.svcId # 0 THEN "DELETING" ELSE "INITIAL"]

Answer(op) == ops # <<>> /\ Head(ops) = op
Rest == Tail(ops)
RequestOf(s, rest) ==
    IF s.state = svc.state THEN rest
    ELSE IF s.state = "DELETING" THEN Append(rest, "delete")
    ELSE IF s.state = "STARTING" THEN Append(rest, "start") ELSE rest
Refused(s) == [s EXCEPT !.state = IF s.state = "DELETING" THEN "INVALID" ELSE "ADDED"]

(* The service becomes s, with the request this makes of the adapter, which  *)
(* may be refused.                                                           *)
Becomes(s) ==
    \/ svc' = s /\ ops' = RequestOf(s, Rest)
    \/ RequestOf(s, Rest) # Rest /\ svc' = Refused(s) /\ ops' = Rest

BleServiceAddCallback ==
    /\ Answer("service")
    /\ \/ Fails /\ Becomes(ResetGattService) /\ UNCHANGED gattMsg
       \/ /\ GattWorks /\ ops' = Rest
          /\ IF svc.state = "ADDING"
             THEN svc' = [svc EXCEPT !.svcId = 1] /\ gattMsg' = gattMsg \o <<"net", "descriptor", "conn">>
             ELSE UNCHANGED <<svc, gattMsg>>
    /\ UNCHANGED <<hal, gatt, late>>

BleCharacteristicAddCallback ==
    /\ \E c \in {"net", "conn"} :
        /\ Answer(c)
        /\ \/ /\ Fails /\ UNCHANGED <<gatt, gattMsg>>
              /\ Becomes(IF svc.svcId = 0 THEN svc ELSE ResetGattService)
           \/ /\ GattWorks /\ ops' = Rest /\ gatt' = [gatt EXCEPT !.last = c]
              /\ IF svc.svcId # 0 /\ svc.state = "ADDING"
                 THEN /\ svc' = [svc EXCEPT ![c] = 1]
                      /\ gattMsg' = IF c = "conn" THEN Append(gattMsg, "descriptor") ELSE gattMsg
                 ELSE UNCHANGED <<svc, gattMsg>>
    /\ UNCHANGED <<hal, late>>

MutantNetOnly(s, of) == [s EXCEPT !.netDes = of]
MutantConnFirst(s, of) ==
    IF s.connDes = "none" THEN [s EXCEPT !.connDes = of]
    ELSE UpdateGattService([s EXCEPT !.netDes = of], TRUE)
WithDescriptor(s, of) ==
    IF s.netDes = "none" THEN [s EXCEPT !.netDes = of]
    ELSE UpdateGattService([s EXCEPT !.connDes = of], TRUE)
BleDescriptorAddCallback ==
    /\ Answer("descriptor")
    /\ \/ /\ IF gatt.last = "none" THEN GattWorks ELSE Fails
          /\ Becomes(IF svc.svcId = 0 THEN svc ELSE ResetGattService)
       \/ /\ gatt.last # "none"
          /\ Becomes(IF svc.svcId # 0 /\ svc.state = "ADDING" THEN WithDescriptor(svc, gatt.last) ELSE svc)
          /\ IF svc'.state = "ADDED" /\ svc.state = "ADDING" THEN Fails ELSE GattWorks
    /\ UNCHANGED <<hal, gattMsg, gatt, late>>

AnswerOf(op, running) ==
    /\ Answer(op) /\ ops' = Rest
    /\ \E ok \in BOOLEAN :
        /\ IF ok THEN GattWorks ELSE Fails
        /\ gatt' = [gatt EXCEPT !.running = IF ok THEN running ELSE @]
        /\ svc' = IF svc.svcId = 0 THEN svc ELSE UpdateGattService(svc, ok)
    /\ UNCHANGED <<hal, gattMsg, late>>
BleServiceStartCallback == AnswerOf("start", TRUE)
BleServiceStopCallback == AnswerOf("stop", FALSE)
BleServiceDeleteCallback == AnswerOf("delete", FALSE)

BleConnMsgHandler == AddServiceMsg \/ AddCharaMsg \/ AddDescriptorMsg
Callbacks ==
    \/ BleRegisterServerCallback \/ BleServiceAddCallback \/ BleCharacteristicAddCallback
    \/ BleDescriptorAddCallback \/ BleServiceStartCallback \/ BleServiceStopCallback \/ BleServiceDeleteCallback
GattNext ==
    BleConnOnBtStateChanged \/ BleConnMsgHandler \/ Callbacks \/ BleStartLocalListening \/ BleStopLocalListening

GattSpec == GattInit /\ [][GattNext]_gsVars
(* The looper handles its messages, and the stack answers. *)
GattFairness == WF_gsVars(BleConnMsgHandler) /\ WF_gsVars(Callbacks)
GattLiveSpec == GattSpec /\ GattFairness

-----------------------------------------------------------------------------
(* Type invariant of g_gattService and the adapter. *)
GattTypeOK ==
    /\ svc.state \in {"INITIAL", "ADDING", "ADDED", "STARTING", "STARTED", "STOPPING", "DELETING", "INVALID"}
    /\ svc.svcId \in 0..1 /\ svc.netDes \in {"none", "net", "conn"} /\ svc.connDes \in {"none", "net", "conn"}
    /\ hal.due => ~hal.reg

(* UpdateGattService: a service that is added, or started, has both          *)
(* characteristics, each with its own descriptor, whatever request failed.   *)
CompleteWhenAdded ==
    svc.state \in {"ADDED", "STARTING", "STARTED", "STOPPING"} =>
        svc.svcId = 1 /\ svc.net = 1 /\ svc.conn = 1 /\ svc.netDes = "net" /\ svc.connDes = "conn"

Pending(op) == \E i \in DOMAIN ops : ops[i] = op

(* When no start or stop is outstanding, the state says STARTED exactly if   *)
(* the stack runs the service.                                               *)
StateMatchesStack ==
    ~Pending("start") /\ ~Pending("stop") => (svc.state = "STARTED" <=> gatt.running)

BtWasOn == gcount.on > 0
ServiceUp == gatt.running \/ gcount.fails > 0 \/ late \/ gcount.listens > 0

(* Bluetooth on leads to a service that has been started, unless a request   *)
(* fails or the stack confirms the registration of the server only after     *)
(* the service was asked for: then CheckGattsStatus refuses it for good.     *)
ServiceStarts == BtWasOn ~> ServiceUp

-----------------------------------------------------------------------------
(* The connections of the BLE server (softbus_ble_connection.c): the list    *)
(* the stack's callbacks keep, the look-ups by identifier, the reference     *)
(* counts, the exchange of the basic information, and the thread that sends  *)
(* what others have queued.  postQueue is a FIFO here (the last section).  *)
(* A connection is named by the identifier the stack gives it, 1, 2, ...     *)

CONSTANTS MaxConns,  \* connections the stack makes
          IdSpace,   \* values of the 16-bit counter of connection identifiers
          MaxWork    \* calls, packets and changes of the MTU

VARIABLES conns,   \* connections made so far: [id, ref, exchanged, mtu, link: the MTU agreed]
          list,    \* g_conection_list
          nextId,  \* nextConnectionId
          infoSeq, \* the static counter of SendSelfBasicInfo
          poster,  \* a caller of BlePostBytes between the look-up and the postQueue
          postQueue,   \* g_sendQueue
          sending, \* what the send thread holds, with the connection it found
          air,     \* notifications: [want, to, what, chara]
          bwork, wrapped, confused \* ghosts: steps taken; the counter wrapped; an MTU went astray

bnVars == <<conns, list, nextId, infoSeq, poster, postQueue, sending, air, bwork, wrapped, confused>>

None == [what |-> "none", id |-> 0, want |-> 0, found |-> 0, seq |-> 0]

BleConnInit ==
    /\ conns = <<>> /\ list = <<>> /\ nextId = 0 /\ infoSeq = 0
    /\ poster = None /\ postQueue = <<>> /\ sending = None /\ air = {}
    /\ bwork = 0 /\ wrapped = FALSE /\ confused = FALSE

Works == bwork < MaxWork /\ bwork' = bwork + 1

-----------------------------------------------------------------------------
(* A look-up that finds nothing returns the last connection it looked at.    *)
FirstWith(P(_)) == IF list = <<>> THEN 0
                   ELSE LET hits == {i \in DOMAIN list : P(list[i])}
                        IN  list[IF hits = {} THEN Len(list) ELSE CHOOSE i \in hits : \A j \in hits : i <= j]
MutantLast(id) == IF list = <<>> THEN 0 ELSE Last(list)
GetBleConnInfoByConnId(id) == FirstWith(LAMBDA n : conns[n].id = id)
GetBleConnInfoByHalConnId(halId) == FirstWith(LAMBDA n : n = halId)
(* Loops that look for the identifier and do nothing when it is not there. *)
Exactly(id) == LET n == GetBleConnInfoByConnId(id) IN IF n # 0 /\ conns[n].id = id THEN n ELSE 0

(* AllocBleConnectionIdLocked skips an identifier in use only for the next   *)
(* caller: the one it has computed is returned all the same.                 *)
MutantSameId == nextId
NewId == (nextId + 1) % IdSpace
AllocBleConnectionIdLocked ==
    /\ nextId' = (NewId + Cardinality({i \in DOMAIN list : conns[list[i]].id = NewId})) % IdSpace
    /\ wrapped' = (wrapped \/ NewId < nextId \/ nextId' < NewId)

NewConnection == [id |-> NewId, ref |-> 1, exchanged |-> FALSE, mtu |-> 1, link |-> 1]
BleConnectServerCallback ==
    /\ Len(conns) < MaxConns
    /\ AllocBleConnectionIdLocked
    /\ conns' = Append(conns, NewConnection)
    /\ list' = Append(list, Len(conns'))
    /\ UNCHANGED <<infoSeq, poster, postQueue, sending, air, bwork, confused>>

(* The record is freed under the lock and read once more for OnDisconnected. *)
BleDisconnectServerCallback(n) ==
    /\ list' = SelectSeq(list, LAMBDA m : m # n)
    /\ UNCHANGED <<conns, nextId, infoSeq, poster, postQueue, sending, air, bwork, wrapped, confused>>

-----------------------------------------------------------------------------
Message(what, id, seq) ==
    [what |-> what, id |-> id, want |-> Exactly(id), found |-> GetBleConnInfoByConnId(id), seq |-> seq]
PostQueued(m) == IF m.found = 0 THEN postQueue ELSE Append(postQueue, m)

(* BlePostBytes of another thread: the connection found is read again after  *)
(* the lock is released, when it may have been freed; then whatever is read  *)
(* as its role decides whether the message will be sent.                     *)
BlePostBytesLookup ==
    /\ Works /\ poster = None
    /\ \E id \in {conns[n].id : n \in DOMAIN conns} : poster' = Message("data", id, 0)
    /\ UNCHANGED <<conns, list, nextId, infoSeq, postQueue, sending, air, wrapped, confused>>
BlePostBytes ==
    /\ poster # None /\ poster' = None
    /\ \/ postQueue' = PostQueued(poster)
       \/ poster.found \notin Range(list) /\ UNCHANGED postQueue
    /\ UNCHANGED <<conns, list, nextId, infoSeq, sending, air, bwork, wrapped, confused>>

(* SendRefMessage and PackRequest for a caller of BleDisconnectDevice. *)
BleDisconnectDevice ==
    /\ Works
    /\ \E id \in {conns[n].id : n \in DOMAIN conns} :
        IF Exactly(id) = 0 THEN UNCHANGED <<conns, postQueue>>
        ELSE /\ conns' = [conns EXCEPT ![Exactly(id)].ref = @ - 1]
             /\ postQueue' = PostQueued(Message("request", id, 0))
    /\ UNCHANGED <<list, nextId, infoSeq, poster, sending, air, wrapped, confused>>

(* A request of the peer (OnPackResponse): the last release of both ends     *)
(* asks the stack to disconnect, which SoftBusGattsDisconnect does not do.   *)
OnPackResponse(n, peerRef) ==
    /\ conns' = [conns EXCEPT ![n].ref = @ - 1]
    /\ postQueue' = IF peerRef > 0 \/ conns'[n].ref <= 0 THEN postQueue ELSE PostQueued(Message("response", conns[n].id, 0))
    /\ UNCHANGED infoSeq

MutantNoAnswer(id) == UNCHANGED <<postQueue, infoSeq>>
SendSelfBasicInfo(id) == postQueue' = PostQueued(Message("info", id, infoSeq)) /\ infoSeq' = infoSeq + 1

(* A packet of the peer, whole: on the characteristic of the connections a   *)
(* command or data; on that of the network the basic information, until it   *)
(* has been read once.                                                       *)
BleOnDataReceived(halId) ==
    /\ Works
    /\ LET n == GetBleConnInfoByHalConnId(halId)
       IN  \/ \E peerRef \in {0, 1} : OnPackResponse(n, peerRef)
           \/ UNCHANGED <<conns, postQueue, infoSeq>>  \* a response, data, or information that cannot be read
           \/ /\ ~conns[n].exchanged
              /\ conns' = [conns EXCEPT ![n].exchanged = TRUE]
              /\ SendSelfBasicInfo(conns[n].id)
    /\ UNCHANGED <<list, nextId, poster, sending, air, wrapped, confused>>

(* BleMtuChangeCallback takes the stack's identifier for a connection's: no  *)
(* connection has it, and the last of the list gets the MTU.                 *)
MutantFirstGets == IF list = <<>> THEN 0 ELSE Head(list)
MtuTarget == FirstWith(LAMBDA n : FALSE)
BleMtuChangeCallback(halId) ==
    /\ Works /\ MtuTarget # 0 /\ conns[halId].link = 1
    /\ conns' = [m \in DOMAIN conns |->
                    [conns[m] EXCEPT !.mtu = IF m = MtuTarget THEN 2 ELSE @, !.link = IF m = halId THEN 2 ELSE @]]
    /\ confused' = (confused \/ Last(list) # halId)
    /\ UNCHANGED <<list, nextId, infoSeq, poster, postQueue, sending, air, wrapped>>

-----------------------------------------------------------------------------
(* The send thread looks the connection up once more, and uses it after the  *)
(* lock is released; what is sent over a record freed meanwhile is lost.     *)
BleSendTake ==
    /\ sending = None /\ postQueue # <<>> /\ postQueue' = Tail(postQueue)
    /\ LET m == Head(postQueue) n == GetBleConnInfoByConnId(m.id)
       IN  sending' = IF n = 0 THEN None ELSE [m EXCEPT !.found = n]
    /\ UNCHANGED <<conns, list, nextId, infoSeq, poster, air, bwork, wrapped, confused>>

(* BlePostBytesInner stores the sequence number in isInner: the module of    *)
(* the first basic information is read from its text, and any other one      *)
(* goes to the characteristic of the network.                                *)
MutantConnChara(m) == "conn"
GetBleAttrHandle(m) == IF m.what = "info" /\ m.seq # 0 THEN "net" ELSE "conn"
SendBleData ==
    /\ sending # None /\ sending' = None
    /\ air' = IF sending.found \in Range(list)
              THEN air \cup {[want |-> sending.want, to |-> sending.found, what |-> sending.what,
                              seq |-> sending.seq, chara |-> GetBleAttrHandle(sending)]}
              ELSE air
    /\ UNCHANGED <<conns, list, nextId, infoSeq, poster, postQueue, bwork, wrapped, confused>>
BleSendPosted == BleSendTake \/ SendBleData

BleConnNext ==
    \/ BleConnectServerCallback \/ BlePostBytesLookup \/ BlePostBytes \/ BleDisconnectDevice \/ BleSendPosted
    \/ \E n \in Range(list) :
        BleDisconnectServerCallback(n) \/ BleOnDataReceived(n) \/ BleMtuChangeCallback(n)

BleConnSpec == BleConnInit /\ [][BleConnNext]_bnVars
(* The send thread and a caller that has looked a connection up go on. *)
BleConnFairness == WF_bnVars(BleSendPosted) /\ WF_bnVars(BlePostBytes)
BleConnLiveSpec == BleConnSpec /\ BleConnFairness

-----------------------------------------------------------------------------
(* Type invariant. *)
BleConnTypeOK ==
    /\ \A i \in DOMAIN list : list[i] \in DOMAIN conns
    /\ \A n \in DOMAIN conns : conns[n].id \in 0..(IdSpace - 1) /\ conns[n].ref <= 1

(* A message reaches another connection than the one its identifier named    *)
(* when it was posted only if that one has been closed meanwhile.            *)
SentToOwn == \A a \in air : a.to = a.want \/ a.want \notin Range(list)

(* The connections of the list have different identifiers until the 16-bit   *)
(* counter of AllocBleConnectionIdLocked has wrapped.                        *)
IdsUnique ==
    ~wrapped => \A i, j \in DOMAIN list : i # j => conns[list[i]].id # conns[list[j]].id

(* A connection fragments by the MTU its own link has agreed on, unless an   *)
(* MTU was announced for a connection that was not the newest one.           *)
MtuFits == ~confused => \A i \in DOMAIN list : conns[list[i]].mtu = conns[list[i]].link

(* But for the first one, the basic information goes out on the              *)
(* characteristic the peer expects it on, and nothing else does.             *)
InfoOnNetChara == \A a \in air : a.seq # 0 => (a.chara = "net" <=> a.what = "info")

Exchanged(n) == n \in DOMAIN conns /\ conns[n].exchanged
InfoSent(n) == \/ n \notin Range(list) \/ Len(list) < Len(conns) \/ wrapped
               \/ \E a \in air : a.what = "info" /\ a.to = n

(* Once a peer's basic information has been read, the own information is     *)
(* sent to it, or a connection has been closed meanwhile.                    *)
InfoAnswered == \A n \in 1..MaxConns : Exchanged(n) ~> InfoSent(n)

-----------------------------------------------------------------------------
(* Fragments over one BLE link (softbus_ble_trans_manager.c): the send       *)
(* thread cuts a message by the MTU, each fragment with its offset, size,    *)
(* total and the sequence number of the message; the receiver puts them      *)
(* together in one of a few caches.  Sending a fragment may fail, which      *)
(* ends the message; the MTU may change between messages.                    *)

CONSTANTS CacheNum,    \* MAX_CACHE_NUM_PER_CONN
          FragSeq,     \* sequence numbers the callers use
          FragLens,    \* lengths of messages
          FragMax,     \* dataLenMax before and after the MTU is agreed
          MaxMsgs, MaxCuts \* messages sent, messages cut off

VARIABLES out,    \* messages sent or begun: [seq, len, sent, cut]
          step,   \* dataLenMax of the message being sent; 0 when none is
          frags,  \* fragments on the link
          cache,  \* recvCache: [used, seq, size, parts]
          handed  \* what was handed up: [seq, total, parts]

ftVars == <<out, step, frags, cache, handed>>

NoCache == [used |-> FALSE, seq |-> 0, size |-> 0, parts |-> {}]
FragInit ==
    /\ out = <<>> /\ step = 0 /\ frags = <<>> /\ handed = {}
    /\ cache = [i \in 1..CacheNum |-> NoCache]

-----------------------------------------------------------------------------
BleTransSend ==
    /\ step = 0 /\ Len(out) < MaxMsgs
    /\ step' \in FragMax
    /\ \E q \in FragSeq, l \in FragLens : out' = Append(out, [seq |-> q, len |-> l, sent |-> 0, cut |-> FALSE])
    /\ UNCHANGED <<frags, cache, handed>>

MutantWholeStep(left) == step
FragLen(left) == IF left > step THEN step ELSE left

(* One round of the loop of BleTransSend, with BleHalSend. *)
SendFragment ==
    /\ step # 0
    /\ LET k == Len(out) m == out[k] n == FragLen(m.len - m.sent)
       IN  /\ frags' = Append(frags, [seq |-> m.seq, size |-> n, offset |-> m.sent, total |-> m.len, of |-> k])
           /\ out' = [out EXCEPT ![k].sent = @ + n]
           /\ step' = IF m.sent + n >= m.len THEN 0 ELSE step
    /\ UNCHANGED <<cache, handed>>
SendFails ==
    /\ step # 0 /\ Cardinality({i \in DOMAIN out : out[i].cut}) < MaxCuts
    /\ out' = [out EXCEPT ![Len(out)].cut = TRUE] /\ step' = 0
    /\ UNCHANGED <<frags, cache, handed>>

-----------------------------------------------------------------------------
GetTransHeader(f) == f.total >= f.size + f.offset

(* The cache of this sequence number, else the first free one, else none. *)
Held(f) == {i \in 1..CacheNum : cache[i].used /\ cache[i].seq = f.seq}
Free == {i \in 1..CacheNum : ~cache[i].used}
First(S) == CHOOSE i \in S : \A j \in S : i <= j
MutantAnyFree(f) == IF Free = {} THEN 0 ELSE First(Free)
CacheFor(f) == IF Held(f) # {} THEN First(Held(f)) ELSE IF Free # {} THEN First(Free) ELSE 0

(* A fragment overwrites what the cache holds at its offset. *)
Put(c, f) ==
    [used |-> TRUE, seq |-> f.seq, size |-> (IF c.used THEN c.size ELSE 0) + f.size,
     parts |-> {p \in (IF c.used THEN c.parts ELSE {}) : p[1] # f.offset} \cup {<<f.offset, f.size, f.of>>}]

MutantAlmost(c, f) == c.size >= f.total - 1
Complete(c, f) == c.size = f.total

MutantStaysUsed(i, c) == cache' = [cache EXCEPT ![i] = c]
BleTransCacheFree(i, c) == cache' = [cache EXCEPT ![i] = NoCache]

(* BleTransRecv, and what BleRequestWriteCallback does with the result. *)
BleTransRecv ==
    /\ frags # <<>> /\ frags' = Tail(frags)
    /\ LET f == Head(frags) i == CacheFor(f)
       IN  IF ~GetTransHeader(f) THEN UNCHANGED <<cache, handed>>
           ELSE IF f.size = f.total
           THEN /\ handed' = handed \cup {[seq |-> f.seq, total |-> f.total, parts |-> {<<0, f.size, f.of>>}]}
                /\ UNCHANGED cache
           ELSE IF i = 0 THEN UNCHANGED <<cache, handed>>
           ELSE LET c == Put(cache[i], f)
                IN  IF Complete(c, f)
                    THEN /\ handed' = handed \cup {[seq |-> f.seq, total |-> f.total, parts |-> c.parts]}
                         /\ BleTransCacheFree(i, c)
                    ELSE cache' = [cache EXCEPT ![i] = c] /\ UNCHANGED handed
    /\ UNCHANGED <<out, step>>

FragNext == BleTransSend \/ SendFragment \/ SendFails \/ BleTransRecv
FragSpec == FragInit /\ [][FragNext]_ftVars

-----------------------------------------------------------------------------
(* Type invariant. *)
FragTypeOK ==
    /\ \A i \in 1..CacheNum : cache[i].used \in BOOLEAN /\ cache[i].size \in Nat
    /\ \A i \in DOMAIN out : out[i].sent <= out[i].len

CutSeqs == {out[i].seq : i \in {j \in DOMAIN out : out[j].cut /\ out[j].sent > 0}}
Whole(h, k) ==
    /\ h.total = out[k].len /\ \A p \in h.parts : p[3] = k
    /\ \A o \in 0..(h.total - 1) : \E p \in h.parts : p[1] <= o /\ o < p[1] + p[2]

(* What is handed up is one message of the sender, whole, unless an earlier  *)
(* message with the same sequence number was cut off: its fragments stay in  *)
(* the cache and are counted with those of the next one.                     *)
HandedWhole == \A h \in handed : h.seq \in CutSeqs \/ \E k \in DOMAIN out : Whole(h, k)

(* As long as fewer messages than there are caches have been cut off, every  *)
(* message sent in full is handed up, once its fragments have arrived.       *)
SentIsHanded ==
    frags = <<>> /\ Cardinality(CutSeqs) < CacheNum =>
        \A k \in DOMAIN out :
            out[k].sent >= out[k].len /\ out[k].seq \notin CutSeqs => \E h \in handed : Whole(h, k)

(* A cache is held only by a message on its way or one that was cut off. *)
CachesFreed ==
    frags = <<>> /\ step = 0 => \A i \in 1..CacheNum : cache[i].used => cache[i].seq \in CutSeqs

-----------------------------------------------------------------------------
(***************************************************************************)
(* The BLE send queue of softbus_ble_connection.c: threads post with       *)
(* BlePostBytes and BlePostBytesInner, and BleSendTask takes the messages  *)
(* off and sends them.  g_sendQueue.queue is the first-in first-out queue  *)
(* that LockFreeQueue implements; the mutex and the condition variable of  *)
(* g_sendQueue are modelled here.                                          *)
(***************************************************************************)

CONSTANTS
  Posters,              \* threads that post
  SendTask,             \* the thread of BleSendTask
  Limit,                \* SEND_QUEUE_UNIT_NUM - 1
  MaxPosts,             \* bound: messages posted
  NULL

VARIABLES
  queue,                \* g_sendQueue.queue
  lock,                 \* the thread that holds g_sendQueue.lock, or NULL
  signalled,            \* g_sendQueue.cond was signalled to a waiting thread
  pc,                   \* where each thread is
  node,                 \* BleSendTask: the message taken, or NULL
  posts                 \* messages allocated so far

sqVars == <<queue, lock, signalled, pc, node, posts>>
Threads == Posters \cup {SendTask}

SendQueueInit ==
  /\ queue = <<>> /\ lock = NULL /\ signalled = FALSE
  /\ pc = [t \in Threads |-> IF t = SendTask THEN "lock" ELSE "idle"]
  /\ node = NULL /\ posts = 0

Goto(t, from, to) == pc[t] = from /\ pc' = [pc EXCEPT ![t] = to]

\* BleEnqueueNonBlock; a message is refused when the queue is full, and the
\* caller returns without a signal.  The slots that the other posters have
\* claimed, and the one BleSendTask has yet to release, count as full.
MutantNoLimit(p) ==
  /\ posts < MaxPosts
  /\ posts' = posts + 1
  /\ Goto(p, "idle", "signal") /\ queue' = Append(queue, posts + 1)
  /\ UNCHANGED <<lock, signalled, node>>
BleEnqueueNonBlock(p) ==
  /\ posts < MaxPosts
  /\ posts' = posts + 1
  /\ \/ /\ Len(queue) < Limit
        /\ Goto(p, "idle", "signal") /\ queue' = Append(queue, posts + 1)
     \/ /\ Len(queue) + Cardinality(Posters) >= Limit
        /\ Goto(p, "idle", "idle") /\ UNCHANGED queue
  /\ UNCHANGED <<lock, signalled, node>>

\* The rest of BlePostBytes: signal with the lock held.
MutantSignalUnlocked(p) ==
  /\ Goto(p, "signal", "idle")
  /\ signalled' = (signalled \/ pc[SendTask] = "waiting")
  /\ UNCHANGED <<queue, lock, node, posts>>
SignalPosted(p) ==
  /\ lock = NULL
  /\ Goto(p, "signal", "idle")
  /\ signalled' = (signalled \/ pc[SendTask] = "waiting")
  /\ UNCHANGED <<queue, lock, node, posts>>

------------------------------------------------------------------------------
\* BleDequeueBlock.  The lock is not recursive: a thread that takes it twice
\* waits for itself.
LockQueue ==
  /\ lock = NULL
  /\ Goto(SendTask, "lock", "test") /\ lock' = SendTask
  /\ UNCHANGED <<queue, signalled, node, posts>>

\* When there is something to send the code goes on without unlocking.
QueueTest ==
  /\ \/ queue = <<>> /\ Goto(SendTask, "test", "wait")
     \/ queue # <<>> /\ Goto(SendTask, "test", "dequeue")
  /\ UNCHANGED <<queue, lock, signalled, node, posts>>

CondWait ==
  /\ Goto(SendTask, "wait", "waiting") /\ lock' = NULL
  /\ UNCHANGED <<queue, signalled, node, posts>>

\* pthread_cond_wait returns, with a signal or spuriously, and the code unlocks.
WakeUp ==
  /\ lock = NULL
  /\ Goto(SendTask, "waiting", "dequeue") /\ signalled' = FALSE
  /\ UNCHANGED <<queue, lock, node, posts>>

\* QueueSingleConsumerDequeue, and the test of BleSendTask.
MutantDropsNode ==
  /\ Goto(SendTask, "dequeue", "lock")
  /\ queue' = IF queue = <<>> THEN <<>> ELSE Tail(queue)
  /\ UNCHANGED <<lock, signalled, node, posts>>
Dequeue ==
  /\ \/ /\ queue = <<>> /\ Goto(SendTask, "dequeue", "lock")
        /\ UNCHANGED <<queue, node>>
     \/ /\ queue # <<>> /\ Goto(SendTask, "dequeue", "send")
        /\ node' = Head(queue) /\ queue' = Tail(queue)
  /\ UNCHANGED <<lock, signalled, posts>>

\* SendBleData succeeds or fails; FreeSendNode either way.
Send ==
  /\ Goto(SendTask, "send", "lock") /\ node' = NULL
  /\ UNCHANGED <<queue, lock, signalled, posts>>

BleSendTask ==
  LockQueue \/ QueueTest \/ CondWait \/ Dequeue \/ Send

SendQueueNext ==
  \/ \E p \in Posters : BleEnqueueNonBlock(p) \/ SignalPosted(p)
  \/ BleSendTask \/ WakeUp

SendQueueSpec == SendQueueInit /\ [][SendQueueNext]_sqVars

\* Threads run; a free lock is obtained by a thread that asks for it again and
\* again; a signalled wait returns.
SignalledWakeUp == signalled /\ WakeUp
SendQueueFairSpec ==
  /\ SendQueueSpec
  /\ \A p \in Posters : SF_sqVars(SignalPosted(p))
  /\ SF_sqVars(BleSendTask)
  /\ SF_sqVars(SignalledWakeUp)

------------------------------------------------------------------------------
SendQueueTypeOK ==
  /\ queue \in Seq(1 .. MaxPosts) /\ Len(queue) <= Limit
  /\ lock \in {NULL, SendTask}
  /\ signalled \in BOOLEAN
  /\ pc \in [Threads -> {"idle", "signal", "lock", "test", "wait", "waiting",
                         "dequeue", "send"}]
  /\ node \in 1 .. MaxPosts \cup {NULL}
  /\ posts \in 0 .. MaxPosts

\* BleSendTask never sleeps on a message: while it waits with something queued
\* either it has been signalled or a poster has still to signal it.
NoLostWakeup ==
  pc[SendTask] = "waiting" /\ queue # <<>> =>
    signalled \/ \E p \in Posters : pc[p] = "signal"

\* BleDequeueBlock returned with the lock held, so the next call of
\* BleDequeueBlock, and every poster, waits for ever.
LockLeft ==
  lock = SendTask /\ pc[SendTask] \in {"dequeue", "send", "lock"}

Queued(n) == \E i \in 1 .. Len(queue) : queue[i] = n
SentOrLocked(n) == node = n \/ LockLeft

\* A message the queue accepted is taken off and sent, or BleDequeueBlock has
\* met a queue that was not empty and left the lock locked: that is the only
\* way in which BlePostBytes and BleSendTask come to a stop.
SentUnlessLockLeft == \A n \in 1 .. MaxPosts : Queued(n) ~> SentOrLocked(n)

=============================================================================
