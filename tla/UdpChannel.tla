----------------------------- MODULE UdpChannel -----------------------------
(* UDP channels: the negotiation between the two services, and the channels
   and file sessions of the client. Each section has variables of its own;
   their specifications are checked side by side. *)
EXTENDS Integers, Sequences, FiniteSets, FiniteSetsExt

-----------------------------------------------------------------------------
(***************************************************************************)
(* The negotiation that opens and closes a UDP channel between the         *)
(* services of two devices (trans_udp_negotiation.c, _exchange.c,          *)
(* trans_udp_channel_manager.c), and what it tells the applications        *)
(* (client_trans_udp_manager.c).                                           *)
(*                                                                         *)
(* A channel has an id of its device, reused after its end, and knows the  *)
(* peer's id from the exchange.  Requests and replies carry the sequence   *)
(* number of the requester, here the number n of the negotiation: a device *)
(* looks up its own channels only, and its numbers are distinct.           *)
(* Messages between two devices are in order; a lost connection loses all  *)
(* of them.  API threads, the receiving thread and the timer interleave.   *)
(***************************************************************************)

CONSTANTS Dev,        \* two devices
          UdpOpener,  \* those whose applications open channels
          UdpCloser,  \* and those whose applications close them
          UdpThread,  \* threads of a device that open and close channels
          MaxIds,     \* MAX_CHANNEL_ID_COUNT
          MaxNegs,    \* negotiations
          MaxFaults,  \* failures of the connection, of a post, of an application
          UdpNil      \* nothing

VARIABLES uchan,      \* uchan[d][id]: the channel of the service's list
          ubits,      \* ubits[d]: g_channelIdFlagBitsMap
          uapp,       \* uapp[d][id]: the negotiation of the application's channel
          unet,       \* unet[d]: messages to d
          uthread,    \* uthread[d][t]: an open or close under way
          urecv,      \* urecv[d]: a message being handled
          utold,      \* utold[n]: what the application that opens was told
          ustat       \* negotiations begun, failures, and what went wrong

udVars == <<uchan, ubits, uapp, unet, uthread, urecv, utold, ustat>>

Neg == 1 .. MaxNegs
AGAIN == MaxNegs + 1 \* a request to open sent for a channel a second time; bound: one
Ids == 0 .. MaxIds - 1
INVALID_ID == -1
AllIds == Ids \cup {INVALID_ID}
Peer(d) == CHOOSE e \in Dev : e # d

UdpInit ==
    /\ uchan = [d \in Dev |-> [i \in AllIds |-> UdpNil]] /\ ubits = [d \in Dev |-> {}]
    /\ uapp = [d \in Dev |-> [i \in AllIds |-> UdpNil]] /\ unet = [d \in Dev |-> <<>>]
    /\ uthread = [d \in Dev |-> [t \in UdpThread |-> UdpNil]] /\ urecv = [d \in Dev |-> UdpNil]
    /\ utold = [n \in Neg |-> {}]
    /\ ustat = [begun |-> 0, by |-> [n \in Neg |-> UdpNil], again |-> <<>>, faults |-> 0, late |-> {}, undone |-> {},
              forgotten |-> {}, freed |-> {}, blind |-> {}, astray |-> {}, unsaid |-> {}]

-----------------------------------------------------------------------------
(* The list of channels and the ids. *)

\* GenerateUdpChannelId.
GenerateUdpChannelId(d) == IF Ids \subseteq ubits[d] THEN INVALID_ID ELSE Min(Ids \ ubits[d])

\* ReleaseUdpChannelId.
ReleaseUdpChannelId(B, id) == B \ {id}

Entry(n, status, opt, peer, server) == [n |-> n, status |-> status, opt |-> opt, peer |-> peer, server |-> server]

\* Channels with the sequence number: at most one.
BySeq(d, n) == {i \in AllIds : uchan[d][i] # UdpNil /\ (uchan[d][i]).n = n}

MutantStaysListed(d, id) == uchan' = uchan /\ ubits' = [ubits EXCEPT ![d] = ReleaseUdpChannelId(@, id)]

\* TransDelUdpChannel; the id of no channel is left alone.
TransDelUdpChannel(d, id) ==
    /\ uchan' = [uchan EXCEPT ![d][id] = UdpNil]
    /\ ubits' = [ubits EXCEPT ![d] = IF uchan[d][id] = UdpNil THEN @ ELSE ReleaseUdpChannelId(@, id)]

\* The channel of d that a number is about: the requester's own, also the second time.
Own(d, n) == IF n = AGAIN /\ d = ustat.again[1] THEN ustat.again[2] ELSE n

Told(d, n, what) == IF n \in Neg /\ ustat.by[n] = d THEN [utold EXCEPT ![n] = @ \cup {what}] ELSE utold

\* Something of the surroundings fails.
Fault(s) == s.faults < MaxFaults
Failed(s) == [s EXCEPT !.faults = @ + 1]

\* NotifyUdpChannelOpenFailed, TransOnUdpChannelOpenFailed.
NotifyFailed(d, id, n) ==
    /\ uapp' = [uapp EXCEPT ![d][id] = UdpNil] /\ utold' = Told(d, n, "failed")

\* NotifyUdpChannelClosed, TransOnUdpChannelClosed.
NotifyClosed(d, id) ==
    uapp' = [uapp EXCEPT ![d][id] = UdpNil] /\ UNCHANGED utold

\* It fails when the application's process or session server is gone.
NotifyClosedFails == Fault(ustat) /\ ustat' = Failed(ustat) /\ UNCHANGED <<uapp, utold>>

\* NotifyUdpChannelOpened, TransOnUdpChannelOpened: the application has no such
\* channel and can start its stream or file session.
NotifyOpened(d, id, n) ==
    /\ uapp[d][id] = UdpNil
    /\ uapp' = [uapp EXCEPT ![d][id] = n] /\ utold' = Told(d, n, "opened")

-----------------------------------------------------------------------------
(* Opening: TransOpenUdpChannel. *)

At(pc, id, n, opt, peer) == [pc |-> pc, id |-> id, n |-> n, opt |-> opt, peer |-> peer]

\* PrepareAppInfoForUdpOpen, GenerateSeq.
OpenPrepare(d, t) ==
    LET id == GenerateUdpChannelId(d)  n == ustat.begun + 1 IN
    /\ d \in UdpOpener /\ uthread[d][t] = UdpNil /\ n \in Neg /\ id # INVALID_ID
    /\ ubits' = [ubits EXCEPT ![d] = @ \cup {id}] /\ ustat' = [ustat EXCEPT !.begun = n, !.by[n] = d]
    /\ uthread' = [uthread EXCEPT ![d][t] = At("add", id, n, "open", 0)]
    /\ UNCHANGED <<uchan, uapp, unet, urecv, utold>>

\* TransAddUdpChannel.
OpenAdd(d, t) ==
    LET c == uthread[d][t] IN
    /\ c # UdpNil /\ c.pc = "add"
    /\ IF uchan[d][c.id] # UdpNil
       THEN /\ ubits' = [ubits EXCEPT ![d] = ReleaseUdpChannelId(@, c.id)] /\ UNCHANGED uchan
            /\ uthread' = [uthread EXCEPT ![d][t] = UdpNil]
       ELSE /\ uchan' = [uchan EXCEPT ![d][c.id] = Entry(c.n, "init", "open", UdpNil, FALSE)] /\ UNCHANGED ubits
            /\ uthread' = [uthread EXCEPT ![d][t] = [c EXCEPT !.pc = "post"]]
    /\ UNCHANGED <<uapp, unet, urecv, utold, ustat>>

\* OpenAuthConnForUdpNegotiation failed: the id is released, then with the channel again.
OpenRelease(d, t) ==
    LET c == uthread[d][t] IN
    /\ Fault(ustat) /\ c # UdpNil /\ c.pc = "post"
    /\ ubits' = [ubits EXCEPT ![d] = ReleaseUdpChannelId(@, c.id)]
    /\ uthread' = [uthread EXCEPT ![d][t] = [c EXCEPT !.pc = "undo"]]
    /\ ustat' = [Failed(ustat) EXCEPT !.freed = @ \cup {<<d, c.id>>}]
    /\ UNCHANGED <<uchan, uapp, unet, urecv, utold>>

OpenUndo(d, t) ==
    LET c == uthread[d][t] IN
    /\ c # UdpNil /\ c.pc = "undo" /\ TransDelUdpChannel(d, c.id)
    /\ uthread' = [uthread EXCEPT ![d][t] = UdpNil]
    /\ UNCHANGED <<uapp, unet, urecv, utold, ustat>>

-----------------------------------------------------------------------------
(* Closing: ClientTransCloseUdpChannel, TransCloseUdpChannel. *)

\* TransSetUdpChannelOptType: fails when the channel is told, but not listed yet.
CloseSetOpt(d, t, id) ==
    /\ d \in UdpCloser /\ uthread[d][t] = UdpNil /\ uapp[d][id] # UdpNil
    /\ uapp' = [uapp EXCEPT ![d][id] = UdpNil]
    /\ IF uchan[d][id] = UdpNil
       THEN ustat' = [ustat EXCEPT !.forgotten = @ \cup {<<d, uapp[d][id]>>}] /\ UNCHANGED <<uchan, uthread>>
       ELSE /\ uchan' = [uchan EXCEPT ![d][id].opt = "close"]
            /\ uthread' = [uthread EXCEPT ![d][t] = At("copy", id, 0, "close", 0)]
            /\ UNCHANGED ustat
    /\ UNCHANGED <<ubits, unet, urecv, utold>>

\* TransGetUdpChannelById.  When the channel's type was set back in between, or the
\* id is another channel's by now, the request that follows is one to open.
CloseCopy(d, t) ==
    LET c == uthread[d][t]  e == uchan[d][c.id] IN
    /\ c # UdpNil /\ c.pc = "copy"
    /\ \/ e = UdpNil /\ uthread' = [uthread EXCEPT ![d][t] = UdpNil] /\ UNCHANGED ustat
       \/ /\ e # UdpNil /\ e.opt = "close"
          /\ uthread' = [uthread EXCEPT ![d][t] = At("closing", c.id, e.n, "close", e.peer)]
          /\ ustat' = IF e.peer = UdpNil THEN [ustat EXCEPT !.blind = @ \cup {e.n}] ELSE ustat
       \/ /\ e # UdpNil /\ e.opt = "open" /\ ustat.again = <<>>
          /\ uthread' = [uthread EXCEPT ![d][t] = At("closing", c.id, AGAIN, "open", e.peer)]
          /\ ustat' = [ustat EXCEPT !.again = <<d, e.n>>]
    /\ UNCHANGED <<uchan, ubits, uapp, unet, urecv, utold>>

\* The request could not be posted: nobody ends the channel any more.
CloseFails(d, t) ==
    LET c == uthread[d][t] IN
    /\ Fault(ustat) /\ c # UdpNil /\ c.pc = "closing"
    /\ uthread' = [uthread EXCEPT ![d][t] = UdpNil]
    /\ ustat' = [Failed(ustat) EXCEPT !.forgotten = @ \cup {<<d, Own(d, c.n)>>}]
    /\ UNCHANGED <<uchan, ubits, uapp, unet, urecv, utold>>

-----------------------------------------------------------------------------
(* The exchange. *)

MutantOwnId(c) == c.id

\* TransPackRequestUdpInfo: the channel that the request is about, the sender's
\* own when it opens and the receiver's when it closes (0 when not known).
RequestId(c) == IF c.opt = "open" THEN c.id ELSE IF c.peer = UdpNil THEN 0 ELSE c.peer

\* StartExchangeUdpInfo: AuthPostData.
Post(d, t) ==
    LET c == uthread[d][t] IN
    /\ c # UdpNil /\ c.pc \in {"post", "closing"}
    /\ unet' = [unet EXCEPT ![Peer(d)] =
                    Append(@, [reply |-> FALSE, opt |-> c.opt, n |-> c.n, id |-> RequestId(c)])]
    /\ uthread' = [uthread EXCEPT ![d][t].pc = "neging"]
    /\ UNCHANGED <<uchan, ubits, uapp, urecv, utold, ustat>>

MutantNoStatus(e) == e

\* TransSetUdpChannelStatus.
Neging(e) == [e EXCEPT !.status = "neging"]

SetNeging(d, t) ==
    LET c == uthread[d][t]  own == BySeq(d, Own(d, c.n)) IN
    /\ c # UdpNil /\ c.pc = "neging"
    /\ uchan' = [uchan EXCEPT ![d] = [i \in AllIds |-> IF i \in own THEN Neging(@[i]) ELSE @[i]]]
    /\ uthread' = [uthread EXCEPT ![d][t] = UdpNil]
    /\ ustat' = IF c.opt = "open" /\ \E i \in own : (uchan[d][i]).status = "done"
                THEN [ustat EXCEPT !.late = @ \cup {<<d, Own(d, c.n)>>}] ELSE ustat
    /\ UNCHANGED <<ubits, uapp, unet, urecv, utold>>

\* TransOnExchangeUdpInfo: a request to open.
RecvOpen(d) ==
    /\ urecv[d] = UdpNil /\ unet[d] # <<>> /\ ~Head(unet[d]).reply /\ Head(unet[d]).opt = "open"
    /\ LET m == Head(unet[d])  id == GenerateUdpChannelId(d) IN
       /\ ubits' = [ubits EXCEPT ![d] = (@ \cup {id}) \cap Ids]
       /\ urecv' = [urecv EXCEPT ![d] = At("accept", id, m.n, "open", m.id)]
    /\ unet' = [unet EXCEPT ![d] = Tail(@)]
    /\ UNCHANGED <<uchan, uapp, uthread, utold, ustat>>

\* AcceptUdpChannelAsServer: the application takes the channel, or not.
Accept(d) ==
    LET c == urecv[d] IN
    /\ c # UdpNil /\ c.pc = "accept"
    /\ \/ /\ NotifyOpened(d, c.id, c.n) /\ UNCHANGED <<ubits, ustat>>
          /\ urecv' = [urecv EXCEPT ![d].pc = "add"]
       \/ /\ uapp[d][c.id] # UdpNil \/ Fault(ustat)
          /\ ustat' = IF uapp[d][c.id] # UdpNil THEN ustat ELSE Failed(ustat)
          /\ ubits' = [ubits EXCEPT ![d] = ReleaseUdpChannelId(@, c.id)]
          /\ urecv' = [urecv EXCEPT ![d] = UdpNil] /\ UNCHANGED <<uapp, utold>>
    /\ UNCHANGED <<uchan, unet, uthread>>

\* TransAddUdpChannel; an id already listed ends the listed channel.
AcceptAdd(d) ==
    LET c == urecv[d] IN
    /\ c # UdpNil /\ c.pc = "add"
    /\ IF uchan[d][c.id] # UdpNil
       THEN /\ ubits' = [ubits EXCEPT ![d] = ReleaseUdpChannelId(@, c.id)] /\ NotifyFailed(d, c.id, c.n)
            /\ urecv' = [urecv EXCEPT ![d].pc = "delete"] /\ UNCHANGED uchan
       ELSE /\ uchan' = [uchan EXCEPT ![d][c.id] = Entry(c.n, "init", "open", c.peer, TRUE)]
            /\ urecv' = [urecv EXCEPT ![d].pc = "reply"] /\ UNCHANGED <<ubits, uapp, utold>>
    /\ UNCHANGED <<unet, uthread, ustat>>

\* SendReplyUdpInfo, or ProcessAbnormalUdpChannelState.
AcceptReply(d) ==
    LET c == urecv[d] IN
    /\ c # UdpNil /\ c.pc = "reply"
    /\ \/ /\ unet' = [unet EXCEPT ![Peer(d)] = Append(@, [reply |-> TRUE, opt |-> "open", n |-> c.n, id |-> c.id])]
          /\ urecv' = [urecv EXCEPT ![d] = UdpNil] /\ UNCHANGED <<uapp, utold, ustat>>
       \/ /\ Fault(ustat) /\ ustat' = Failed(ustat) /\ NotifyFailed(d, c.id, c.n)
          /\ urecv' = [urecv EXCEPT ![d].pc = "delete"] /\ UNCHANGED unet
    /\ UNCHANGED <<uchan, ubits, uthread>>

\* A request to close: CloseUdpChannel.  When the application cannot be told, the
\* channel stays and the requester gets no reply.
RecvClose(d) ==
    /\ urecv[d] = UdpNil /\ unet[d] # <<>> /\ ~Head(unet[d]).reply /\ Head(unet[d]).opt = "close"
    /\ LET m == Head(unet[d])  e == uchan[d][m.id] IN
       \/ /\ NotifyClosed(d, m.id)
          /\ urecv' = [urecv EXCEPT ![d] = At("delete", m.id, m.n, "close", 0)]
          /\ ustat' = IF e # UdpNil /\ BySeq(d, m.n) # {} /\ m.id \notin BySeq(d, m.n)
                      THEN [ustat EXCEPT !.astray = @ \cup {m.n}]
                      ELSE IF e # UdpNil /\ e.n \in Neg /\ utold[e.n] = {}
                      THEN [ustat EXCEPT !.unsaid = @ \cup {e.n}] ELSE ustat
       \/ NotifyClosedFails /\ UNCHANGED urecv
    /\ unet' = [unet EXCEPT ![d] = Tail(@)]
    /\ UNCHANGED <<uchan, ubits, uthread>>

\* TransDelUdpChannel, after the application was told.  Only a close that found
\* the channel is answered, when SendReplyUdpInfo does not fail.
Delete(d) ==
    LET c == urecv[d]
        reply == [reply |-> TRUE, opt |-> "close", n |-> c.n, id |-> 0]
    IN  /\ c # UdpNil /\ c.pc \in {"delete", "deleteOwn"} /\ TransDelUdpChannel(d, c.id)
        /\ urecv' = [urecv EXCEPT ![d] = IF c.pc = "delete" THEN UdpNil ELSE [c EXCEPT !.pc = "update"]]
        /\ IF c.pc = "delete" /\ c.opt = "close" /\ uchan[d][c.id] # UdpNil
           THEN \/ unet' = [unet EXCEPT ![Peer(d)] = Append(@, reply)] /\ UNCHANGED ustat
                \/ Fault(ustat) /\ ustat' = Failed(ustat) /\ UNCHANGED unet
           ELSE UNCHANGED <<unet, ustat>>
        /\ UNCHANGED <<uapp, uthread, utold>>

\* A reply: TransSetUdpChannelStatus.
RecvReply(d) ==
    /\ urecv[d] = UdpNil /\ unet[d] # <<>> /\ Head(unet[d]).reply
    /\ LET m == Head(unet[d])  own == BySeq(d, Own(d, m.n)) IN
       /\ uchan' = [uchan EXCEPT ![d] = [i \in AllIds |-> IF i \in own THEN [@[i] EXCEPT !.status = "done"] ELSE @[i]]]
       /\ urecv' \in IF own = {} THEN {urecv}
                    ELSE {[urecv EXCEPT ![d] = At("get", i, Own(d, m.n), m.opt, m.id)] : i \in own}
    /\ unet' = [unet EXCEPT ![d] = Tail(@)]
    /\ UNCHANGED <<ubits, uapp, uthread, utold, ustat>>

\* TransGetUdpChannelBySeq, and TransUnpackReplyUdpInfo by the type of the copy,
\* which is one of the two it knows.
GetBySeq(d) ==
    LET c == urecv[d] IN
    /\ c # UdpNil /\ c.pc = "get"
    /\ IF BySeq(d, c.n) = {} THEN urecv' = [urecv EXCEPT ![d] = UdpNil]
       ELSE \E i \in BySeq(d, c.n) : LET e == uchan[d][i] IN
            urecv' = [urecv EXCEPT ![d] =
                IF e.opt = "open" THEN At("opened", i, c.n, "open", IF c.opt = "open" THEN c.peer ELSE e.peer)
                ELSE At("closed", i, c.n, "close", e.peer)]
    /\ UNCHANGED <<uchan, ubits, uapp, unet, uthread, utold, ustat>>

\* AcceptUdpChannelAsClient, or ProcessAbnormalUdpChannelState.
Opened(d) ==
    LET c == urecv[d] IN
    /\ c # UdpNil /\ c.pc = "opened"
    /\ \/ /\ NotifyOpened(d, c.id, c.n) /\ UNCHANGED ustat
          /\ urecv' = [urecv EXCEPT ![d].pc = "update"]
       \/ /\ uapp[d][c.id] # UdpNil \/ Fault(ustat)
          /\ ustat' = IF uapp[d][c.id] # UdpNil THEN ustat ELSE Failed(ustat)
          /\ NotifyFailed(d, c.id, c.n) /\ urecv' = [urecv EXCEPT ![d].pc = "deleteOwn"]
    /\ UNCHANGED <<uchan, ubits, unet, uthread>>

MutantKeepsPeer(e, c) == [e EXCEPT !.opt = c.opt]

\* TransUpdateUdpChannelInfo: the copy, with the peer's id, replaces what is listed.
Updated(e, c) == [e EXCEPT !.opt = c.opt, !.peer = c.peer]

Update(d) ==
    LET c == urecv[d] IN
    /\ c # UdpNil /\ c.pc = "update"
    /\ uchan' = [uchan EXCEPT ![d] = [i \in AllIds |->
            IF i \in BySeq(d, c.n) THEN Updated(@[i], c) ELSE @[i]]]
    /\ ustat' = IF c.opt = "open" /\ \E i \in BySeq(d, c.n) : (uchan[d][i]).opt = "close"
                THEN [ustat EXCEPT !.undone = @ \cup {<<d, c.n>>}] ELSE ustat
    /\ urecv' = [urecv EXCEPT ![d] = UdpNil]
    /\ UNCHANGED <<ubits, uapp, unet, uthread, utold>>

\* CloseUdpChannel of the requester.  When the application cannot be told, the
\* channel stays, and no timer ends it any more.
Closed(d) ==
    LET c == urecv[d] IN
    /\ c # UdpNil /\ c.pc = "closed"
    /\ \/ NotifyClosed(d, c.id) /\ UNCHANGED ustat /\ urecv' = [urecv EXCEPT ![d].pc = "deleteOwn"]
       \/ /\ Fault(ustat) /\ ustat' = [Failed(ustat) EXCEPT !.forgotten = @ \cup {<<d, c.n>>}]
          /\ urecv' = [urecv EXCEPT ![d].pc = "update"] /\ UNCHANGED <<uapp, utold>>
    /\ UNCHANGED <<uchan, ubits, unet, uthread>>

-----------------------------------------------------------------------------
(* The timer, the applications, the connection. *)

MutantAnyStatus(e) == TRUE

\* TransUdpTimerProc: waiting for a reply for MAX_WAIT_CONNECT_TIME.
Waits(e) == e.status = "neging"

TimerProc(d, id) ==
    LET e == uchan[d][id] IN
    /\ e # UdpNil /\ Waits(e)
    /\ IF e.opt = "open" THEN NotifyFailed(d, id, e.n) ELSE NotifyClosed(d, id)
    /\ uchan' = [uchan EXCEPT ![d][id] = UdpNil]
    /\ ubits' = [ubits EXCEPT ![d] = ReleaseUdpChannelId(@, id)]
    /\ UNCHANGED <<unet, uthread, urecv, ustat>>

\* DFILE_ON_CONNECT_FAIL, DFILE_ON_FATAL_ERROR: the application's channel ends;
\* the service is not told.
FileFails(d, id) ==
    /\ Fault(ustat) /\ uapp[d][id] # UdpNil /\ NotifyClosed(d, id)
    /\ ustat' = [Failed(ustat) EXCEPT !.forgotten = @ \cup {<<d, uapp[d][id]>>}]
    /\ UNCHANGED <<uchan, ubits, unet, uthread, urecv>>

LoseConnection ==
    /\ Fault(ustat) /\ \E d \in Dev : unet[d] # <<>>
    /\ unet' = [d \in Dev |-> <<>>] /\ ustat' = Failed(ustat)
    /\ UNCHANGED <<uchan, ubits, uapp, uthread, urecv, utold>>

-----------------------------------------------------------------------------
ThreadStep(d, t) ==
    \/ OpenAdd(d, t) \/ OpenRelease(d, t) \/ OpenUndo(d, t)
    \/ CloseCopy(d, t) \/ CloseFails(d, t) \/ Post(d, t) \/ SetNeging(d, t)

RecvStep(d) ==
    \/ RecvOpen(d) \/ Accept(d) \/ AcceptAdd(d) \/ AcceptReply(d) \/ RecvClose(d)
    \/ Delete(d) \/ RecvReply(d) \/ GetBySeq(d) \/ Opened(d) \/ Update(d) \/ Closed(d)

UdpNext ==
    \/ \E d \in Dev, t \in UdpThread :
        ThreadStep(d, t) \/ OpenPrepare(d, t) \/ \E id \in AllIds : CloseSetOpt(d, t, id)
    \/ \E d \in Dev : RecvStep(d) \/ \E id \in AllIds : TimerProc(d, id) \/ FileFails(d, id)
    \/ LoseConnection

\* The threads run, and the timer is called every second.
UdpFairness ==
    \A d \in Dev : /\ WF_udVars(RecvStep(d)) /\ \A t \in UdpThread : WF_udVars(ThreadStep(d, t))
                   /\ \A id \in AllIds : WF_udVars(TimerProc(d, id))

UdpSpec == UdpInit /\ [][UdpNext]_udVars
UdpLiveSpec == UdpSpec /\ UdpFairness

-----------------------------------------------------------------------------
(* Properties. *)

\* A thread or the receiving thread of the device is at the channel.
InHand(d, id) ==
    \/ urecv[d] # UdpNil /\ (urecv[d]).id = id
    \/ \E t \in UdpThread : uthread[d][t] # UdpNil /\ (uthread[d][t]).id = id

\* The type of every variable.
UdpTypeOK ==
    /\ \A d \in Dev : /\ ubits[d] \subseteq Ids /\ \A id \in AllIds : uapp[d][id] \in 1 .. AGAIN \cup {UdpNil}
                      /\ \A id \in AllIds : uchan[d][id] # UdpNil => (uchan[d][id]).peer \in AllIds \cup {UdpNil}
    /\ ustat.begun \in 0 .. MaxNegs

\* The opener's application is told one outcome, unless the reply overtook the
\* opener's note that it waits for one, or undid the close of an application that
\* was quicker than TransUpdateUdpChannelInfo, or a close that found another channel
\* at its id asked a second time to open that one.
OneOutcome ==
    \A d \in Dev, n \in Neg :
        (ustat.by[n] = d /\ {"opened", "failed"} \subseteq utold[n]) =>
            <<d, n>> \in ustat.late \cup ustat.undone \cup {ustat.again}

\* A listed channel is the application's, or waits for a reply under the timer, or
\* is worked at; the others were left by an application whose file session failed,
\* whose request to close could not be sent, or that closed what was not listed yet.
NothingForgotten ==
    \A d \in Dev, id \in AllIds : LET e == uchan[d][id] IN
        e # UdpNil => \/ uapp[d][id] = e.n \/ e.status = "neging" \/ InHand(d, id)
                      \/ <<d, e.n>> \in ustat.forgotten

\* The id of a listed channel is not given to another one, unless an open failed
\* that had the id and released it twice.
IdsHeld ==
    \A d \in Dev, id \in Ids : uchan[d][id] # UdpNil => id \in ubits[d] \/ <<d, id>> \in ustat.freed

\* Both ends of a channel that both applications use name each other, unless the
\* channel was asked for a second time.
EndsAgree ==
    \A d \in Dev, id \in AllIds : LET e == uchan[d][id] IN
        (/\ e # UdpNil /\ ~InHand(d, id) /\ e.status # "neging" /\ e.opt = "open"
         /\ uapp[d][id] = e.n /\ <<d, e.n>> # ustat.again) =>
            \A i \in AllIds : uapp[Peer(d)][i] = e.n => e.peer = i

\* A request to close ends the other end of its own channel while that is there,
\* unless it was sent before the peer's id was recorded or for a channel that was
\* asked for a second time.
CloseHitsOwn == \A n \in ustat.astray : n \in ustat.blind \/ \E d \in Dev : <<d, n>> = ustat.again

OpenPosted(d, t, n) == uthread[d][t] # UdpNil /\ (uthread[d][t]).pc = "neging" /\ (uthread[d][t]).n = n
OpenHeard(n) == utold[n] # {} \/ n \in ustat.unsaid

\* An open whose request was posted is answered to the application, unless the
\* peer's application closed the channel before the reply came.
OpenAnswered == \A d \in Dev, t \in UdpThread, n \in Neg : OpenPosted(d, t, n) ~> OpenHeard(n)

-----------------------------------------------------------------------------
(***************************************************************************)
(* UDP channels in an application (client_trans_udp_manager.c) and their   *)
(* file sessions (client_trans_file.c, client_trans_file_listener.c).      *)
(*                                                                         *)
(* The service calls in from its IPC threads, the file transfer library    *)
(* from its own, the application from any.  A channel is told to the       *)
(* application when its file session is connected; the library's events    *)
(* name the session, whose number is recorded in the channel only after    *)
(* the session was started.  Streams end at the same calls and are left    *)
(* out.  Sessions of the library are not numbered twice.                   *)
(***************************************************************************)

CONSTANTS UcId,       \* channel ids of the service
          MaxSessions,\* file sessions
          UcName,     \* session names with a file listener
          UcNil       \* nothing

VARIABLES ulist,      \* ulist[id]: the listed channel
          uopen,      \* uopen[id]: TransOnUdpChannelOpened under way
          dfile,      \* dfile[f]: a file session of the library
          uheard,     \* uheard[id]: what the application was told of the channel last,
                      \* "late" when that it is opened after it went
          flist,      \* flist[s]: the file listener of a name
          ubad        \* a freed record was used

ucVars == <<ulist, uopen, dfile, uheard, flist, ubad>>

Files == 1 .. MaxSessions

NoSession == [state |-> "none", chan |-> UcNil, said |-> {}, left |-> FALSE, tells |-> "nothing"]

UdpClientInit ==
    /\ ulist = [i \in UcId |-> UcNil] /\ uopen = [i \in UcId |-> UcNil]
    /\ dfile = [f \in Files |-> NoSession]
    /\ uheard = [i \in UcId |-> "nothing"] /\ flist = [s \in UcName |-> "none"] /\ ubad = {}

-----------------------------------------------------------------------------
(* The list of channels. *)

\* TransGetUdpChannelByFileId.
ByFile(f) == {i \in UcId : ulist[i] # UcNil /\ (ulist[i]).dfileId = f}

MutantNotEnabled(c) == c

\* TransSetUdpChannelEnable.
Enabled(c) == [c EXCEPT !.isEnable = TRUE]

\* OnUdpChannelOpened, first part: the channel is looked up and enabled; what the
\* caller does next when it is there.
Enable(i, there, gone) ==
    IF ulist[i] = UcNil THEN gone /\ UNCHANGED ulist ELSE there /\ ulist' = [ulist EXCEPT ![i] = Enabled(@)]

\* Second part, outside the lock: OnSessionOpened.
OnSessionOpened(i, tells) ==
    uheard' = [uheard EXCEPT ![i] = IF tells = "sayLate" THEN "late" ELSE "opened"]

\* A channel goes: who is about to tell that it is opened is late, and may tell it of
\* the next channel with the same id.
Late(x) == IF x = "say" THEN "sayLate" ELSE IF x = "enable" THEN "enableLate" ELSE x

ThenSay(x) == IF x = "enable" THEN "say" ELSE "sayLate"

Unlisted(i, D) ==
    /\ ulist' = [ulist EXCEPT ![i] = UcNil]
    /\ dfile' = [f \in Files |-> IF D[f].chan = i THEN [D[f] EXCEPT !.tells = Late(@)] ELSE D[f]]

Gone(i, D) ==
    /\ Unlisted(i, D)
    /\ uopen' = IF uopen[i] = UcNil THEN uopen ELSE [uopen EXCEPT ![i].pc = Late(@)]

MutantSessionStays(D, f) == D

\* TransCloseFileChannel.
FileClosed(D, f) == IF f = 0 THEN D ELSE [D EXCEPT ![f] = [NoSession EXCEPT !.state = "closed", !.chan = D[f].chan, !.tells = D[f].tells]]

\* The file session that TransOnUdpChannelOpened has just started for the channel.
Starting(i) == IF uopen[i] = UcNil THEN 0 ELSE (uopen[i]).file

\* Nobody closes a session whose channel goes before its number is recorded.
Left(D, i) == IF Starting(i) = 0 THEN D ELSE [D EXCEPT ![Starting(i)].left = TRUE]

\* CloseUdpChannel: TransGetUdpChannel, TransDeleteUdpChannel, TransCloseFileChannel.
CloseUdpChannel(i) ==
    ulist[i] # UcNil /\ Gone(i, Left(FileClosed(dfile, (ulist[i]).dfileId), i))

-----------------------------------------------------------------------------
(* TransOnUdpChannelOpened. *)

\* ClientTransAddUdpChannel.
Add(i, server) ==
    /\ ubad = {} /\ uopen[i] = UcNil /\ ulist[i] = UcNil
    /\ ulist' = [ulist EXCEPT ![i] = [dfileId |-> 0, isEnable |-> FALSE]]
    /\ uopen' = [uopen EXCEPT ![i] = [pc |-> "start", server |-> server, file |-> 0]]
    /\ uheard' = [uheard EXCEPT ![i] = "nothing"]
    /\ UNCHANGED <<dfile, flist, ubad>>

\* The names of the list that are looked at before the one sought: any.
Touched == IF \E s \in UcName : flist[s] = "freed" THEN ubad \cup {"listener"} ELSE ubad

\* TransOnFileChannelOpened: a file session; a server's channel is told at once.
Start(i) ==
    LET f == Cardinality({g \in Files : dfile[g].state # "none"}) + 1
        server == (uopen[i]).server
    IN  /\ ubad = {} /\ uopen[i] # UcNil /\ (uopen[i]).pc = "start" /\ f \in Files
        /\ uopen' = [uopen EXCEPT ![i].pc = IF server THEN "enable" ELSE "record", ![i].file = f]
        /\ dfile' = [dfile EXCEPT ![f].state = "running", ![f].chan = i]
        /\ server => \E s \in UcName : flist[s] # "none"
        /\ ubad' = IF server THEN Touched ELSE ubad
        /\ UNCHANGED <<ulist, uheard, flist>>

ServerEnable(i) ==
    LET next(pc) == uopen' = [uopen EXCEPT ![i].pc = pc] IN
    /\ ubad = {} /\ uopen[i] # UcNil /\ (uopen[i]).pc \in {"enable", "enableLate"}
    /\ Enable(i, next(ThenSay((uopen[i]).pc)), next("record"))
    /\ UNCHANGED <<dfile, uheard, flist, ubad>>

ServerSay(i) ==
    /\ ubad = {} /\ uopen[i] # UcNil /\ (uopen[i]).pc \in {"say", "sayLate"}
    /\ uopen' = [uopen EXCEPT ![i].pc = "record"]
    /\ OnSessionOpened(i, (uopen[i]).pc) /\ UNCHANGED <<ulist, dfile, flist, ubad>>

\* No listener, or the library fails.
StartFails(i) ==
    /\ ubad = {} /\ uopen[i] # UcNil /\ (uopen[i]).pc = "start"
    /\ uopen' = [uopen EXCEPT ![i] = UcNil] /\ Unlisted(i, dfile)
    /\ UNCHANGED <<uheard, flist, ubad>>

\* newChannel->dfileId: the record may have been freed.
Record(i) ==
    /\ ubad = {} /\ uopen[i] # UcNil /\ (uopen[i]).pc = "record"
    /\ uopen' = [uopen EXCEPT ![i] = UcNil]
    /\ IF ulist[i] = UcNil THEN ubad' = {"channel"} /\ UNCHANGED ulist
       ELSE ulist' = [ulist EXCEPT ![i].dfileId = (uopen[i]).file] /\ UNCHANGED ubad
    /\ UNCHANGED <<dfile, uheard, flist>>

-----------------------------------------------------------------------------
(* What the service and the application ask. *)

\* TransOnUdpChannelOpenFailed: the file session, if any, stays.
OpenFailed(i) ==
    /\ ubad = {} /\ (ulist[i] # UcNil \/ uopen[i] # UcNil) /\ uheard' = [uheard EXCEPT ![i] = "failed"]
    /\ Gone(i, IF ulist[i] = UcNil \/ (ulist[i]).dfileId = 0 THEN Left(dfile, i)
               ELSE [dfile EXCEPT ![(ulist[i]).dfileId].left = TRUE])
    /\ UNCHANGED <<flist, ubad>>

\* TransOnUdpChannelClosed.
ChannelClosed(i) ==
    /\ ubad = {} /\ CloseUdpChannel(i) /\ uheard' = [uheard EXCEPT ![i] = "closed"]
    /\ UNCHANGED <<flist, ubad>>

\* ClientTransCloseUdpChannel.
AppClose(i) ==
    /\ ubad = {} /\ uheard[i] = "opened" /\ CloseUdpChannel(i)
    /\ uheard' = [uheard EXCEPT ![i] = "closed"] /\ UNCHANGED <<flist, ubad>>

-----------------------------------------------------------------------------
(* Events of the library: FileSendListener, FileReceiveListener. *)

MutantForgetsChannel(f) == {}

\* The channel that is told of: known by its session.
ToTell(f) == ByFile(f)

\* DFILE_ON_CONNECT_SUCCESS.
ConnectSuccess(f) ==
    /\ ubad = {} /\ dfile[f].state = "running" /\ dfile[f].said = {}
    /\ dfile' = [dfile EXCEPT ![f].tells = IF ToTell(f) = {} THEN "nothing" ELSE "enable",
                              ![f].said = {"success"} \cup (IF ByFile(f) = {} THEN {"unheard"} ELSE {})]
    /\ UNCHANGED <<ulist, uopen, uheard, flist, ubad>>

LibraryEnable(f) ==
    LET next(x) == dfile' = [dfile EXCEPT ![f].tells = x] IN
    /\ ubad = {} /\ dfile[f].tells \in {"enable", "enableLate"}
    /\ Enable(dfile[f].chan, next(ThenSay(dfile[f].tells)), next("nothing"))
    /\ UNCHANGED <<uopen, uheard, flist, ubad>>

LibrarySay(f) ==
    /\ ubad = {} /\ dfile[f].tells \in {"say", "sayLate"} /\ dfile' = [dfile EXCEPT ![f].tells = "nothing"]
    /\ OnSessionOpened(dfile[f].chan, dfile[f].tells) /\ UNCHANGED <<ulist, uopen, flist, ubad>>

\* DFILE_ON_CONNECT_FAIL, DFILE_ON_FATAL_ERROR.
ConnectFail(f) ==
    /\ ubad = {} /\ dfile[f].state = "running" /\ dfile[f].tells = "nothing" /\ "fail" \notin dfile[f].said
    /\ IF ByFile(f) = {}
       THEN dfile' = [dfile EXCEPT ![f].said = @ \cup {"fail", "unheard"}] /\ UNCHANGED <<ulist, uheard, uopen>>
       ELSE \E i \in ByFile(f) : CloseUdpChannel(i) /\ uheard' = [uheard EXCEPT ![i] = "closed"]
    /\ UNCHANGED <<flist, ubad>>

-----------------------------------------------------------------------------
(* File listeners. *)

\* TransSetFileReceiveListener, TransSetFileSendListener.
SetListener(s) ==
    /\ ubad = {} /\ ubad' = Touched
    /\ flist' = [flist EXCEPT ![s] = "set"] /\ flist[s] # "set" /\ UNCHANGED <<ulist, uopen, dfile, uheard>>

\* TransDeleteFileListener: the record is freed and stays in the list.
Freed(F, s) == [F EXCEPT ![s] = "freed"]

DeleteListener(s) ==
    /\ ubad = {} /\ flist[s] = "set" /\ ubad' = Touched
    /\ flist' = Freed(flist, s) /\ UNCHANGED <<ulist, uopen, dfile, uheard>>

-----------------------------------------------------------------------------
UdpClientNext ==
    \/ \E i \in UcId : \/ \E server \in BOOLEAN : Add(i, server)
                       \/ Start(i) \/ ServerEnable(i) \/ ServerSay(i) \/ StartFails(i) \/ Record(i)
                       \/ OpenFailed(i) \/ ChannelClosed(i) \/ AppClose(i)
    \/ \E f \in Files : ConnectSuccess(f) \/ LibraryEnable(f) \/ LibrarySay(f) \/ ConnectFail(f)
    \/ \E s \in UcName : SetListener(s) \/ DeleteListener(s)

UdpClientSpec == UdpClientInit /\ [][UdpClientNext]_ucVars

-----------------------------------------------------------------------------
(* Properties. *)

\* The type of every variable.
UdpClientTypeOK ==
    /\ \A i \in UcId : ulist[i] # UcNil => (ulist[i]).dfileId \in Files \cup {0}
    /\ \A f \in Files : dfile[f].state \in {"none", "running", "closed"}

\* A file session that runs is closed by its channel, unless the channel went
\* before it knew the session, or went with OnChannelOpenFailed.
SessionsClosed ==
    \A f \in Files : (dfile[f].state = "running" /\ ubad = {}) =>
        ByFile(f) # {} \/ dfile[f].left \/ Starting(dfile[f].chan) = f

\* The application uses the channel of a connected session once it was told, unless
\* the library was quicker than the record of the session's number.
ConnectedIsUsed ==
    \A f \in Files, i \in UcId :
        (/\ i \in ByFile(f) /\ "success" \in dfile[f].said /\ "unheard" \notin dfile[f].said
         /\ dfile[f].tells = "nothing") => (ulist[i]).isEnable /\ uheard[i] = "opened"

\* What the application was told is opened, and not too late, is listed and enabled
\* until the application hears otherwise.
OpenedIsListed ==
    \A i \in UcId : uheard[i] = "opened" => ulist[i] # UcNil /\ (ulist[i]).isEnable

=============================================================================
