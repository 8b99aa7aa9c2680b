------------------------------ MODULE VtpStream ------------------------------
(* Streams over VTP: one socket with its threads, and the protocol stack all
   sockets share. Each section has variables of its own; their specifications
   are checked side by side. *)
EXTENDS Naturals, Sequences, FiniteSets, SequencesExt

-----------------------------------------------------------------------------
(* The socket under one stream channel of an application (VtpStreamSocket  *)
(* over the FILLP stack, opened through StreamManager by the adaptor).     *)
(*                                                                         *)
(* Opening starts two detached threads, one that accepts and receives and  *)
(* one that hands the frames up; the listener is installed only after they *)
(* run.  Any of the receiver, the opener and the application may destroy   *)
(* the socket; DestroyStreamSocket runs once, under streamSocketLock_.     *)
(* The callbacks into the application run under that lock as well, so an   *)
(* application that closes the channel inside one waits for itself: the    *)
(* lock is then held for good.                                             *)
(*                                                                         *)
(* `held` is the descriptors the members name, `open` the ones open in the *)
(* stack.  A frame is its number; a header is read in one piece, a body    *)
(* may be cut off when the peer goes, and then a frame without data is     *)
(* made, which the decryption above refuses.                               *)

CONSTANTS MaxFrames    \* bound: frames the peer sends

VARIABLES
    role,        \* "server": StartVtpStreamChannelServer, "client": ...Client
    opener,      \* thread that opens: "create", "listener", "alive", "open", "failed"
    held, open,
    lock,        \* streamSocketLock_ held for good
    recving,     \* isStreamRecv_
    receiver,    \* streamReceiver_ is set
    dead,        \* isDestoryed_
    buffer,      \* streamReceiveBuffer_
    acc,         \* accepting and receiving thread
    note,        \* notifying thread
    cfg,         \* a configuration set before there is a stream descriptor
    closer,      \* application thread that closes
    peer,        \* "away", "up" or "gone"; units it has sent; units read from the stack
    heard,       \* what the listener was told, in order
    lost,        \* frames taken while no listener was set
    late,        \* a descriptor was stored in a destroyed socket
    waited       \* a configuration was left waiting on a destroyed socket

ssVars == <<role, opener, held, open, lock, recving, receiver, dead, buffer, acc, note,
            cfg, closer, peer, heard, lost, late, waited>>

Cut == 0                       \* a frame whose body never came
Connected == MaxFrames + 1     \* STREAM_CONNECTED
Closed == MaxFrames + 2        \* STREAM_CLOSED

SocketInit ==
    /\ role \in {"server", "client"}
    /\ opener = "create" /\ held = {} /\ open = {} /\ lock = FALSE
    /\ recving = FALSE /\ receiver = FALSE /\ dead = FALSE /\ buffer = <<>>
    /\ acc = "none" /\ note = <<"none">> /\ cfg = "none" /\ closer = "idle"
    /\ peer = [st |-> "away", sent |-> 0, read |-> 0]
    /\ heard = <<>> /\ lost = {} /\ late = FALSE /\ waited = FALSE

MutantStreamStays == open \ (held \ {"stream"})

(* Closing the descriptors the members name. *)
CloseHeld == open \ held

(* QuitStreamBuffer: both loops are to end. *)
QuitStreamBuffer == FALSE

MutantReceiverStays == receiver

(* The listener is let go after it has heard STREAM_CLOSED. *)
ReceiverAfter == FALSE

(* DestroyStreamSocket, by whichever thread comes first. *)
DestroyStreamSocket ==
    /\ ~lock
    /\ IF dead
       THEN UNCHANGED <<held, open, recving, receiver, dead, heard, waited>>
       ELSE /\ open' = CloseHeld /\ held' = {}
            /\ heard' = IF receiver THEN Append(heard, Closed) ELSE heard
            /\ receiver' = ReceiverAfter /\ recving' = QuitStreamBuffer /\ dead' = TRUE
            /\ waited' = (waited \/ cfg = "waits")

(* CreateAndBindSocket fails, or a later step of creating does, and what   *)
(* was opened is closed again by DestroyStreamSocket.                      *)
CreateFails ==
    /\ opener = "create" /\ opener' = "failed" /\ dead' = TRUE
    /\ UNCHANGED <<role, held, open, lock, recving, receiver, buffer, acc, note, cfg, closer, peer, heard, lost,
                   late, waited>>

(* CreateServer up to the two threads. *)
CreateServer ==
    /\ role = "server" /\ opener = "create" /\ opener' = "listener"
    /\ held' = {"listen", "epoll"} /\ open' = held' /\ recving' = TRUE
    /\ acc' = "accept" /\ note' = <<"take">>
    /\ UNCHANGED <<role, lock, receiver, dead, buffer, cfg, closer, peer, heard, lost, late,
                   waited>>

(* CreateClient and Connect up to the two threads. *)
CreateClient ==
    /\ role = "client" /\ opener = "create" /\ opener' = "listener"
    /\ held' = {"stream", "epoll"} /\ open' = held' /\ recving' = TRUE
    /\ acc' = "header" /\ note' = <<"take">>
    /\ peer' = [peer EXCEPT !.st = "up"]
    /\ UNCHANGED <<role, lock, receiver, dead, buffer, cfg, closer, heard, lost, late, waited>>

(* SetStreamRecvListener, SetStreamListener. *)
SetStreamListener ==
    /\ opener = "listener" /\ ~lock
    /\ receiver' = TRUE /\ opener' = "alive"
    /\ UNCHANGED <<role, held, open, lock, recving, dead, buffer, acc, note, cfg, closer, peer,
                   heard, lost, late, waited>>

(* The port is returned and SetAliveState(true) called; the peer of a      *)
(* server learns the port from here on.                                    *)
SetAliveState ==
    /\ opener = "alive" /\ opener' = "open"
    /\ UNCHANGED <<role, held, open, lock, recving, receiver, dead, buffer, acc, note, cfg,
                   closer, peer, heard, lost, late, waited>>

(* The peer connects to a server, sends a header or a body, or goes. *)
PeerConnects ==
    /\ role = "server" /\ opener = "open" /\ peer.st = "away" /\ "listen" \in open
    /\ peer' = [peer EXCEPT !.st = "up"]

PeerSends ==
    /\ peer.st = "up" /\ peer.sent < 2 * MaxFrames
    /\ peer' = [peer EXCEPT !.sent = @ + 1]

PeerGoes ==
    /\ peer.st = "up" /\ peer' = [peer EXCEPT !.st = "gone"]

Peer ==
    /\ PeerConnects \/ PeerSends \/ PeerGoes
    /\ UNCHANGED <<role, opener, held, open, lock, recving, receiver, dead, buffer, acc, note,
                   cfg, closer, heard, lost, late, waited>>

(* SetSocketEpollMode of the accepted descriptor, refused when the epoll   *)
(* descriptor is gone.                                                     *)
EpollMode == "epoll" \in held

(* Accept: a connection is there. *)
FtAccept ==
    /\ acc = "accept" /\ "listen" \in held /\ peer.st # "away"
    /\ acc' = "accepted" /\ open' = open \cup {"stream"}
    /\ UNCHANGED <<role, opener, held, lock, recving, receiver, dead, buffer, note, cfg, closer,
                   peer, heard, lost, late, waited>>

(* Accept: the listening descriptor is gone. *)
AcceptFails ==
    /\ acc = "accept" /\ "listen" \notin held /\ acc' = "leave"
    /\ UNCHANGED <<role, opener, held, open, lock, recving, receiver, dead, buffer, note, cfg,
                   closer, peer, heard, lost, late, waited>>

(* Accept: SetDefaultConfig finds no stream descriptor and leaves a thread *)
(* waiting for one; then the epoll mode.                                   *)
SetDefaultConfig ==
    /\ acc = "accepted" /\ cfg' = IF dead THEN cfg ELSE "waits"
    /\ waited' = (waited \/ dead)
    /\ IF EpollMode THEN acc' = "stored" /\ UNCHANGED open
       ELSE acc' = "leave" /\ open' = open \ {"stream"}
    /\ UNCHANGED <<role, opener, held, lock, recving, receiver, dead, buffer, note, closer,
                   peer, heard, lost, late>>

MutantNotNotified == "waits"

(* configCv_.notify_all in Accept. *)
CfgAfterAccept == IF cfg = "waits" THEN "woken" ELSE cfg

(* Accept: the descriptor is stored and the listener told. *)
Accepted ==
    /\ acc = "stored" /\ ~lock
    /\ held' = held \cup {"stream"} /\ cfg' = CfgAfterAccept
    /\ heard' = IF receiver THEN Append(heard, Connected) ELSE heard
    /\ late' = (late \/ dead)
    /\ \/ acc' = "header" /\ UNCHANGED lock
       \/ receiver /\ acc' = "stuck" /\ lock' = TRUE    \* the application closes here
    /\ UNCHANGED <<role, opener, open, recving, receiver, dead, buffer, note, closer, peer,
                   lost, waited>>

(* SetVtpStackConfigDelayed goes on with the descriptor it waited for. *)
SetVtpStackConfigDelayed ==
    /\ cfg = "woken" /\ ~lock /\ cfg' = "set"
    /\ UNCHANGED <<role, opener, held, open, lock, recving, receiver, dead, buffer, acc, note,
                   closer, peer, heard, lost, late, waited>>

Readable == peer.sent > peer.read /\ {"stream", "epoll"} \subseteq held
HangsUp == ~{"stream", "epoll"} \subseteq held \/ (peer.st = "gone" /\ peer.sent = peer.read)

(* DoStreamRecv, RecvStreamLen: the length of the next frame, or the end. *)
RecvStreamLen ==
    /\ acc = "header"
    /\ \/ recving /\ Readable /\ acc' = "body" /\ peer' = [peer EXCEPT !.read = @ + 1]
       \/ (~recving \/ HangsUp) /\ acc' = "leave" /\ UNCHANGED peer
    /\ UNCHANGED <<role, opener, held, open, lock, recving, receiver, dead, buffer, note, cfg,
                   closer, heard, lost, late, waited>>

(* RecvStream and PutStream: a body that is cut off is put without data. *)
RecvStream ==
    /\ acc = "body" /\ acc' = "header"
    /\ \/ /\ Readable /\ peer' = [peer EXCEPT !.read = @ + 1]
          /\ buffer' = IF recving THEN Append(buffer, peer'.read \div 2) ELSE buffer
       \/ /\ ~Readable /\ HangsUp /\ UNCHANGED peer
          /\ buffer' = IF recving THEN Append(buffer, Cut) ELSE buffer
    /\ UNCHANGED <<role, opener, held, open, lock, recving, receiver, dead, note, cfg, closer,
                   heard, lost, late, waited>>

(* The receiving thread destroys the socket and ends. *)
ReceiverEnds ==
    /\ acc = "leave" /\ DestroyStreamSocket /\ acc' = "done"
    /\ UNCHANGED <<role, opener, lock, buffer, note, cfg, closer, peer, lost, late>>

MutantSleepsOn == ~recving /\ buffer # <<>>

(* The loop of TakeStream ends; a waiter is woken by QuitStreamBuffer. *)
WakesUp == ~recving

(* TakeStream: the oldest frame, or nothing once the buffer is quit. *)
TakeStream ==
    /\ note = <<"take">>
    /\ \/ /\ recving /\ buffer # <<>> /\ note' = <<"got", buffer[1]>> /\ buffer' = Tail(buffer)
       \/ WakesUp /\ note' = <<"done">> /\ UNCHANGED buffer
    /\ UNCHANGED <<role, opener, held, open, lock, recving, receiver, dead, acc, cfg, closer,
                   peer, heard, lost, late, waited>>

MutantAlwaysDecrypts(f) == TRUE

(* The adaptor's listener hands a frame on only when it can be decrypted. *)
Decrypts(f) == f # Cut

(* NotifyStreamListener with the frame it took. *)
NotifyStreamListener ==
    /\ note[1] = "got" /\ ~lock
    /\ LET f == note[2]
           told == receiver /\ Decrypts(f)
       IN /\ heard' = IF told THEN Append(heard, f) ELSE heard
          /\ lost' = IF receiver \/ dead THEN lost ELSE lost \cup {f}
          /\ \/ note' = <<"take">> /\ UNCHANGED lock
             \/ told /\ note' = <<"stuck">> /\ lock' = TRUE    \* the application closes here
    /\ UNCHANGED <<role, opener, held, open, recving, receiver, dead, buffer, acc, cfg, closer,
                   peer, late, waited>>

(* CloseVtpStreamChannel on a thread of its own: without the alive state   *)
(* the channel only leaves the map.                                        *)
CloseVtpStreamChannel ==
    /\ closer = "idle" /\ opener \in {"listener", "alive", "open"}
    /\ closer' = IF opener = "open" THEN "destroy" ELSE "left"
    /\ UNCHANGED <<role, opener, held, open, lock, recving, receiver, dead, buffer, acc, note,
                   cfg, peer, heard, lost, late, waited>>

(* DestroyStreamDataChannel. *)
DestroyStreamDataChannel ==
    /\ closer = "destroy" /\ DestroyStreamSocket /\ closer' = "closed"
    /\ UNCHANGED <<role, opener, lock, buffer, acc, note, cfg, peer, lost, late>>

Threads ==
    \/ FtAccept \/ AcceptFails \/ SetDefaultConfig \/ Accepted \/ RecvStreamLen
    \/ RecvStream \/ ReceiverEnds \/ TakeStream \/ NotifyStreamListener
    \/ SetVtpStackConfigDelayed \/ DestroyStreamDataChannel

SocketNext ==
    \/ CreateFails \/ CreateServer \/ CreateClient \/ SetStreamListener \/ SetAliveState
    \/ Peer \/ CloseVtpStreamChannel \/ Threads

SocketSpec == SocketInit /\ [][SocketNext]_ssVars

(* Every thread that can go on does; the network and the callers need not. *)
SocketFairness ==
    /\ WF_ssVars(FtAccept) /\ WF_ssVars(AcceptFails) /\ WF_ssVars(SetDefaultConfig)
    /\ WF_ssVars(Accepted) /\ WF_ssVars(RecvStreamLen) /\ WF_ssVars(RecvStream)
    /\ WF_ssVars(ReceiverEnds) /\ WF_ssVars(TakeStream) /\ WF_ssVars(NotifyStreamListener)
    /\ WF_ssVars(SetVtpStackConfigDelayed) /\ WF_ssVars(DestroyStreamDataChannel)

SocketLiveSpec == SocketSpec /\ SocketFairness
-----------------------------------------------------------------------------
Frames == SelectSeq(heard, LAMBDA x : x \notin {Connected, Closed})

(* Types, and no more read from the stack than the peer has sent. *)
StreamTypeOK ==
    /\ held \subseteq {"listen", "stream", "epoll"} /\ open \subseteq {"listen", "stream", "epoll"}
    /\ acc \in {"none", "accept", "accepted", "stored", "header", "body", "leave", "done", "stuck"}
    /\ note[1] \in {"none", "take", "got", "done", "stuck"}
    /\ peer.read <= peer.sent /\ buffer \in Seq(0..MaxFrames)

(* Once the socket is destroyed and its receiving thread has ended, every  *)
(* descriptor is closed, whichever thread destroyed it and wherever the    *)
(* other was.  The exception is a connection accepted before and stored    *)
(* after the destruction: nothing closes that one.                         *)
DescriptorsClosed == dead /\ acc \in {"none", "done"} => open = {} \/ late

(* The listener hears STREAM_CLOSED once, and nothing after it: no frame   *)
(* that was still with the notifying thread, no late STREAM_CONNECTED.     *)
NothingAfterClosed == \A i \in 1..(Len(heard) - 1) : heard[i] # Closed

(* The application is handed whole frames only, in the order sent, without *)
(* a gap; only frames taken before the listener was installed are missing. *)
FramesInOrder ==
    /\ \A i, j \in 1..Len(Frames) : i < j => Frames[i] < Frames[j]
    /\ \A i \in 1..Len(Frames) :
          /\ Frames[i] # Cut
          /\ \A f \in 1..(Frames[i] - 1) : f \in lost \/ \E k \in 1..Len(Frames) : Frames[k] = f

Destroyed == dead /\ opener # "failed"
ThreadsOver == lock \/ (acc = "done" /\ note = <<"done">>)
ConfigWaits == cfg = "waits"
ConfigDone == cfg = "set" \/ waited \/ lock

(* After the socket is destroyed both of its threads end, so nothing keeps *)
(* the object alive, unless the application closed inside a callback and   *)
(* so waits for the lock its own thread holds.                             *)
ThreadsEnd == Destroyed ~> ThreadsOver

(* A configuration given before the connection is set once it is there;    *)
(* one whose socket is destroyed first waits for ever.                     *)
ConfigSet == ConfigWaits ~> ConfigDone

-----------------------------------------------------------------------------
(* The stream channels of an application and the FILLP stack they share:   *)
(* the map of adaptors (client_trans_udp_stream_interface.cpp) and         *)
(* VtpInstance, which starts the stack for the first channel and tears it  *)
(* down after the last one.                                                *)
(*                                                                         *)
(* All channels use one package name, so the array of names is a flag: the *)
(* first channel that closes clears it for all of them, and when sockets   *)
(* are left a thread destroys the stack thirty seconds later unless a      *)
(* channel was initialised in between, which it tells by a count.  A       *)
(* channel whose opening fails, or that is closed before it is alive,      *)
(* leaves the map without releasing the name.                              *)

CONSTANTS
    MaxOpens,     \* bound: channels opened
    MaxInitFails  \* bound: FtInit failures

VARIABLES
    chan,      \* per channel: where its opener or closer is
    left,      \* channels closed before they were alive
    sock,      \* per channel: its VtpStreamSocket
    up,        \* ~isDestroyed_
    named,     \* packetNameArray_ is not empty
    inits,     \* initVtpCount_
    socks,     \* socketStreamCount_
    waiters,   \* threads in WaitForDestroy
    initFails, \* FtInit failures left
    cut,       \* a delayed destroy met sockets in use
    kept,      \* a name was left behind by a channel
    harmed     \* a delayed destroy met a channel initialised after it was arranged

skVars == <<chan, left, sock, up, named, inits, socks, waiters, initFails, cut, kept, harmed>>

Chan == 1..MaxOpens
There == {c \in Chan : sock[c] = "there"}
Initialised == {c \in Chan : chan[c] \notin {"free", "mapped"}}

StackInit ==
    /\ chan = [c \in Chan |-> "free"] /\ sock = [c \in Chan |-> "none"] /\ left = {}
    /\ up = FALSE /\ named = FALSE /\ inits = 0 /\ socks = 0 /\ waiters = <<>>
    /\ initFails = MaxInitFails /\ cut = FALSE /\ kept = FALSE /\ harmed = FALSE

(* StartVtpStreamChannelServer or Client: the adaptor enters the map. *)
StartVtpStreamChannel(c) ==
    /\ chan[c] = "free" /\ \A d \in 1..(c - 1) : chan[d] # "free"
    /\ chan' = [chan EXCEPT ![c] = "mapped"]
    /\ UNCHANGED <<left, sock, up, named, inits, socks, waiters, initFails, cut, kept, harmed>>

MutantCountsFirst == IF up THEN inits ELSE inits + 1

(* InitVtp counts every call. *)
InitsAfter == inits + 1

(* InitAdaptor with InitVtp, whose result nobody looks at. *)
InitAdaptor(c) ==
    /\ chan[c] = "mapped" /\ chan' = [chan EXCEPT ![c] = "init"] /\ inits' = InitsAfter
    /\ \/ up /\ named' = TRUE /\ UNCHANGED <<up, initFails>>
       \/ ~up /\ up' = TRUE /\ named' = TRUE /\ UNCHANGED initFails
       \/ ~up /\ initFails > 0 /\ initFails' = initFails - 1 /\ UNCHANGED <<up, named>>
    /\ UNCHANGED <<left, sock, socks, waiters, cut, kept, harmed>>

(* CreateAndBindSocket counts the socket before anything can fail. *)
CreateAndBindSocket(c) ==
    /\ chan[c] = "init" /\ chan' = [chan EXCEPT ![c] = "bound"]
    /\ socks' = socks + 1
    /\ sock' = [sock EXCEPT ![c] = IF up THEN "there" ELSE "counted"]
    /\ UNCHANGED <<left, up, named, inits, waiters, initFails, cut, kept, harmed>>

(* UpdateSocketStreamCount(false): the last socket takes the stack along   *)
(* when no name is left.                                                   *)
LastGone(n) == n = 0 /\ ~named /\ up

MutantCountsTwice(c) == sock[c] # "none"

(* StackDestroySocket acts once per socket. *)
NotDestroyed(c) == sock[c] \in {"there", "counted"}

StackDestroySocket(c) ==
    LET n == IF socks = 0 THEN 0 ELSE socks - 1
    IN IF NotDestroyed(c)
       THEN /\ socks' = n /\ up' = (up /\ ~LastGone(n))
            /\ sock' = [sock EXCEPT ![c] = "destroyed"]
       ELSE UNCHANGED <<socks, up, sock>>

(* The channel is alive. *)
StackSetAlive(c) ==
    /\ chan[c] = "bound" /\ sock[c] # "counted" /\ chan' = [chan EXCEPT ![c] = "alive"]
    /\ UNCHANGED <<left, sock, up, named, inits, socks, waiters, initFails, cut, kept, harmed>>

(* Creating the socket failed: it is destroyed and the channel leaves the  *)
(* map; the adaptor is not released, for it is not alive.                  *)
OpenFails(c) ==
    /\ chan[c] = "bound" /\ chan' = [chan EXCEPT ![c] = "closed"]
    /\ StackDestroySocket(c) /\ kept' = TRUE
    /\ UNCHANGED <<left, named, inits, waiters, initFails, cut, harmed>>

(* The receiving thread ends and destroys its socket. *)
StackReceiverEnds(c) ==
    /\ chan[c] \in {"bound", "alive", "erased"} /\ sock[c] = "there"
    /\ StackDestroySocket(c)
    /\ UNCHANGED <<chan, left, named, inits, waiters, initFails, cut, kept, harmed>>

(* StackCloseChannel of a channel that is alive. *)
StackCloseChannel(c) ==
    /\ chan[c] = "alive" /\ c \notin left /\ chan' = [chan EXCEPT ![c] = "erased"]
    /\ UNCHANGED <<left, sock, up, named, inits, socks, waiters, initFails, cut, kept, harmed>>

(* StackCloseChannel of one that is not: it only leaves the map, and   *)
(* the opener goes on with an adaptor nobody will find again.              *)
CloseEarly(c) ==
    /\ chan[c] \in {"mapped", "init", "bound"} /\ c \notin left
    /\ left' = left \cup {c} /\ kept' = TRUE
    /\ UNCHANGED <<chan, sock, up, named, inits, socks, waiters, initFails, cut, harmed>>

(* ReleaseAdaptor: DestroyStreamDataChannel. *)
ReleaseSocket(c) ==
    /\ chan[c] = "erased" /\ chan' = [chan EXCEPT ![c] = "released"]
    /\ StackDestroySocket(c)
    /\ UNCHANGED <<left, named, inits, waiters, initFails, cut, kept, harmed>>

MutantNeverInUse == FALSE

(* Sockets are left: the stack goes later. *)
InUse == socks > 0

MutantKeepsName == named

(* The name is erased. *)
NamesAfter == FALSE

(* ReleaseAdaptor: DestroyEnvironment, DestroyVtp. *)
DestroyVtp(c) ==
    /\ chan[c] = "released" /\ chan' = [chan EXCEPT ![c] = "closed"]
    /\ IF ~up THEN UNCHANGED <<named, waiters, up, inits>>
       ELSE /\ named' = NamesAfter
            /\ IF NamesAfter THEN UNCHANGED <<waiters, up, inits>>
               ELSE IF InUse
               THEN /\ waiters' = Append(waiters, [n |-> inits, at |-> Initialised, reset |-> FALSE])
                    /\ UNCHANGED <<up, inits>>
               ELSE /\ up' = FALSE /\ inits' = 0
                    /\ waiters' = [i \in DOMAIN waiters |-> [waiters[i] EXCEPT !.reset = TRUE]]
    /\ UNCHANGED <<left, sock, socks, initFails, cut, kept, harmed>>

(* WaitForDestroy after its sleep. *)
WaitForDestroy(i) ==
    LET w == waiters[i]
        fires == w.n = inits /\ up
        rest == RemoveAt(waiters, i)
    IN /\ IF fires
          THEN /\ up' = FALSE /\ inits' = 0
               /\ waiters' = [j \in DOMAIN rest |-> [rest[j] EXCEPT !.reset = TRUE]]
          ELSE waiters' = rest /\ UNCHANGED <<up, inits>>
       /\ cut' = (cut \/ (fires /\ There # {}))
       /\ harmed' = (harmed \/ (fires /\ ~w.reset /\ ~(There \subseteq w.at)))
       /\ UNCHANGED <<chan, left, sock, named, socks, initFails, kept>>

StackNext ==
    \/ \E c \in Chan :
          \/ StartVtpStreamChannel(c) \/ InitAdaptor(c) \/ CreateAndBindSocket(c)
          \/ StackSetAlive(c) \/ OpenFails(c) \/ StackReceiverEnds(c) \/ StackCloseChannel(c)
          \/ CloseEarly(c) \/ ReleaseSocket(c) \/ DestroyVtp(c)
    \/ \E i \in DOMAIN waiters : WaitForDestroy(i)

StackSpec == StackInit /\ [][StackNext]_skVars
-----------------------------------------------------------------------------
(* The count of sockets is the number of sockets made and not destroyed,   *)
(* whoever destroys them and however often that is tried.                  *)
SocketsCounted == socks = Cardinality({c \in Chan : sock[c] \in {"there", "counted"}})

(* No socket that works outlives the stack under it, except when the       *)
(* delayed destroy takes the stack away from channels still open.          *)
StackThere == There # {} => up \/ cut

(* When every channel is closed and nothing is pending the stack is torn   *)
(* down, unless a channel that failed to open left the name behind.        *)
StackReleased ==
    (\A c \in Chan : chan[c] \in {"free", "closed"} /\ sock[c] # "there") /\ waiters = <<>>
        => ~up \/ kept

(* A delayed destroy does not hit a channel initialised after it was       *)
(* arranged, as long as the count it compares was not reset in between.    *)
NewChannelsKept == ~harmed

=============================================================================
