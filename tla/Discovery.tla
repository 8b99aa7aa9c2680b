------------------------------ MODULE Discovery ------------------------------
(***************************************************************************)
(* The discovery manager (disc_manager.c) over the CoAP medium             *)
(* (disc_coap.c).  A publication or a subscription is an info node in the  *)
(* list of its package and, for a subscription, in the list of its         *)
(* capability; CoAP counts how often each capability is in use and tells   *)
(* the finder library (NSTACKX, external) when a count leaves or reaches   *)
(* zero.                                                                   *)
(*                                                                         *)
(* Calls of IPC threads interleave: an info node is put in its lists under *)
(* the list lock, the medium is told after the lock is released.           *)
(***************************************************************************)
EXTENDS Integers, FiniteSets

CONSTANTS DiscCaller, \* threads that call
          Request,    \* [pkg, id, kind, mode, medium, cap]: what they ask for
          Lnn,        \* the package name of the network layer
          MaxInfo     \* bound: info nodes made

VARIABLES node,     \* info nodes in the order they are made
          capList,  \* nodes in g_capabilityList
          item,     \* the package item of each list: [exists, num, cb]
          capCount, \* capCount of g_publishMgr and g_subscribeMgr
          nstackx,  \* what the library was told: the capabilities in use, and if
                    \* it looks for devices: "off", "on", or what stopped it
          dcall,    \* what each thread does
          broken,   \* a freed node was used: nothing more is known
          unsaid    \* the library refused a capability

dmVars == <<node, capList, item, capCount, nstackx, dcall, broken, unsaid>>

DKind == {"pub", "sub"}
DPkg == {r.pkg : r \in Request}
DCap == {r.cap : r \in Request}
DIdle == [pc |-> "idle", n |-> 0]

Init ==
    /\ node = [n \in {} |-> 0] /\ capList = {} /\ broken = FALSE /\ unsaid = FALSE
    /\ item = [k \in DKind |-> [p \in DPkg |-> [exists |-> FALSE, num |-> 0, cb |-> FALSE]]]
    /\ capCount = [k \in DKind |-> [c \in DCap |-> 0]]
    /\ nstackx = [caps |-> [k \in DKind |-> {}], finding |-> "off"]
    /\ dcall = [t \in DiscCaller |-> DIdle]

Infos(k, p) == {n \in DOMAIN node : node[n].listed /\ node[n].kind = k /\ node[n].pkg = p}
Freed(ns) == \E n \in ns : node[n].freed

\* A walk over ns uses freed memory.
Breaks == broken' = TRUE /\ UNCHANGED <<node, capList, item, capCount, nstackx, dcall, unsaid>>

-----------------------------------------------------------------------------
(* Starting. *)

MutantOverwrites(old, r) == r.pkg # Lnn

\* AddCallbackToItem: the network layer starts with a callback of NULL, which
\* leaves one that was set before.
CallbackAfter(old, r) == IF r.pkg = Lnn THEN old ELSE TRUE

\* PublishInfoCheck and its siblings.
InfoCheck(r) == r.mode \in {"active", "passive"} /\ r.medium \in {"AUTO", "BLE", "COAP"}

\* CreateNewPublishInfoNode and its siblings, and CreateNewItem's place for it.
NewNode(r) ==
    [pkg |-> r.pkg, id |-> r.id, kind |-> r.kind, mode |-> r.mode, medium |-> r.medium, cap |-> r.cap,
     listed |-> TRUE, freed |-> FALSE, refused |-> FALSE, overtaken |-> FALSE]

\* AddInfoToList: a duplicate is refused (and freed by the caller).
AddInfoToList(t, r) ==
    LET n == Cardinality(DOMAIN node) + 1
    IN  /\ ~broken /\ dcall[t].pc = "idle" /\ n <= MaxInfo /\ InfoCheck(r)
        /\ ~\E m \in Infos(r.kind, r.pkg) : node[m].id = r.id
        /\ IF Freed(Infos(r.kind, r.pkg)) THEN Breaks ELSE
             /\ node' = [m \in DOMAIN node \cup {n} |-> IF m # n THEN node[m] ELSE NewNode(r)]
             /\ item' = [item EXCEPT ![r.kind][r.pkg] =
                          [exists |-> TRUE, num |-> @.num + 1,
                           cb |-> IF r.kind = "pub" THEN FALSE ELSE CallbackAfter(@.cb, r)]]
             /\ capList' = IF r.kind = "sub" THEN capList \cup {n} ELSE capList
             /\ dcall' = [dcall EXCEPT ![t] = [pc |-> "start", n |-> n]]
             /\ UNCHANGED <<capCount, nstackx, broken, unsaid>>

MutantClears(k, c) == [capCount EXCEPT ![k][c] = 0]

\* RegisterAllCapBitmap, and UnregisterAllCapBitmap, which stops at zero.
Register(k, c) == [capCount EXCEPT ![k][c] = @ + 1]
Unregister(k, c) == [capCount EXCEPT ![k][c] = IF @ <= 1 THEN 0 ELSE @ - 1]

InUse(counts, k) == {c \in DCap : counts[k][c] > 0}

\* A count left or reached zero, so the library is told the capabilities in
\* use; it may fail.
Told(k, counts, fail) ==
    /\ capCount' = counts
    /\ unsaid' = (unsaid \/ (fail /\ InUse(counts, k) # InUse(capCount, k)))
MutantOnlyMore(k, counts) ==
    IF InUse(counts, k) \ InUse(capCount, k) # {} THEN [nstackx.caps EXCEPT ![k] = InUse(counts, k)] ELSE nstackx.caps
CapsAfter(k, counts) ==
    IF InUse(counts, k) # InUse(capCount, k) THEN [nstackx.caps EXCEPT ![k] = InUse(counts, k)] ELSE nstackx.caps

\* What a start of the medium does; it fails when the library refuses the
\* capabilities ("caps"), or later.  Only the search is left to say.
Started(i, fail, finding) ==
    LET counts == Register(i.kind, i.cap)
    IN  /\ Told(i.kind, counts, fail = "caps")
        /\ nstackx' = IF fail = "caps" THEN nstackx
                      ELSE [caps |-> CapsAfter(i.kind, counts), finding |-> finding]

\* The search is stopped before it starts again.
CoapPublish(i, fail) == Started(i, fail, IF fail = "no" THEN "on" ELSE nstackx.finding)
CoapStartScan(i, fail) == Started(i, fail, nstackx.finding)
CoapSubscribe(i, fail) == Started(i, fail, nstackx.finding)
CoapStartAdvertise(i, fail) == Started(i, fail, IF fail = "no" THEN "on" ELSE "failed")

\* DiscInterfaceProcess.
CoapStart(i, fail) ==
    IF i.kind = "pub"
    THEN IF i.mode = "active" THEN CoapPublish(i, fail) ELSE CoapStartScan(i, fail)
    ELSE IF i.mode = "active" THEN CoapStartAdvertise(i, fail) ELSE CoapSubscribe(i, fail)

MutantAlwaysStops(i, counts) == TRUE

\* Nothing of its kind is left.
Stops(i, counts) == InUse(counts, i.kind) = {}

Stopped(i, fail, mayStop) ==
    LET counts == Unregister(i.kind, i.cap)
    IN  /\ Told(i.kind, counts, fail = "caps")
        /\ nstackx' = IF fail = "caps" THEN nstackx
                      ELSE [caps |-> CapsAfter(i.kind, counts),
                            finding |-> IF mayStop /\ fail = "no" /\ Stops(i, counts) THEN i.kind ELSE nstackx.finding]

\* The active ones stop the search when no capability of their own kind is left,
\* also when the other kind still needs it.
CoapUnPublish(i, fail) == Stopped(i, fail, TRUE)
CoapStoptScan(i, fail) == Stopped(i, fail, FALSE)
CoapUnsubscribe(i, fail) == Stopped(i, fail, FALSE)
CoapStopAdvertise(i, fail) == Stopped(i, fail, TRUE)

\* DiscInterfaceProcess.
CoapStop(i, fail) ==
    IF i.kind = "pub"
    THEN IF i.mode = "active" THEN CoapUnPublish(i, fail) ELSE CoapStoptScan(i, fail)
    ELSE IF i.mode = "active" THEN CoapStopAdvertise(i, fail) ELSE CoapUnsubscribe(i, fail)

MutantReleases(n, fail) == [node EXCEPT ![n].freed = TRUE, ![n].refused = fail]

\* DiscInterfaceByMedium: the automatic choice is CoAP.
OnCoap(i) == i.medium \in {"COAP", "AUTO"}

\* The node when the medium has answered.
AfterStart(n, fail) == IF fail THEN [node EXCEPT ![n].freed = TRUE, ![n].refused = TRUE] ELSE node

\* DiscInterfaceByMedium, then the end of the start.  When the medium refuses,
\* the caller frees the node, which stays in its lists.
StartMedium(t, fail) ==
    LET n == dcall[t].n
        i == node[n]
    IN  /\ ~broken /\ dcall[t].pc = "start"
        /\ IF i.freed THEN Breaks ELSE
             /\ IF OnCoap(i) THEN CoapStart(i, fail) ELSE UNCHANGED <<capCount, nstackx, unsaid>>
             /\ node' = AfterStart(n, fail # "no")
             /\ dcall' = [dcall EXCEPT ![t] = DIdle]
             /\ UNCHANGED <<capList, item, broken>>

-----------------------------------------------------------------------------
(* Stopping. *)

Starting(n) == \E t \in DiscCaller : dcall[t] = [pc |-> "start", n |-> n]

\* An item goes with its last node, and its callback with it.
ItemWithoutOne(it) ==
    IF it.num = 1 THEN [exists |-> FALSE, num |-> 0, cb |-> FALSE] ELSE [it EXCEPT !.num = @ - 1]

MutantKeepsCap(ns) == IF \E n \in ns : node[n].pkg = Lnn THEN capList \ ns ELSE capList

\* DeleteInfoFromCapability.
CapListWithout(ns) == capList \ ns

\* DeleteInfoFromList.
DeleteInfoFromList(t, n) ==
    LET i == node[n]
    IN  /\ ~broken /\ dcall[t].pc = "idle" /\ i.listed
        /\ IF Freed(Infos(i.kind, i.pkg)) THEN Breaks ELSE
             /\ node' = [node EXCEPT ![n].listed = FALSE]
             /\ item' = [item EXCEPT ![i.kind][i.pkg] = ItemWithoutOne(@)]
             /\ capList' = CapListWithout({n})
             /\ dcall' = [dcall EXCEPT ![t] = [pc |-> "stop", n |-> n]]
             /\ UNCHANGED <<capCount, nstackx, broken, unsaid>>

\* DiscInterfaceByMedium, then ReleaseInfoNodeMem, if the medium did it.
StopMedium(t, fail) ==
    LET n == dcall[t].n
        i == node[n]
    IN  /\ ~broken /\ dcall[t].pc = "stop"
        /\ IF i.freed THEN Breaks ELSE
             /\ IF OnCoap(i) THEN CoapStop(i, fail) ELSE UNCHANGED <<capCount, nstackx, unsaid>>
             /\ node' = [node EXCEPT ![n].freed = (fail = "no"), ![n].overtaken = Starting(n)]
             /\ dcall' = [dcall EXCEPT ![t] = DIdle]
             /\ UNCHANGED <<capList, item, broken>>

\* DiscMgrDeathCallback: the client is gone, the medium is not told.
DeathCallback(p) ==
    LET ns == Infos("pub", p) \cup Infos("sub", p)
    IN  /\ ~broken /\ p # Lnn /\ ns # {}
        /\ IF Freed(ns) THEN Breaks ELSE
             /\ node' = [n \in DOMAIN node |-> IF n \notin ns THEN node[n] ELSE
                          [node[n] EXCEPT !.listed = FALSE, !.freed = TRUE, !.overtaken = Starting(n)]]
             /\ item' = [k \in DKind |-> [item[k] EXCEPT ![p] = [exists |-> FALSE, num |-> 0, cb |-> FALSE]]]
             /\ capList' = CapListWithout(ns)
             /\ UNCHANGED <<capCount, nstackx, dcall, broken, unsaid>>

-----------------------------------------------------------------------------
(* The network layer's callback, and a device found by the library. *)

\* DiscSetDiscoverCallback.
SetDiscoverCallback ==
    /\ ~broken /\ ~item["sub"][Lnn].cb
    /\ item' = [item EXCEPT !["sub"][Lnn] = [@ EXCEPT !.exists = TRUE, !.cb = TRUE]]
    /\ UNCHANGED <<node, capList, capCount, nstackx, dcall, broken, unsaid>>

\* DiscOnDeviceFound goes through the nodes of a capability.
DeviceFound(c) ==
    /\ ~broken /\ c \in nstackx.caps["sub"]
    /\ Freed({n \in capList : node[n].cap = c}) /\ Breaks

-----------------------------------------------------------------------------
(* The entry points: for the modules of the service, and for its clients.  *)

DiscPublish(t, r) == r.pkg = Lnn /\ r.kind = "pub" /\ AddInfoToList(t, r)
DiscSubscribe(t, r) == r.pkg = Lnn /\ r.kind = "sub" /\ AddInfoToList(t, r)
DiscPublishService(t, r) == r.pkg # Lnn /\ r.kind = "pub" /\ AddInfoToList(t, r)
DiscStartDiscovery(t, r) == r.pkg # Lnn /\ r.kind = "sub" /\ AddInfoToList(t, r)

DiscUnpublish(t, n) == node[n].pkg = Lnn /\ node[n].kind = "pub" /\ DeleteInfoFromList(t, n)
DiscStopAdvertise(t, n) == node[n].pkg = Lnn /\ node[n].kind = "sub" /\ DeleteInfoFromList(t, n)
DiscUnPublishService(t, n) == node[n].pkg # Lnn /\ node[n].kind = "pub" /\ DeleteInfoFromList(t, n)
DiscStopDiscovery(t, n) == node[n].pkg # Lnn /\ node[n].kind = "sub" /\ DeleteInfoFromList(t, n)

Next ==
    \/ \E t \in DiscCaller :
          \/ \E r \in Request : \/ DiscPublish(t, r) \/ DiscSubscribe(t, r)
                                \/ DiscPublishService(t, r) \/ DiscStartDiscovery(t, r)
          \/ \E n \in DOMAIN node : \/ DiscUnpublish(t, n) \/ DiscStopAdvertise(t, n)
                                    \/ DiscUnPublishService(t, n) \/ DiscStopDiscovery(t, n)
          \/ \E fail \in {"no", "caps", "later"} : StartMedium(t, fail) \/ StopMedium(t, fail)
    \/ \E p \in DPkg : DeathCallback(p)
    \/ SetDiscoverCallback
    \/ \E c \in DCap : DeviceFound(c)

Spec == Init /\ [][Next]_dmVars

-----------------------------------------------------------------------------
(* Properties. *)

\* The type of every variable.
DiscTypeOK ==
    /\ DOMAIN node \subseteq 1 .. MaxInfo /\ capList \subseteq DOMAIN node
    /\ \A k \in DKind, p \in DPkg : item[k][p].num \in 0 .. MaxInfo
    /\ \A k \in DKind, c \in DCap : capCount[k][c] \in 0 .. MaxInfo
    /\ broken \in BOOLEAN /\ unsaid \in BOOLEAN

\* The two lists and the counter of an item agree: a package item counts the
\* nodes in its list, it is there while it has one, and a capability's list
\* has exactly the listed subscriptions.
ListsAgree ==
    /\ capList = {n \in DOMAIN node : node[n].listed /\ node[n].kind = "sub"}
    /\ \A k \in DKind, p \in DPkg : /\ item[k][p].num = Cardinality(Infos(k, p))
                                    /\ item[k][p].num > 0 => item[k][p].exists
                                    /\ k = "pub" /\ item[k][p].exists => item[k][p].num > 0

\* A freed node is used only after a medium refused a start, whose node is
\* freed in its lists, or when a stop or the death of the client overtook the
\* start's call of the medium.
NoUseAfterFree == broken => \E n \in DOMAIN node : node[n].refused \/ node[n].overtaken

\* What the library was told is what is in use, unless it refused a change: then
\* the count has changed already and it is not told again.
LibraryKnows == ~unsaid => \A k \in DKind : nstackx.caps[k] = InUse(capCount, k)

\* A capability with a subscription or publication that has started is in use,
\* whatever was stopped, refused or orphaned meanwhile, unless a stop came
\* before the start of its node reached the medium.
StartedInUse ==
    \A n \in DOMAIN node :
        node[n].listed /\ ~node[n].freed /\ OnCoap(node[n]) /\ ~Starting(n)
            /\ (\A m \in DOMAIN node : ~node[m].overtaken)
        => node[n].cap \in InUse(capCount, node[n].kind)

\* While an active subscription has started, the library looks for devices,
\* unless the last publication stopped it (both kinds share one search) or another
\* subscription, which stops it to start it again, failed in between.
SearchRuns ==
    \A n \in DOMAIN node :
        node[n].listed /\ ~node[n].freed /\ OnCoap(node[n]) /\ ~Starting(n)
            /\ node[n].kind = "sub" /\ node[n].mode = "active"
            /\ (\A m \in DOMAIN node : ~node[m].overtaken)
        => nstackx.finding \in {"on", "pub", "failed"}

KeepsCallback == item["sub"][Lnn].cb /\ item'["sub"][Lnn].exists => item'["sub"][Lnn].cb

\* The callback of the network layer stays while its item has subscriptions.
CallbackKept == [][KeepsCallback]_dmVars

=============================================================================
