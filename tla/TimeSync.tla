------------------------------ MODULE TimeSync ------------------------------
(***************************************************************************)
(* lane_hub/time_sync/src/lnn_time_sync_manager.c: packages ask for their  *)
(* clock to be synchronised with a node.  The calls post to the default    *)
(* looper; its handlers keep one TimeSyncReqInfo per node, with the        *)
(* accuracy and period asked of the implementation and the requests of the *)
(* packages.  LnnStartTimeSyncImpl and LnnStopTimeSyncImpl belong to the   *)
(* product (the repository has a stub): a start succeeds or is refused,    *)
(* and a running one reports results from a thread of its own.             *)
(***************************************************************************)
EXTENDS Integers, Sequences, FiniteSets, FiniteSetsExt

CONSTANTS
    Pkg,            \* package names
    Node,           \* network ids
    Accuracy,       \* TimeSyncAccuracy: a larger value is more accurate
    Period,         \* TimeSyncPeriod: a smaller value is more frequent
    TsNil,
    MaxCalls,       \* bound: calls of the packages
    MaxResults      \* bound: results of one node waiting in the looper

ASSUME TimeSyncAssumption ==
    /\ Accuracy \subseteq Nat /\ Accuracy # {} /\ IsFiniteSet(Accuracy)
    /\ Period \subseteq Nat /\ Period # {} /\ IsFiniteSet(Period)
    /\ {MaxCalls, MaxResults} \subseteq Nat

VARIABLES
    queue,    \* the time synchronisation messages in the looper
    reqList,  \* TimeSyncReqInfo of each node, or TsNil
    impl,     \* what the implementation runs for each node, or TsNil
    calls,    \* calls made so far
    up,       \* LnnTimeSyncDeinit has not been called
    waiting   \* <<pkg, node>> told 0 by LnnStartTimeSync, with no result since
              \* and no stop

tsVars == <<queue, reqList, impl, calls, up, waiting>>

Rate == [accuracy : Accuracy, period : Period]

TimeSyncReqInfo == [cur : Rate, startReqList : [Pkg -> Rate \cup {TsNil}]]

ASSUME TsNilAssumption == TsNil \notin Rate /\ TsNil \notin TimeSyncReqInfo

Message ==
    [what : {"START"}, pkg : Pkg, node : Node, rate : Rate]
      \cup [what : {"STOP"}, pkg : Pkg, node : Node]
      \cup [what : {"COMPLETE"}, node : Node, retCode : {"ok", "fail", "other"}]
      \cup [what : {"REMOVE_ALL"}]

TimeSyncInit ==
    /\ queue = <<>>
    /\ reqList = [n \in Node |-> TsNil]
    /\ impl = [n \in Node |-> TsNil]
    /\ calls = 0 /\ up = TRUE /\ waiting = {}

Requesters(info) == {p \in Pkg : info.startReqList[p] # TsNil}

\* The test of both TryUpdate functions: some part of r asks for more than cur.
AsksMore(r, cur) == cur.accuracy < r.accuracy \/ cur.period > r.period

-----------------------------------------------------------------------------
(* Calls, from any thread. *)

\* LnnStartTimeSync, for a node the ledger knows.
LnnStartTimeSync(p, n, r) ==
    /\ up /\ calls < MaxCalls
    /\ calls' = calls + 1
    /\ queue' = Append(queue, [what |-> "START", pkg |-> p, node |-> n, rate |-> r])
    /\ waiting' = waiting \cup {<<p, n>>}
    /\ UNCHANGED <<reqList, impl, up>>

LnnStopTimeSync(p, n) ==
    /\ up /\ calls < MaxCalls
    /\ calls' = calls + 1
    /\ queue' = Append(queue, [what |-> "STOP", pkg |-> p, node |-> n])
    /\ waiting' = waiting \ {<<p, n>>}
    /\ UNCHANGED <<reqList, impl, up>>

\* REMOVE_ALL is posted, and the implementation is deinitialised at once.
LnnTimeSyncDeinit ==
    /\ up
    /\ up' = FALSE
    /\ queue' = Append(queue, [what |-> "REMOVE_ALL"])
    /\ impl' = [n \in Node |-> TsNil]
    /\ UNCHANGED <<reqList, calls, waiting>>

\* The implementation reports a result of a synchronisation it runs.
OnTimeSyncImplComplete(n, ret) ==
    /\ impl[n] # TsNil
    /\ Cardinality({i \in 1 .. Len(queue) :
                      queue[i].what = "COMPLETE" /\ queue[i].node = n}) < MaxResults
    /\ queue' = Append(queue, [what |-> "COMPLETE", node |-> n, retCode |-> ret])
    /\ UNCHANGED <<reqList, impl, calls, up, waiting>>

-----------------------------------------------------------------------------
(* Handlers, on the looper. *)

Taken(what) == /\ queue # <<>> /\ Head(queue).what = what
               /\ queue' = Tail(queue)

\* CreateTimeSyncReqInfo, or TryUpdateTimeSyncReqInfo of the one there is.
FindOrCreate(n, r) ==
    IF reqList[n] = TsNil THEN [cur |-> r, startReqList |-> [p \in Pkg |-> TsNil]]
    ELSE IF AsksMore(r, reqList[n].cur) THEN [reqList[n] EXCEPT !.cur = r]
    ELSE reqList[n]

TryUpdateStartTimeSyncReq(info, p, r) ==
    LET old == info.startReqList[p]
    IN IF old = TsNil \/ AsksMore(r, old) THEN [info EXCEPT !.startReqList[p] = r] ELSE info

RemoveStartTimeSyncReq(info, p) == [info EXCEPT !.startReqList[p] = TsNil]

\* Mutant: a new TimeSyncReqInfo is kept when the implementation refuses it.
MutantKeepsRefused ==
    LET m == Head(queue)
        old == reqList[m.node]
        new == TryUpdateStartTimeSyncReq(FindOrCreate(m.node, m.rate), m.pkg, m.rate)
    IN /\ Taken("START")
       /\ \/ /\ reqList' = [reqList EXCEPT ![m.node] = new]
             /\ impl' = [impl EXCEPT ![m.node] = new.cur]
          \/ /\ reqList' = [reqList EXCEPT ![m.node] = RemoveStartTimeSyncReq(new, m.pkg)]
             /\ UNCHANGED impl
       /\ UNCHANGED <<calls, up, waiting>>

\* A refused start takes back the request of the package, a TimeSyncReqInfo made
\* for it, but not the rate written into one that was there.
ProcessStartTimeSyncRequest ==
    LET m == Head(queue)
        old == reqList[m.node]
        new == TryUpdateStartTimeSyncReq(FindOrCreate(m.node, m.rate), m.pkg, m.rate)
        starts == IF old = TsNil THEN TRUE ELSE AsksMore(m.rate, old.cur)
    IN /\ Taken("START")
       /\ \/ /\ ~starts
             /\ reqList' = [reqList EXCEPT ![m.node] = new]
             /\ UNCHANGED impl
          \/ /\ starts
             /\ reqList' = [reqList EXCEPT ![m.node] = new]
             /\ impl' = [impl EXCEPT ![m.node] = IF up THEN new.cur ELSE TsNil]
          \/ /\ starts
             /\ reqList' = [reqList EXCEPT ![m.node] =
                              IF old = TsNil THEN TsNil ELSE RemoveStartTimeSyncReq(new, m.pkg)]
             /\ UNCHANGED impl
       /\ UNCHANGED <<calls, up, waiting>>

\* Mutant: one step beyond what was asked for.
MutantOneMore(info) ==
    [accuracy |-> 1 + Max({info.startReqList[p].accuracy : p \in Requesters(info)}),
     period |-> Min({info.startReqList[p].period : p \in Requesters(info)})]

\* The most accurate and the most frequent of what is still asked for.
Wanted(info) ==
    [accuracy |-> Max({info.startReqList[p].accuracy : p \in Requesters(info)}),
     period |-> Min({info.startReqList[p].period : p \in Requesters(info)})]

\* Mutant: the record goes although packages still ask for it.
MutantStopsForAll(info, n) ==
    /\ reqList' = [reqList EXCEPT ![n] = TsNil]
    /\ impl' = [impl EXCEPT ![n] = TsNil]

\* The rate is raised, never lowered, for the packages that remain; the result of
\* that start is only logged.
TryUpdateTimeSyncReq(info, n) ==
    \/ /\ Requesters(info) = {}
       /\ reqList' = [reqList EXCEPT ![n] = TsNil]
       /\ impl' = [impl EXCEPT ![n] = TsNil]
    \/ /\ Requesters(info) # {} /\ AsksMore(Wanted(info), info.cur)
       /\ reqList' = [reqList EXCEPT ![n] = [info EXCEPT !.cur = Wanted(info)]]
       /\ \/ impl' = [impl EXCEPT ![n] = IF up THEN Wanted(info) ELSE TsNil]
          \/ UNCHANGED impl
    \/ /\ Requesters(info) # {} /\ ~AsksMore(Wanted(info), info.cur)
       /\ reqList' = [reqList EXCEPT ![n] = info]
       /\ UNCHANGED impl

ProcessStopTimeSyncRequest ==
    LET m == Head(queue)
    IN /\ Taken("STOP")
       /\ \/ /\ reqList[m.node] = TsNil
             /\ UNCHANGED <<reqList, impl>>
          \/ /\ reqList[m.node] # TsNil
             /\ TryUpdateTimeSyncReq(RemoveStartTimeSyncReq(reqList[m.node], m.pkg), m.node)
       /\ UNCHANGED <<calls, up, waiting>>

\* Mutant: only a result that succeeded or failed is passed on.
MutantDropsOther ==
    LET m == Head(queue)
        info == reqList[m.node]
    IN /\ Taken("COMPLETE")
       /\ \/ /\ info = TsNil \/ m.retCode = "other"
             /\ UNCHANGED <<reqList, impl, waiting>>
          \/ /\ info # TsNil /\ m.retCode # "other"
             /\ waiting' = waiting \ (Requesters(info) \X {m.node})
             /\ \/ /\ m.retCode # "fail"
                   /\ UNCHANGED <<reqList, impl>>
                \/ /\ m.retCode = "fail"
                   /\ reqList' = [reqList EXCEPT ![m.node] = TsNil]
                   /\ impl' = [impl EXCEPT ![m.node] = TsNil]
       /\ UNCHANGED <<calls, up>>

\* Every package that asked is told; a failed synchronisation is stopped for all.
ProcessTimeSyncComplete ==
    LET m == Head(queue)
        info == reqList[m.node]
    IN /\ Taken("COMPLETE")
       /\ \/ /\ info = TsNil
             /\ UNCHANGED <<reqList, impl, waiting>>
          \/ /\ info # TsNil
             /\ waiting' = waiting \ (Requesters(info) \X {m.node})
             /\ \/ /\ m.retCode # "fail"
                   /\ UNCHANGED <<reqList, impl>>
                \/ /\ m.retCode = "fail"
                   /\ reqList' = [reqList EXCEPT ![m.node] = TsNil]
                   /\ impl' = [impl EXCEPT ![m.node] = TsNil]
       /\ UNCHANGED <<calls, up>>

ProcessRemoveAll ==
    /\ Taken("REMOVE_ALL")
    /\ reqList' = [n \in Node |-> TsNil]
    /\ impl' = [n \in Node |-> TsNil]
    /\ UNCHANGED <<calls, up, waiting>>

TimeSyncMessageHandler ==
    \/ ProcessStartTimeSyncRequest
    \/ ProcessStopTimeSyncRequest
    \/ ProcessTimeSyncComplete
    \/ ProcessRemoveAll

TimeSyncNext ==
    \/ \E p \in Pkg, n \in Node : \/ \E r \in Rate : LnnStartTimeSync(p, n, r)
                                  \/ LnnStopTimeSync(p, n)
    \/ \E n \in Node, ret \in {"ok", "fail", "other"} : OnTimeSyncImplComplete(n, ret)
    \/ LnnTimeSyncDeinit
    \/ TimeSyncMessageHandler

TimeSyncSpec == TimeSyncInit /\ [][TimeSyncNext]_tsVars

ImplReports(n) == \E ret \in {"ok", "fail", "other"} : OnTimeSyncImplComplete(n, ret)

\* The looper delivers, and a running synchronisation keeps reporting.
TimeSyncFairSpec ==
    /\ TimeSyncSpec
    /\ WF_tsVars(TimeSyncMessageHandler)
    /\ \A n \in Node :
         WF_tsVars(ImplReports(n))

-----------------------------------------------------------------------------
(* Properties. *)

Recorded(p, n) == IF reqList[n] = TsNil THEN FALSE ELSE reqList[n].startReqList[p] # TsNil

TimeSyncTypeOK ==
    /\ queue \in Seq(Message)
    /\ reqList \in [Node -> TimeSyncReqInfo \cup {TsNil}]
    /\ impl \in [Node -> Rate \cup {TsNil}]
    /\ calls \in 0 .. MaxCalls /\ up \in BOOLEAN
    /\ waiting \subseteq Pkg \X Node

\* The implementation runs for exactly the nodes that have a TimeSyncReqInfo:
\* none is left running with no record to stop it by, and none is recorded that
\* was refused, through refusals, failures and stops in any order.
ImplMatchesRequests == up => \A n \in Node : (impl[n] # TsNil) <=> (reqList[n] # TsNil)

OwnRequestsOnly ==
    \A n \in Node, p \in Pkg :
      Recorded(p, n) /\ ~Recorded(p, n)'
      => LET m == Head(queue)
         IN \/ m.what \in {"START", "STOP"} /\ m.pkg = p
            \/ m.what = "COMPLETE" /\ <<p, n>> \notin waiting'
            \/ m.what = "REMOVE_ALL"

\* What one package does never takes away the request of another: a request goes
\* with its own package's message, with a result its package is told, or with
\* REMOVE_ALL.
OthersKeepTheirRequest == [][OwnRequestsOnly]_tsVars

AwaitsResult(p, n) == Recorded(p, n) /\ <<p, n>> \in waiting

\* A package whose request is recorded is told a result by its callback, unless
\* the request goes first: with a stop, a refused start of the same package or
\* the deinitialisation.  (A request the implementation refuses at once is never
\* recorded, and its package, to which LnnStartTimeSync returned 0, never told.)
RecordedGetsResult == \A p \in Pkg, n \in Node : AwaitsResult(p, n) ~> ~AwaitsResult(p, n)

=============================================================================
