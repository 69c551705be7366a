------------------------------ MODULE Registry ------------------------------
(***************************************************************************)
(* The registry of workers and their tasks (pkg/registry/store.go), as the *)
(* session handlers use it (pkg/core/peering/control.go).                  *)
(*                                                                         *)
(* A worker's record is kept in memkv, and its id in an index with a lock  *)
(* of its own, so Register, Update and Deregister are two steps each, and  *)
(* a listing reads the index once and then the records one by one.  A      *)
(* handler serves the requests of its session one after the other; which   *)
(* worker a request is about is what the message says, so that any handler *)
(* may change any worker.  Of a record, the tasks and labels are modelled; *)
(* a label is a key with its value, and no two of Labels have one key.     *)
(* Tasks have stable ids, so that key and name of a task are independent.  *)
(* Workers are numbers, in the order of their ids.                         *)
(***************************************************************************)
EXTENDS Integers, Sequences, FiniteSets, SequencesExt

CONSTANTS
    Workers,    \* worker ids
    Handlers,   \* session handlers that change the registry
    TaskKeys,   \* what taskKeyOf tells apart
    Names,      \* name and version of a task, the rest of its descriptor
    Labels,
    PageSizes,  \* page_size of a listing; 0 stands for 100
    MaxOps,     \* bound: requests that change the registry
    MaxPages,   \* bound: pages a client asks for in one listing
    NoRecord, NoTask, NoToken

ASSUME RegistryAssumption ==
    /\ Workers \subseteq Nat
    /\ PageSizes \subseteq Nat
    /\ NoToken \notin Nat
    /\ NoTask \notin Names

VARIABLES
    kv,         \* worker -> its record, or NoRecord
    index,      \* Store.workers
    req,        \* handler -> what is left of its request, and for which worker
    ops,        \* requests so far
    torn,       \* history: the workers registered in the middle of a Deregister
    list        \* the listing a client asks for page by page

rvars == <<kv, index, req, ops, torn, list>>

-----------------------------------------------------------------------------
(* State.                                                                  *)

Descriptor == [key : TaskKeys, name : Names]

Record == [tasks : SUBSET Descriptor, labels : SUBSET Labels]

ASSUME NoRecordAssumption == NoRecord \notin Record

Known == {w \in Workers : kv[w] # NoRecord}

\* need and fn filter; ids are still to be looked at, of total ids; out is the
\* page so far, got what the client has from earlier pages; token is where the
\* next page starts.  quiet: no request has touched the registry meanwhile.
Listing == [pc      : {"rest", "scan", "replied"},
            need    : SUBSET Labels,
            fn      : Names \cup {NoTask},
            size    : Nat,
            start   : Nat,
            ids     : Seq(Workers),
            total   : Nat,
            matched : Nat,
            out     : Seq(Workers),
            got     : Seq(Workers),
            token   : Nat \cup {NoToken},
            pages   : Nat,
            quiet   : BOOLEAN]

Resting == [pc |-> "rest", need |-> {}, fn |-> NoTask, size |-> 0, start |-> 0, ids |-> <<>>,
            total |-> 0, matched |-> 0, out |-> <<>>, got |-> <<>>, token |-> NoToken,
            pages |-> 0, quiet |-> FALSE]

Idle == [pc |-> "idle", worker |-> 0]

RInit ==
    /\ kv = [w \in Workers |-> NoRecord]
    /\ index = {}
    /\ req = [h \in Handlers |-> Idle]
    /\ ops = 0
    /\ torn = {}
    /\ list = Resting

-----------------------------------------------------------------------------
(* Tasks.                                                                  *)

\* The descriptors of a request are put one after the other.
dedupTasksKeepAll(in) == ToSet(in)

\* dedupTasks: of several descriptors with one key the last one stays.
dedupTasks(in) ==
    {in[i] : i \in {j \in DOMAIN in : \A k \in DOMAIN in : k > j => in[k].key # in[j].key}}

\* The tasks of Update: upserts by key over what is there, then removals.
Upserted(tasks, in, remove) ==
    LET new == dedupTasks(in)
    IN  {t \in new \cup {o \in tasks : \A n \in new : n.key # o.key} : t.key \notin remove}

Requests == UNION {[1..n -> Descriptor] : n \in 0..2}

-----------------------------------------------------------------------------
(* Requests that change the registry.                                      *)

\* Handler h starts on a request.  A listing that is under way is no longer
\* quiet.
Starts(h) ==
    /\ req[h].pc = "idle"
    /\ ops < MaxOps
    /\ ops' = ops + 1
    /\ list' = [list EXCEPT !.quiet = FALSE]

Goes(h, pc, w) == req' = [req EXCEPT ![h] = [pc |-> pc, worker |-> w]]

\* The handlers that are about to take w out of the index.
Leaving(w) == {h \in Handlers : req[h].pc = "unindex" /\ req[h].worker = w}

\* The index is left to Update.
RegisterUnindexed(h, w) ==
    /\ Starts(h)
    /\ \E in \in Requests, ls \in SUBSET Labels :
           kv' = [kv EXCEPT ![w] = [tasks |-> dedupTasks(in), labels |-> ls]]
    /\ UNCHANGED <<index, req, torn>>

\* Register replaces the record ...
Register(h, w) ==
    /\ Starts(h)
    /\ \E in \in Requests, ls \in SUBSET Labels :
           kv' = [kv EXCEPT ![w] = [tasks |-> dedupTasks(in), labels |-> ls]]
    /\ Goes(h, "index", w)
    /\ torn' = IF Leaving(w) # {} THEN torn \cup {w} ELSE torn
    /\ UNCHANGED index

\* ... Update changes one that is there ...
Update(h, w) ==
    /\ Starts(h)
    /\ \/ kv[w] = NoRecord /\ UNCHANGED kv
       \/ /\ kv[w] # NoRecord
          /\ \E in \in Requests, gone \in SUBSET TaskKeys, set, del \in SUBSET Labels :
                kv' = [kv EXCEPT ![w] =
                         [tasks  |-> IF in = <<>> /\ gone = {} THEN kv[w].tasks
                                                               ELSE Upserted(kv[w].tasks, in, gone),
                          labels |-> (kv[w].labels \cup set) \ del]]
    /\ Goes(h, "index", w)
    /\ UNCHANGED <<index, torn>>

\* ... and both enter the worker in the index afterwards, there or not.
Index(h) ==
    /\ req[h].pc = "index"
    /\ index' = index \cup {req[h].worker}
    /\ req' = [req EXCEPT ![h] = Idle]
    /\ torn' = IF Leaving(req[h].worker) = {} THEN torn \ {req[h].worker} ELSE torn
    /\ UNCHANGED <<kv, ops, list>>

\* Deregister of the whole worker: the record ...
Deregister(h, w) ==
    /\ Starts(h)
    /\ kv' = [kv EXCEPT ![w] = NoRecord]
    /\ Goes(h, "unindex", w)
    /\ UNCHANGED <<index, torn>>

\* ... and then the index.
Unindex(h) ==
    /\ req[h].pc = "unindex"
    /\ index' = index \ {req[h].worker}
    /\ req' = [req EXCEPT ![h] = Idle]
    /\ UNCHANGED <<kv, ops, torn, list>>

\* Deregister of some tasks.
DeregisterTasks(h, w) ==
    /\ Starts(h)
    /\ kv[w] # NoRecord
    /\ \E gone \in (SUBSET TaskKeys) \ {{}} :
           kv' = [kv EXCEPT ![w] = [tasks  |-> {t \in kv[w].tasks : t.key \notin gone},
                                    labels |-> kv[w].labels]]
    /\ UNCHANGED <<index, req, torn>>

-----------------------------------------------------------------------------
(* ListWorkers.                                                            *)

\* sort.Strings: the ids of ws in ascending order.
Sorted(ws) ==
    CHOOSE s \in [1..Cardinality(ws) -> ws] : \A i, j \in DOMAIN s : i < j => s[i] < s[j]

\* The ids are taken from the index, sorted.
Scanning(l, start) ==
    [l EXCEPT !.pc = "scan", !.start = start, !.ids = Sorted(index),
              !.total = Cardinality(index), !.matched = 0, !.out = <<>>, !.pages = @ + 1]

\* A client asks for the first page.
FirstPage ==
    /\ list.pc = "rest"
    /\ \E need \in SUBSET Labels, fn \in Names \cup {NoTask}, n \in PageSizes :
           list' = Scanning([Resting EXCEPT !.need = need, !.fn = fn,
                                            !.size = IF n = 0 THEN 100 ELSE n,
                                            !.quiet = \A h \in Handlers : req[h].pc = "idle"], 0)
    /\ UNCHANGED <<kv, index, req, ops, torn>>

\* It asks for the page at the token it was given, with the same filter.
NextPage ==
    /\ list.pc = "replied" /\ list.token # NoToken
    /\ list.pages < MaxPages
    /\ list' = Scanning(list, list.token)
    /\ UNCHANGED <<kv, index, req, ops, torn>>

Matches(w) ==
    /\ kv[w] # NoRecord
    /\ list.need \subseteq kv[w].labels
    /\ list.fn # NoTask => \E t \in kv[w].tasks : t.name = list.fn

PageFull == Len(list.out) >= list.size

\* The worker at which the page starts is passed over as well.
BeforePageInclusive == list.matched <= list.start

\* What lies before the page is counted without a look at the record.
BeforePage == list.matched < list.start

\* The next id: passed over, or read from memkv and matched.
Look ==
    /\ list.pc = "scan" /\ list.ids # <<>> /\ ~PageFull
    /\ LET w     == Head(list.ids)
           found == ~BeforePage /\ Matches(w)
       IN  list' = [list EXCEPT !.ids = Tail(@),
                                !.matched = IF BeforePage \/ found THEN @ + 1 ELSE @,
                                !.out = IF found THEN Append(@, w) ELSE @]
    /\ UNCHANGED <<kv, index, req, ops, torn>>

Token == IF list.matched < list.total THEN list.matched ELSE NoToken

Reply ==
    /\ list.pc = "scan" /\ (list.ids = <<>> \/ PageFull)
    /\ list' = [list EXCEPT !.pc = "replied", !.token = Token, !.got = @ \o list.out]
    /\ UNCHANGED <<kv, index, req, ops, torn>>

\* The client is done with this listing.
Rest ==
    /\ list.pc = "replied"
    /\ list' = Resting
    /\ UNCHANGED <<kv, index, req, ops, torn>>

-----------------------------------------------------------------------------

RNext ==
    \/ \E h \in Handlers :
          \/ Index(h) \/ Unindex(h)
          \/ \E w \in Workers :
                Register(h, w) \/ Update(h, w) \/ Deregister(h, w) \/ DeregisterTasks(h, w)
    \/ FirstPage \/ NextPage \/ Look \/ Reply \/ Rest

RSpec == RInit /\ [][RNext]_rvars

-----------------------------------------------------------------------------
(* Properties.                                                             *)

RTypeOK ==
    /\ kv \in [Workers -> Record \cup {NoRecord}]
    /\ index \in SUBSET Workers
    /\ req \in [Handlers -> [pc : {"idle", "index", "unindex"}, worker : Workers \cup {0}]]
    /\ ops \in Nat
    /\ torn \in SUBSET Workers
    /\ list \in Listing

\* However it was put together, by registration and any sequence of updates
\* and removals from several sessions, a record holds at most one descriptor
\* for a task key.
UniqueTasks ==
    \A w \in Known : \A t, u \in kv[w].tasks : t.key = u.key => t = u

\* Requests about w that are not finished.
Pending(w) == {h \in Handlers : req[h].pc # "idle" /\ req[h].worker = w}

\* A registered worker can be found: when none of its requests is under way,
\* a worker with a record is in the index that listings start from.  The one
\* way to lose it is a Register, from another session, that comes between the
\* two steps of a Deregister; the next Register or Update puts it right.
RecordIndexed == \A w \in Known \ torn : Pending(w) = {} => w \in index

\* Listing by pages: when nobody changes the registry, a client without a
\* filter that follows the tokens to the end has got every worker of the index
\* that has a record, whatever the page size; and once each, in order, if the
\* index holds no worker without a record, as it does after an Update of one
\* that is not registered.
WalkComplete ==
    /\ list.pc = "replied" /\ list.token = NoToken
    /\ list.quiet /\ list.need = {} /\ list.fn = NoTask
    => /\ ToSet(list.got) = index \cap Known
       /\ index \subseteq Known => list.got = Sorted(index)
=============================================================================
