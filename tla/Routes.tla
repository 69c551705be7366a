------------------------------- MODULE Routes -------------------------------
(***************************************************************************)
(* What the peer store keeps of routes (pkg/peers/store.go): the path      *)
(* learned for a target, the candidates that several sources offer for it, *)
(* the choice among them that the router asks for, and the reply to        *)
(* GetRoutes (pkg/core/peering/routes.go).                                 *)
(*                                                                         *)
(* Callers read the clock first and change the entry in memkv later, under *)
(* its lock.  All changes go through memkv's Update, which does nothing    *)
(* for a key that does not exist, and the node never creates one: only for *)
(* the targets in seeded, whose keys another user of the same memkv has    *)
(* written, is anything ever kept.                                         *)
(***************************************************************************)
EXTENDS Integers, Sequences, FiniteSets, SequencesExt

CONSTANTS
    RouteTargets, \* where routes lead to
    Neighbours,   \* peers that routes are learned from
    Sources,      \* tags of where a candidate comes from
    Metrics,      \* uint32
    PathLens,     \* lengths of the paths that are offered
    Healths,      \* what is said of them: "up", "down", "unknown" or nothing
    TTLs,         \* 0 stands for "not given"
    DefaultTTL,   \* 60 seconds
    Callers,      \* goroutines that use the store
    MaxClock,     \* bound on the clock
    MaxOps,       \* bound: operations begun
    NoPath

ASSUME RoutesAssumption ==
    /\ Metrics \subseteq Nat /\ PathLens \subseteq Nat \ {0} /\ TTLs \subseteq Nat
    /\ DefaultTTL \in Nat \ {0}
    /\ {MaxClock, MaxOps} \subseteq Nat
    /\ \A m \in Metrics, n \in PathLens : 60 % ((IF m = 0 THEN 1 ELSE m) + n) = 0

VARIABLES
    seeded,     \* targets whose keys exist
    path,       \* target -> metric and length of the path learned, or NoPath
    cands,      \* target -> candidates
    routeIndex,
    clock,
    caller,     \* caller -> the operation it is in
    opsBegun

routeVars == <<seeded, path, cands, routeIndex, clock, caller, opsBegun>>

Resting == [op |-> "none"]

RsInit ==
    /\ seeded \in SUBSET RouteTargets
    /\ path = [t \in RouteTargets |-> NoPath]
    /\ cands = [t \in RouteTargets |-> <<>>]
    /\ routeIndex = {}
    /\ clock = 0
    /\ caller = [c \in Callers |-> Resting]
    /\ opsBegun = 0

Tick ==
    /\ clock < MaxClock
    /\ clock' = clock + 1
    /\ UNCHANGED <<seeded, path, cands, routeIndex, caller, opsBegun>>

\* An operation begins: its arguments, and the time it has read.
Begin(c, call) ==
    /\ caller[c] = Resting /\ opsBegun < MaxOps
    /\ opsBegun' = opsBegun + 1
    /\ caller' = [caller EXCEPT ![c] = call]
    /\ UNCHANGED <<seeded, path, cands, routeIndex, clock>>

Returns(c) == caller' = [caller EXCEPT ![c] = Resting]

-----------------------------------------------------------------------------
(* LearnPath.                                                              *)

Better(old, metric, len) ==
    \/ old = NoPath
    \/ metric < old[1]
    \/ metric = old[1] /\ len < old[2]

BeginLearn(c) ==
    \E t \in RouteTargets, m \in Metrics, l \in PathLens :
        Begin(c, [op |-> "learn", target |-> t, metric |-> m, len |-> l])

LearnPath(c) ==
    /\ caller[c].op = "learn"
    /\ LET r == caller[c] IN
       path' = IF r.target \in seeded /\ Better(path[r.target], r.metric, r.len)
                 THEN [path EXCEPT ![r.target] = <<r.metric, r.len>>] ELSE path
    /\ Returns(c)
    /\ UNCHANGED <<seeded, cands, routeIndex, clock, opsBegun>>

-----------------------------------------------------------------------------
(* Candidates.                                                             *)

\* One that runs out now is used still.
LiveAtDeadline(cs, now) == SelectSeq(cs, LAMBDA x : x.expires >= now)

\* Those that have not run out at time now.
Live(cs, now) ==
    LET out[i \in 0..Len(cs)] ==
          IF i = 0 THEN <<>>
          ELSE IF cs[i].expires > now THEN Append(out[i - 1], cs[i]) ELSE out[i - 1]
    IN  out[Len(cs)]

SameSource(x, y) == x.from = y.from /\ x.source = y.source

\* What is found is replaced, what has run out stays.
MergedUnpruned(cs, rc, now) ==
    IF \E i \in DOMAIN cs : SameSource(cs[i], rc) /\ cs[i].expires > now
      THEN [i \in DOMAIN cs |-> IF SameSource(cs[i], rc) /\ cs[i].expires > now THEN rc ELSE cs[i]]
      ELSE Append(cs, rc)

\* rc is appended unless it was before: replaced.
Placed(cs, rc) == IF \E i \in DOMAIN cs : SameSource(cs[i], rc) THEN cs ELSE Append(cs, rc)

\* Those that have run out are dropped; rc takes the place of the first of its
\* source, other ones of which go too, or comes last.
Merged(cs, rc, now) ==
    LET keep[i \in 0..Len(cs)] ==
          IF i = 0 THEN <<>>
          ELSE IF cs[i].expires <= now THEN keep[i - 1]
          ELSE IF SameSource(cs[i], rc) THEN Placed(keep[i - 1], rc)
          ELSE Append(keep[i - 1], cs[i])
    IN  Placed(keep[Len(cs)], rc)

BeginUpsert(c) ==
    \E t \in RouteTargets, n \in Neighbours, s \in Sources, m \in Metrics, l \in PathLens,
       h \in Healths, d \in TTLs :
        Begin(c, [op |-> "upsert", target |-> t, now |-> clock,
                  from |-> n, source |-> s, metric |-> m, len |-> l, health |-> h, ttl |-> d])

Candidate(r) ==
    [from |-> r.from, source |-> r.source, metric |-> r.metric, len |-> r.len,
     health |-> r.health, updated |-> r.now,
     expires |-> r.now + (IF r.ttl = 0 THEN DefaultTTL ELSE r.ttl)]

\* The index is written whether or not the candidate was kept.
UpsertRouteCandidate(c) ==
    /\ caller[c].op = "upsert"
    /\ LET t == caller[c].target IN
       /\ cands' = IF t \in seeded
                     THEN [cands EXCEPT ![t] = Merged(@, Candidate(caller[c]), caller[c].now)] ELSE cands
       /\ routeIndex' = routeIndex \cup {t}
    /\ Returns(c)
    /\ UNCHANGED <<seeded, path, clock, opsBegun>>

BeginConfirm(c) ==
    \E t \in RouteTargets, n \in Neighbours, s \in Sources, h \in {"up", "down"}, d \in TTLs :
        Begin(c, [op |-> "confirm", target |-> t, now |-> clock, from |-> n, source |-> s,
                  health |-> h, ttl |-> d])

\* Confirmation reaches candidates that have run out as well.
Confirmed(x, r) ==
    IF SameSource(x, r)
      THEN [x EXCEPT !.health = r.health, !.updated = r.now,
                     !.expires = IF r.ttl > 0 THEN r.now + r.ttl ELSE @]
      ELSE x

ConfirmRoute(c) ==
    /\ caller[c].op = "confirm"
    /\ cands' = [cands EXCEPT ![caller[c].target] =
                    [i \in DOMAIN @ |-> Confirmed(@[i], caller[c])]]
    /\ Returns(c)
    /\ UNCHANGED <<seeded, path, routeIndex, clock, opsBegun>>

-----------------------------------------------------------------------------
(* The best candidate, for the router.                                     *)

\* Times 60, and without the freshness, which is too small to matter but
\* between equals.
routeScore(x) ==
    (CASE x.health = "up" -> 600 [] x.health = "unknown" -> 300 [] OTHER -> 0)
    + 60000 \div ((IF x.metric = 0 THEN 1 ELSE x.metric) + x.len)

Beats(x, y) ==
    \/ routeScore(x) > routeScore(y)
    \/ routeScore(x) = routeScore(y) /\ x.updated > y.updated

\* The loop keeps the best so far.
Pick(cs) ==
    LET best[i \in 0..(Len(cs) - 1)] ==
          IF i = 0 THEN cs[1]
          ELSE IF Beats(cs[i + 1], best[i - 1]) THEN cs[i + 1] ELSE best[i - 1]
    IN  best[Len(cs) - 1]

BeginBest(c) == \E t \in RouteTargets : Begin(c, [op |-> "best", target |-> t, now |-> clock])

GetRouteCandidates(c, t) == Live(cands[t], caller[c].now)

\* The answer is kept until the caller is done with it.
BestRouteCandidate(c) ==
    /\ caller[c].op = "best"
    /\ LET cs == GetRouteCandidates(c, caller[c].target) IN
       caller' = [caller EXCEPT ![c] = [op |-> "chosen",
                                        best |-> IF cs = <<>> THEN NoPath ELSE Pick(cs)]]
    /\ UNCHANGED <<seeded, path, cands, routeIndex, clock, opsBegun>>

\* What is said of a candidate: not when it runs out.
RouteCandidatePB(t, x) ==
    [target |-> t, from |-> x.from, source |-> x.source, metric |-> x.metric, len |-> x.len,
     health |-> x.health, updated |-> x.updated]

\* buildRoutesReply: the targets that are indexed, then the candidates of each.
BeginReply(c) == Begin(c, [op |-> "reply", todo |-> routeIndex, now |-> clock, rows |-> {}])

ReplyTarget(c) ==
    /\ caller[c].op = "reply"
    /\ \E t \in caller[c].todo :
          caller' = [caller EXCEPT ![c] =
             [op |-> "reply", todo |-> caller[c].todo \ {t}, now |-> clock,
              rows |-> caller[c].rows \cup
                       {RouteCandidatePB(t, x) : x \in ToSet(Live(cands[t], clock))}]]
    /\ UNCHANGED <<seeded, path, cands, routeIndex, clock, opsBegun>>

Use(c) ==
    /\ \/ caller[c].op = "chosen"
       \/ caller[c].op = "reply" /\ caller[c].todo = {}
    /\ Returns(c)
    /\ UNCHANGED <<seeded, path, cands, routeIndex, clock, opsBegun>>

-----------------------------------------------------------------------------

RsNext ==
    \/ Tick
    \/ \E c \in Callers :
          \/ BeginLearn(c) \/ LearnPath(c)
          \/ BeginUpsert(c) \/ UpsertRouteCandidate(c)
          \/ BeginConfirm(c) \/ ConfirmRoute(c)
          \/ BeginBest(c) \/ BestRouteCandidate(c)
          \/ BeginReply(c) \/ ReplyTarget(c) \/ Use(c)

RsSpec == RsInit /\ [][RsNext]_routeVars

-----------------------------------------------------------------------------
(* Properties.                                                             *)

\* However late a caller comes with the time it has read, and whatever has run
\* out meanwhile, a source has one candidate for a target at most.
OneCandidatePerSource ==
    \A t \in RouteTargets : \A i, j \in DOMAIN cands[t] :
        SameSource(cands[t][i], cands[t][j]) => i = j

\* Whoever changes the candidates between the moment the router reads the clock
\* and the moment it looks, it is given one that had not run out, than which no
\* other such is better, and none only if there is none.
BestIsBest ==
    [][\A c \in Callers : caller[c].op = "best" /\ caller'[c].op = "chosen" =>
          LET live == {x \in ToSet(cands[caller[c].target]) : x.expires > caller[c].now}
              best == caller'[c].best
          IN  IF live = {} THEN best = NoPath
              ELSE best \in live /\ \A x \in live : ~Beats(x, best)]_routeVars
=============================================================================
