---------------------------- MODULE PeerFetcher ----------------------------
(***************************************************************************)
(* The peer fetcher (peer_fetcher.rs) and its use in the manager's loop:   *)
(* a request goes to the trackers of every tier at once, to those of one   *)
(* tier in turn; the first response of each tier counts.                   *)
(***************************************************************************)
EXTENDS Naturals, Sequences, SequencesExt, FiniteSets

CONSTANTS
  Tiers,            \* the announce list: a sequence of sequences of trackers
  Address,          \* addresses of peers
  Interval,         \* the intervals in the trackers' responses
  NoInterval,       \* none yet
  Enough,           \* NUM_ENOUGH_PEERS_TO_START (20)
  MaxRequests       \* bound: the tracker is requested no more often

Tier == DOMAIN Tiers

ASSUME FetcherAssumption ==
  /\ Tiers \in Seq(Seq(STRING))
  /\ Interval \subseteq Nat /\ NoInterval \notin Interval
  /\ Enough \in Nat \ {0} /\ MaxRequests \in Nat

VARIABLES
  announce_list,    \* the tiers, as they are ordered by now
  state,            \* of the manager: "Starting", "Requesting", "Running" or "Ended"
  urls,             \* of each tier, the trackers that are still to be asked
  first_response,   \* the interval of the first response to this request
  peer_list,        \* the addresses of all responses to it
  tracker_req_interval,
  throttle,         \* the interval of the stream that calls for requests
  connections,      \* how often each address was connected to
  requests          \* how many requests were made

vars == <<announce_list, state, urls, first_response, peer_list,
          tracker_req_interval, throttle, connections, requests>>

-----------------------------------------------------------------------------

\* get_tracker_response asks a copy of every tier's list.
Request ==
  /\ state \in {"Starting", "Running"} /\ requests < MaxRequests
  /\ requests' = requests + 1
  /\ state' = "Requesting"
  /\ urls' = announce_list
  /\ first_response' = NoInterval
  /\ peer_list' = {}
  /\ UNCHANGED <<announce_list, tracker_req_interval, throttle, connections>>

\* A tracker cannot be reached, or its answer cannot be decoded.
Fails(t) ==
  /\ state = "Requesting" /\ urls[t] # <<>>
  /\ urls' = [urls EXCEPT ![t] = Tail(@)]
  /\ UNCHANGED <<announce_list, state, first_response, peer_list,
                 tracker_req_interval, throttle, connections, requests>>

\* TRACKER_REQUEST_TIMEOUT is over: the rest of the tier is not asked.
TimesOut(t) ==
  /\ state = "Requesting" /\ urls[t] # <<>>
  /\ urls' = [urls EXCEPT ![t] = <<>>]
  /\ UNCHANGED <<announce_list, state, first_response, peer_list,
                 tracker_req_interval, throttle, connections, requests>>

\* mutant: the index is taken for the one in what is left of the list
PromotesAfterRemoval(tier, i) ==
  LET rest == RemoveAt(tier, i) IN <<rest[IF i > Len(rest) THEN 1 ELSE i]>> \o rest

\* The tracker that answered becomes the first of its tier.
Promoted(tier, i) == <<tier[i]>> \o RemoveAt(tier, i)

IndexOfUrl(t) == Len(announce_list[t]) - Len(urls[t]) + 1

Answers(t) ==
  /\ state = "Requesting" /\ urls[t] # <<>> /\ Cardinality(peer_list) < Enough
  /\ \E peers \in SUBSET Address : peer_list' = peer_list \cup peers
  /\ IF first_response = NoInterval THEN first_response' \in Interval
     ELSE UNCHANGED first_response
  /\ announce_list' = [announce_list EXCEPT ![t] = Promoted(@, IndexOfUrl(t))]
  /\ urls' = [urls EXCEPT ![t] = <<>>]
  /\ UNCHANGED <<state, tracker_req_interval, throttle, connections, requests>>

\* mutant: only enough peers end a request
NeverAll == FALSE

AllAsked == \A t \in Tier : urls[t] = <<>>

Unanswered == first_response = NoInterval

\* req_tracker_add_peers, when all tiers are through or there are enough
\* peers: all addresses are connected to, the ones that already are as well.
\* The stream is built with the interval of the first request.
Responds ==
  /\ state = "Requesting"
  /\ \/ AllAsked
     \/ Cardinality(peer_list) >= Enough
  /\ state' = IF Unanswered THEN "Ended" ELSE "Running"
  /\ IF Unanswered THEN UNCHANGED <<tracker_req_interval, throttle, connections>>
     ELSE /\ tracker_req_interval' = first_response
          /\ throttle' = IF throttle = NoInterval THEN first_response ELSE throttle
          /\ connections' = [a \in Address |-> connections[a] + (IF a \in peer_list THEN 1 ELSE 0)]
  /\ UNCHANGED <<announce_list, urls, first_response, peer_list, requests>>

-----------------------------------------------------------------------------

Init ==
  /\ announce_list = Tiers
  /\ state = "Starting"
  /\ urls = [t \in Tier |-> <<>>]
  /\ first_response = NoInterval
  /\ peer_list = {}
  /\ tracker_req_interval = NoInterval /\ throttle = NoInterval
  /\ connections = [a \in Address |-> 0]
  /\ requests = 0

Next ==
  \/ Request \/ Responds
  \/ \E t \in Tier : Fails(t) \/ TimesOut(t) \/ Answers(t)

Spec == Init /\ [][Next]_vars

\* Every request to a tier has a timeout.
FairSpec == Spec /\ (\A t \in Tier : WF_vars(TimesOut(t))) /\ WF_vars(Responds)

-----------------------------------------------------------------------------

IsReordering(s, t) ==
  \E p \in Bijection(DOMAIN t, DOMAIN t) : s = [i \in DOMAIN t |-> t[p[i]]]

\* However often trackers answer in whatever order, a tier keeps all its
\* trackers, each as often as it was listed: the index into the copy still
\* fits the list that is changed.
TiersKeepTheirTrackers == \A t \in Tier : IsReordering(announce_list[t], Tiers[t])

\* A tier is only reordered when one of its trackers answers, and this one
\* comes first: the index counts from where the request began to ask, however
\* many trackers have failed since.
AnswererBecomesFirst ==
  [][\A t \in Tier : announce_list'[t] # announce_list[t] =>
       urls[t] # <<>> /\ announce_list'[t][1] = urls[t][1]]_vars

\* The trackers that answer nothing never hold the manager's loop for ever.
RequestEnds == state = "Requesting" ~> state # "Requesting"

-----------------------------------------------------------------------------
(* What the repository says and the code does not keep: the model refutes  *)
(* each of these (README, section 4).                                       *)

\* "An integer, indicating how often your client should make a request to the
\* tracker" (tracker.rs): the requests follow the last response's interval.
IntervalIsFollowed == state = "Running" => throttle = tracker_req_interval
=============================================================================
