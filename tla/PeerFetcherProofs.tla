------------------------- MODULE PeerFetcherProofs -------------------------
(***************************************************************************)
(* The peer fetcher for every announce list.  Behind the two properties is *)
(* that what is left of the copy a request asks is an end of the list that *)
(* the answer reorders: so the index into the copy fits that list.         *)
(***************************************************************************)
EXTENDS PeerFetcher, TLAPS

-----------------------------------------------------------------------------
(* Putting a tracker first. *)

\* Where the trackers of the reordered tier were before.
Before(n, i) == [k \in 1..n |-> IF k = 1 THEN i ELSE IF k <= i THEN k - 1 ELSE k]

LEMMA BeforeIsBijection ==
  ASSUME NEW n \in Nat, NEW i \in 1..n
  PROVE  Before(n, i) \in Bijection(1..n, 1..n)
<1>1. Before(n, i) \in [1..n -> 1..n]
  BY DEF Before
<1>2. ASSUME NEW a \in 1..n, NEW b \in 1..n, Before(n, i)[a] = Before(n, i)[b]
      PROVE  a = b
  BY <1>2 DEF Before
<1>3. ASSUME NEW b \in 1..n
      PROVE  \E a \in 1..n : Before(n, i)[a] = b
  <2>1. CASE b = i
    <3>1. Before(n, i)[1] = b /\ 1 \in 1..n
      BY <2>1 DEF Before
    <3> QED
      BY <3>1
  <2>2. CASE b < i
    <3>1. b + 1 \in 1..n /\ Before(n, i)[b + 1] = b
      BY <2>2 DEF Before
    <3> QED
      BY <3>1
  <2>3. CASE b > i
    <3>1. Before(n, i)[b] = b
      BY <2>3 DEF Before
    <3> QED
      BY <3>1
  <2> QED
    BY <2>1, <2>2, <2>3
<1> QED
  BY <1>1, <1>2, <1>3 DEF Bijection, Injection, Surjection, IsInjective

LEMMA ComposedIsBijection ==
  ASSUME NEW T, NEW p \in Bijection(T, T), NEW q \in Bijection(T, T)
  PROVE  [k \in T |-> p[q[k]]] \in Bijection(T, T)
<1> DEFINE r == [k \in T |-> p[q[k]]]
<1>1. /\ p \in [T -> T] /\ q \in [T -> T]
      /\ \A a, b \in T : p[a] = p[b] => a = b
      /\ \A a, b \in T : q[a] = q[b] => a = b
  BY DEF Bijection, Injection, IsInjective
<1>2. /\ \A b \in T : \E a \in T : p[a] = b
      /\ \A b \in T : \E a \in T : q[a] = b
  BY DEF Bijection, Surjection
<1>3. r \in [T -> T]
  BY <1>1
<1>4. \A a, b \in T : r[a] = r[b] => a = b
  BY <1>1
<1>5. ASSUME NEW b \in T
      PROVE  \E a \in T : r[a] = b
  <2>1. PICK c \in T : p[c] = b
    BY <1>2
  <2>2. PICK a \in T : q[a] = c
    BY <1>2
  <2> QED
    BY <2>1, <2>2
<1> HIDE DEF r
<1>6. r \in Injection(T, T)
  BY <1>3, <1>4 DEF Injection, IsInjective
<1>7. r \in Surjection(T, T)
  BY <1>3, <1>5 DEF Surjection
<1> QED
  BY <1>6, <1>7 DEF Bijection, r

LEMMA JoinedSeqs ==
  ASSUME NEW S, NEW a \in Seq(S), NEW b \in Seq(S)
  PROVE  /\ a \o b \in Seq(S) /\ Len(a \o b) = Len(a) + Len(b)
         /\ \A k \in 1..(Len(a) + Len(b)) :
              (a \o b)[k] = IF k <= Len(a) THEN a[k] ELSE b[k - Len(a)]
  OBVIOUS

LEMMA PromotedIs ==
  ASSUME NEW S, NEW tier \in Seq(S), NEW i \in 1..Len(tier)
  PROVE  /\ Promoted(tier, i) \in Seq(S)
         /\ DOMAIN Promoted(tier, i) = 1..Len(tier)
         /\ \A k \in 1..Len(tier) : Promoted(tier, i)[k] = tier[Before(Len(tier), i)[k]]
<1>1. PICK before : before = SubSeq(tier, 1, i - 1)
  OBVIOUS
<1>2. PICK after : after = SubSeq(tier, i + 1, Len(tier))
  OBVIOUS
<1>3. /\ before \in Seq(S) /\ Len(before) = i - 1
      /\ \A k \in 1..(i - 1) : before[k] = tier[k]
  BY <1>1
<1>4. /\ after \in Seq(S) /\ Len(after) = Len(tier) - i
      /\ \A k \in 1..(Len(tier) - i) : after[k] = tier[k + i]
  BY <1>2
<1>5. PICK first : first = <<tier[i]>>
  OBVIOUS
<1>6. first \in Seq(S) /\ Len(first) = 1 /\ first[1] = tier[i]
  BY <1>5
<1>7. Promoted(tier, i) = first \o (before \o after)
  BY <1>1, <1>2, <1>5 DEF Promoted, RemoveAt
<1>8. PICK rest : rest = before \o after
  OBVIOUS
<1> /\ Len(tier) \in Nat /\ i - 1 \in Nat /\ Len(tier) - i \in Nat
    /\ (i - 1) + (Len(tier) - i) = Len(tier) - 1 /\ 1 + (Len(tier) - 1) = Len(tier)
  OBVIOUS
<1>9. /\ rest \in Seq(S) /\ Len(rest) = Len(tier) - 1
      /\ \A k \in 1..(Len(tier) - 1) :
           rest[k] = IF k <= i - 1 THEN before[k] ELSE after[k - (i - 1)]
  <2>1. before \in Seq(S) /\ after \in Seq(S)
    BY <1>3, <1>4
  <2>2. /\ rest \in Seq(S) /\ Len(rest) = Len(before) + Len(after)
        /\ \A k \in 1..(Len(before) + Len(after)) :
             rest[k] = IF k <= Len(before) THEN before[k] ELSE after[k - Len(before)]
    BY ONLY <2>1, <1>8, JoinedSeqs
  <2>3. Len(before) = i - 1 /\ Len(before) + Len(after) = Len(tier) - 1
    BY <1>3, <1>4
  <2> QED
    BY <2>2, <2>3
<1>10. PICK moved : moved = first \o rest
  OBVIOUS
<1>11. /\ moved \in Seq(S) /\ Len(moved) = Len(tier)
       /\ \A k \in 1..Len(tier) : moved[k] = IF k = 1 THEN tier[i] ELSE rest[k - 1]
  <2>1. first \in Seq(S) /\ rest \in Seq(S)
    BY <1>6, <1>9
  <2>2. /\ moved \in Seq(S) /\ Len(moved) = Len(first) + Len(rest)
        /\ \A k \in 1..(Len(first) + Len(rest)) :
             moved[k] = IF k <= Len(first) THEN first[k] ELSE rest[k - Len(first)]
    BY ONLY <2>1, <1>10, JoinedSeqs
  <2>3. Len(first) = 1 /\ Len(first) + Len(rest) = Len(tier)
    BY <1>6, <1>9
  <2>4. ASSUME NEW k \in 1..Len(tier)
        PROVE  moved[k] = IF k = 1 THEN tier[i] ELSE rest[k - 1]
    <3>1. moved[k] = IF k <= 1 THEN first[k] ELSE rest[k - 1]
      BY <2>2, <2>3
    <3> QED
      BY <3>1, <1>6
  <2> QED
    BY <2>2, <2>3, <2>4
<1>12. ASSUME NEW k \in 1..Len(tier)
       PROVE  moved[k] = tier[Before(Len(tier), i)[k]]
  <2>1. CASE k = 1
    BY <2>1, <1>11 DEF Before
  <2>2. CASE k # 1 /\ k <= i
    <3>1. k - 1 \in 1..(Len(tier) - 1) /\ k - 1 \in 1..(i - 1) /\ k - 1 <= i - 1
      BY <2>2
    <3>2. moved[k] = tier[k - 1]
      BY <3>1, <2>2, <1>11, <1>9, <1>3
    <3> QED
      BY <3>2, <2>2 DEF Before
  <2>3. CASE k > i
    <3>1. /\ k # 1 /\ k - 1 \in 1..(Len(tier) - 1) /\ ~(k - 1 <= i - 1)
          /\ (k - 1) - (i - 1) \in 1..(Len(tier) - i) /\ ((k - 1) - (i - 1)) + i = k
      BY <2>3
    <3>2. moved[k] = rest[k - 1]
      BY <3>1, <1>11
    <3>3. rest[k - 1] = after[(k - 1) - (i - 1)]
      BY <3>1, <1>9
    <3>4. after[(k - 1) - (i - 1)] = tier[k]
      BY <3>1, <1>4
    <3> QED
      BY <3>1, <3>2, <3>3, <3>4, <2>3 DEF Before
  <2> QED
    BY <2>1, <2>2, <2>3
<1>13. Promoted(tier, i) = moved
  BY <1>7, <1>8, <1>10
<1>14. DOMAIN moved = 1..Len(tier)
  BY <1>11
<1> QED
  BY <1>11, <1>12, <1>13, <1>14

\* One tracker is put first: the tier is still a reordering of the listed one.
LEMMA PromotedIsReordering ==
  ASSUME NEW S, NEW listed \in Seq(S), NEW tier \in Seq(S), IsReordering(tier, listed),
         NEW i \in 1..Len(tier)
  PROVE  IsReordering(Promoted(tier, i), listed)
<1>1. PICK n \in Nat : n = Len(listed) /\ DOMAIN listed = 1..n
  OBVIOUS
<1>2. PICK p \in Bijection(1..n, 1..n) : tier = [k \in 1..n |-> listed[p[k]]]
  BY <1>1 DEF IsReordering
<1>3. Len(tier) = n
  BY <1>2
<1>4. PICK q : q = Before(n, i)
  OBVIOUS
<1>5. q \in Bijection(1..n, 1..n)
  BY <1>3, <1>4, BeforeIsBijection
<1>6. PICK r : r = [k \in 1..n |-> p[q[k]]]
  OBVIOUS
<1>7. r \in Bijection(1..n, 1..n)
  BY <1>2, <1>5, <1>6, ComposedIsBijection
<1>8. PICK moved : moved = Promoted(tier, i)
  OBVIOUS
<1>9. /\ moved \in Seq(S) /\ DOMAIN moved = 1..n
      /\ \A k \in 1..n : moved[k] = tier[q[k]]
  <2>1. /\ moved \in Seq(S)
        /\ DOMAIN moved = 1..Len(tier)
        /\ \A k \in 1..Len(tier) : moved[k] = tier[Before(Len(tier), i)[k]]
    BY ONLY tier \in Seq(S), i \in 1..Len(tier), <1>8, PromotedIs
  <2> QED
    BY <2>1, <1>3, <1>4
<1>10. \A k \in 1..n : q[k] \in 1..n
  BY <1>5 DEF Bijection, Injection
<1>11. \A k \in 1..n : moved[k] = listed[r[k]]
  BY <1>2, <1>6, <1>9, <1>10
<1>12. moved = [k \in 1..n |-> listed[r[k]]]
  BY <1>9, <1>11
<1> QED
  BY <1>1, <1>7, <1>8, <1>12 DEF IsReordering

LEMMA SameIsReordering ==
  ASSUME NEW S, NEW listed \in Seq(S)
  PROVE  IsReordering(listed, listed)
<1>1. PICK n \in Nat : n = Len(listed) /\ DOMAIN listed = 1..n
  OBVIOUS
<1>2. PICK p : p = [k \in 1..n |-> k]
  OBVIOUS
<1>3. p \in Bijection(1..n, 1..n)
  BY <1>2 DEF Bijection, Injection, Surjection, IsInjective
<1>4. listed = [k \in 1..n |-> listed[p[k]]]
  BY <1>1, <1>2
<1> QED
  BY <1>1, <1>3, <1>4 DEF IsReordering

-----------------------------------------------------------------------------
(* The inductive invariant. *)

FetcherTypeOK ==
  /\ announce_list \in [Tier -> Seq(STRING)]
  /\ state \in {"Starting", "Requesting", "Running", "Ended"}
  /\ urls \in [Tier -> Seq(STRING)]
  /\ first_response \in Interval \cup {NoInterval}
  /\ peer_list \subseteq Address
  /\ tracker_req_interval \in Interval \cup {NoInterval}
  /\ throttle \in Interval \cup {NoInterval}
  /\ connections \in [Address -> Nat]
  /\ requests \in Nat

\* What is still to be asked of a tier is an end of its list.
AsksTheRest ==
  \A t \in Tier :
    /\ Len(urls[t]) <= Len(announce_list[t])
    /\ \A k \in 1..Len(urls[t]) :
         urls[t][k] = announce_list[t][k + (Len(announce_list[t]) - Len(urls[t]))]

\* There are addresses only of a response that had an interval.
AddressesAreAnswers == peer_list # {} => ~Unanswered

\* The manager runs exactly on the interval of a response.
RunsOnAnInterval ==
  /\ state = "Running" => tracker_req_interval \in Interval
  /\ tracker_req_interval = NoInterval <=> throttle = NoInterval
  /\ state = "Ended" => Unanswered

FetcherInv ==
  /\ FetcherTypeOK
  /\ TiersKeepTheirTrackers
  /\ AsksTheRest
  /\ AddressesAreAnswers
  /\ RunsOnAnInterval

-----------------------------------------------------------------------------
(* It is kept. *)

LEMMA TierTypes ==
  ASSUME NEW t \in Tier
  PROVE  Tiers[t] \in Seq(STRING)
BY FetcherAssumption DEF Tier

LEMMA InitInv == Init => FetcherInv
<1> SUFFICES ASSUME Init PROVE FetcherInv
  OBVIOUS
<1>1. FetcherTypeOK
  <2>1. announce_list \in [Tier -> Seq(STRING)]
    BY FetcherAssumption DEF Init, Tier
  <2> QED
    BY <2>1 DEF Init, FetcherTypeOK
<1>2. TiersKeepTheirTrackers
  BY TierTypes, SameIsReordering DEF Init, TiersKeepTheirTrackers
<1>3. AsksTheRest
  BY FetcherTypeOK, <1>1 DEF Init, AsksTheRest, FetcherTypeOK
<1>4. AddressesAreAnswers /\ RunsOnAnInterval
  BY FetcherAssumption DEF Init, AddressesAreAnswers, RunsOnAnInterval, Unanswered
<1> QED
  BY <1>1, <1>2, <1>3, <1>4 DEF FetcherInv

LEMMA RequestInv == FetcherInv /\ Request => FetcherInv'
<1> SUFFICES ASSUME FetcherInv, Request PROVE FetcherInv'
  OBVIOUS
<1> USE DEF FetcherInv, Request
<1>1. FetcherTypeOK'
  BY DEF FetcherTypeOK
<1>2. TiersKeepTheirTrackers'
  BY DEF TiersKeepTheirTrackers
<1>3. AsksTheRest'
  <2> SUFFICES ASSUME NEW t \in Tier
               PROVE  /\ Len(urls'[t]) <= Len(announce_list'[t])
                      /\ \A k \in 1..Len(urls'[t]) : urls'[t][k] =
                           announce_list'[t][k + (Len(announce_list'[t]) - Len(urls'[t]))]
    BY DEF AsksTheRest
  <2>1. urls'[t] = announce_list'[t] /\ Len(urls'[t]) \in Nat
    BY DEF FetcherTypeOK
  <2> QED
    BY <2>1
<1>4. AddressesAreAnswers' /\ RunsOnAnInterval'
  BY DEF AddressesAreAnswers, RunsOnAnInterval, Unanswered
<1> QED
  BY <1>1, <1>2, <1>3, <1>4

\* Both a failure and a timeout leave less of one tier to be asked.
LEMMA AsksLess ==
  ASSUME FetcherInv, NEW t \in Tier, urls[t] # <<>>,
         NEW rest, rest = Tail(urls[t]) \/ rest = <<>>,
         urls' = [urls EXCEPT ![t] = rest], announce_list' = announce_list
  PROVE  urls' \in [Tier -> Seq(STRING)] /\ AsksTheRest'
<1>1. urls \in [Tier -> Seq(STRING)] /\ announce_list \in [Tier -> Seq(STRING)]
  BY DEF FetcherInv, FetcherTypeOK
<1>2. rest \in Seq(STRING)
  <2>1. PICK was : was = urls[t]
    OBVIOUS
  <2>2. was \in Seq(STRING) /\ was # <<>> /\ (rest = Tail(was) \/ rest = <<>>)
    BY <1>1, <2>1
  <2>3. Tail(was) \in Seq(STRING)
    <3>1. was \in Seq(STRING) /\ was # <<>>
      BY <2>2
    <3> QED
      BY ONLY <3>1
  <2>4. <<>> \in Seq(STRING)
    OBVIOUS
  <2> QED
    BY ONLY <2>2, <2>3, <2>4
<1>3. urls' \in [Tier -> Seq(STRING)]
  BY <1>1, <1>2
<1>4. ASSUME NEW s \in Tier
      PROVE  /\ Len(urls'[s]) <= Len(announce_list[s])
             /\ \A k \in 1..Len(urls'[s]) :
                  urls'[s][k] = announce_list[s][k + (Len(announce_list[s]) - Len(urls'[s]))]
  <2>1. /\ Len(urls[s]) <= Len(announce_list[s])
        /\ \A k \in 1..Len(urls[s]) :
             urls[s][k] = announce_list[s][k + (Len(announce_list[s]) - Len(urls[s]))]
    BY DEF FetcherInv, AsksTheRest
  <2>2. CASE s # t
    <3>1. urls'[s] = urls[s]
      BY <1>1, <2>2
    <3> QED
      BY <2>1, <3>1
  <2>3. CASE s = t /\ rest = <<>>
    <3>1. urls'[s] = <<>> /\ Len(announce_list[s]) \in Nat
      BY <1>1, <2>3
    <3>2. PICK n \in Nat : n = Len(announce_list[s])
      BY <3>1
    <3>3. Len(<<>>) <= n /\ \A k \in 1..Len(<<>>) :
            <<>>[k] = announce_list[s][k + (n - Len(<<>>))]
      OBVIOUS
    <3> QED
      BY ONLY <3>1, <3>2, <3>3
  <2>4. CASE s = t /\ rest = Tail(urls[t])
    <3>1. PICK now : now = urls'[s]
      OBVIOUS
    <3>2. PICK was : was = urls[s]
      OBVIOUS
    <3>3. now = Tail(was) /\ was # <<>> /\ was \in Seq(STRING)
      BY <1>1, <2>4, <3>1, <3>2
    <3>4. /\ Len(now) = Len(was) - 1 /\ Len(was) \in Nat \ {0}
          /\ \A k \in 1..(Len(was) - 1) : now[k] = was[k + 1]
      BY ONLY <3>3
    <3>5. PICK n \in Nat : n = Len(announce_list[s])
      BY <1>1
    <3>6. ASSUME NEW k \in 1..(Len(was) - 1)
          PROVE  now[k] = announce_list[s][k + (n - (Len(was) - 1))]
      <4>1. k + 1 \in 1..Len(was) /\ (k + 1) + (n - Len(was)) = k + (n - (Len(was) - 1))
        BY <3>4
      <4>2. was[k + 1] = announce_list[s][(k + 1) + (n - Len(was))]
        BY <4>1, <2>1, <3>2, <3>5
      <4> QED
        BY <4>1, <4>2, <3>4
    <3>7. Len(was) - 1 <= n
      BY <2>1, <3>2, <3>4, <3>5
    <3>8. Len(now) <= n /\ \A k \in 1..Len(now) : now[k] = announce_list[s][k + (n - Len(now))]
      BY <3>4, <3>6, <3>7
    <3>9. urls'[s] = now /\ Len(announce_list[s]) = n
      BY <3>1, <3>5
    <3> QED
      BY ONLY <3>8, <3>9
  <2> QED
    BY <2>2, <2>3, <2>4
<1> QED
  BY <1>3, <1>4 DEF AsksTheRest

LEMMA FailsInv ==
  ASSUME FetcherInv, NEW t \in Tier, Fails(t) \/ TimesOut(t)
  PROVE  FetcherInv'
<1>1. urls' \in [Tier -> Seq(STRING)] /\ AsksTheRest'
  <2>1. CASE Fails(t)
    BY <2>1, AsksLess DEF Fails
  <2>2. CASE TimesOut(t)
    BY <2>2, AsksLess DEF TimesOut
  <2> QED
    BY <2>1, <2>2
<1>2. UNCHANGED <<announce_list, state, first_response, peer_list,
                  tracker_req_interval, throttle, connections, requests>>
  BY DEF Fails, TimesOut
<1>3. FetcherTypeOK'
  BY <1>1, <1>2 DEF FetcherInv, FetcherTypeOK
<1>4. TiersKeepTheirTrackers'
  BY <1>2 DEF FetcherInv, TiersKeepTheirTrackers
<1>5. AddressesAreAnswers' /\ RunsOnAnInterval'
  BY <1>2 DEF FetcherInv, AddressesAreAnswers, RunsOnAnInterval, Unanswered
<1> QED
  BY <1>1, <1>3, <1>4, <1>5 DEF FetcherInv

\* The copy's first tracker is the one at the index of the list.
LEMMA AskedIsAtIndex ==
  ASSUME FetcherInv, NEW t \in Tier, urls[t] # <<>>
  PROVE  /\ IndexOfUrl(t) \in 1..Len(announce_list[t])
         /\ urls[t][1] = announce_list[t][IndexOfUrl(t)]
<1>1. PICK n \in Nat : n = Len(announce_list[t])
  BY DEF FetcherInv, FetcherTypeOK
<1>2. PICK m \in Nat \ {0} : m = Len(urls[t])
  <2>1. PICK u : u = urls[t]
    OBVIOUS
  <2>2. u \in Seq(STRING) /\ u # <<>>
    BY <2>1 DEF FetcherInv, FetcherTypeOK
  <2>3. Len(u) \in Nat \ {0}
    BY ONLY <2>2
  <2> QED
    BY <2>1, <2>3
<1>3. m <= n /\ \A k \in 1..m : urls[t][k] = announce_list[t][k + (n - m)]
  BY <1>1, <1>2 DEF FetcherInv, AsksTheRest
<1>4. 1 \in 1..m /\ 1 + (n - m) = n - m + 1 /\ n - m + 1 \in 1..n
  BY <1>3
<1>5. urls[t][1] = announce_list[t][n - m + 1]
  BY <1>3, <1>4
<1> QED
  BY <1>1, <1>2, <1>4, <1>5 DEF IndexOfUrl

LEMMA AnswersInv ==
  ASSUME FetcherInv, NEW t \in Tier, Answers(t)
  PROVE  FetcherInv'
<1>1. /\ announce_list \in [Tier -> Seq(STRING)] /\ urls \in [Tier -> Seq(STRING)]
      /\ announce_list' = [announce_list EXCEPT ![t] = Promoted(@, IndexOfUrl(t))]
      /\ urls' = [urls EXCEPT ![t] = <<>>]
  BY DEF FetcherInv, FetcherTypeOK, Answers
<1>2. IndexOfUrl(t) \in 1..Len(announce_list[t])
  BY AskedIsAtIndex DEF Answers
<1>3. PICK moved : moved = Promoted(announce_list[t], IndexOfUrl(t))
  OBVIOUS
<1>4. moved \in Seq(STRING)
  BY <1>1, <1>2, <1>3, PromotedIs
<1>5. announce_list'[t] = moved /\ \A s \in Tier : s # t => announce_list'[s] = announce_list[s]
  BY <1>1, <1>3
<1>6. urls'[t] = <<>> /\ \A s \in Tier : s # t => urls'[s] = urls[s]
  BY <1>1
<1>7. announce_list' \in [Tier -> Seq(STRING)] /\ urls' \in [Tier -> Seq(STRING)]
  BY <1>1, <1>3, <1>4
<1>8. peer_list' \subseteq Address /\ first_response' \in Interval
  BY DEF FetcherInv, FetcherTypeOK, Answers
<1>9. UNCHANGED <<state, tracker_req_interval, throttle, connections, requests>>
  BY DEF Answers
<1>10. FetcherTypeOK'
  BY <1>7, <1>8, <1>9 DEF FetcherInv, FetcherTypeOK
<1>11. TiersKeepTheirTrackers'
  <2> SUFFICES ASSUME NEW s \in Tier PROVE IsReordering(announce_list'[s], Tiers[s])
    BY DEF TiersKeepTheirTrackers
  <2>1. IsReordering(announce_list[s], Tiers[s])
    BY DEF FetcherInv, TiersKeepTheirTrackers
  <2>2. CASE s = t
    <3>1. Tiers[t] \in Seq(STRING) /\ announce_list[t] \in Seq(STRING)
      BY <1>1, TierTypes
    <3>2. IsReordering(moved, Tiers[t])
      BY <3>1, <2>1, <2>2, <1>2, <1>3, PromotedIsReordering
    <3> QED
      BY <3>2, <2>2, <1>5
  <2>3. CASE s # t
    BY <2>1, <2>3, <1>5
  <2> QED
    BY <2>2, <2>3
<1>12. AsksTheRest'
  <2> SUFFICES ASSUME NEW s \in Tier
               PROVE  /\ Len(urls'[s]) <= Len(announce_list'[s])
                      /\ \A k \in 1..Len(urls'[s]) : urls'[s][k] =
                           announce_list'[s][k + (Len(announce_list'[s]) - Len(urls'[s]))]
    BY DEF AsksTheRest
  <2>1. CASE s = t
    BY <2>1, <1>4, <1>5, <1>6
  <2>2. CASE s # t
    BY <2>2, <1>5, <1>6 DEF FetcherInv, AsksTheRest
  <2> QED
    BY <2>1, <2>2
<1>13. AddressesAreAnswers' /\ RunsOnAnInterval'
  BY <1>8, <1>9, FetcherAssumption
    DEF FetcherInv, AddressesAreAnswers, RunsOnAnInterval, Unanswered, Answers
<1> QED
  BY <1>10, <1>11, <1>12, <1>13 DEF FetcherInv

LEMMA RespondsInv == FetcherInv /\ Responds => FetcherInv'
<1> SUFFICES ASSUME FetcherInv, Responds PROVE FetcherInv'
  OBVIOUS
<1>1. UNCHANGED <<announce_list, urls, first_response, peer_list, requests>>
  BY DEF Responds
<1>2. FetcherTypeOK'
  <2>1. connections' \in [Address -> Nat]
    <3>1. CASE Unanswered
      BY <3>1 DEF Responds, FetcherInv, FetcherTypeOK
    <3>2. CASE ~Unanswered
      <4>1. connections' =
              [a \in Address |-> connections[a] + (IF a \in peer_list THEN 1 ELSE 0)]
        BY <3>2 DEF Responds
      <4>2. \A a \in Address : connections[a] \in Nat
        BY DEF FetcherInv, FetcherTypeOK
      <4> QED
        BY <4>1, <4>2
    <3> QED
      BY <3>1, <3>2
  <2>2. /\ tracker_req_interval' \in Interval \cup {NoInterval}
        /\ throttle' \in Interval \cup {NoInterval}
        /\ state' \in {"Starting", "Requesting", "Running", "Ended"}
    BY DEF Responds, Unanswered, FetcherInv, FetcherTypeOK
  <2> QED
    BY <1>1, <2>1, <2>2 DEF FetcherInv, FetcherTypeOK
<1>3. TiersKeepTheirTrackers' /\ AsksTheRest'
  BY <1>1 DEF FetcherInv, TiersKeepTheirTrackers, AsksTheRest
<1>4. AddressesAreAnswers'
  BY <1>1 DEF FetcherInv, AddressesAreAnswers, Unanswered
<1>5. RunsOnAnInterval'
  <2>1. CASE Unanswered
    BY <2>1, <1>1 DEF Responds, FetcherInv, RunsOnAnInterval, Unanswered
  <2>2. CASE ~Unanswered
    BY <2>2, <1>1, FetcherAssumption
      DEF Responds, FetcherInv, FetcherTypeOK, RunsOnAnInterval, Unanswered
  <2> QED
    BY <2>1, <2>2
<1> QED
  BY <1>2, <1>3, <1>4, <1>5 DEF FetcherInv

LEMMA NextInv == FetcherInv /\ [Next]_vars => FetcherInv'
<1> SUFFICES ASSUME FetcherInv, [Next]_vars PROVE FetcherInv'
  OBVIOUS
<1>1. CASE Request
  BY <1>1, RequestInv
<1>2. CASE Responds
  BY <1>2, RespondsInv
<1>3. ASSUME NEW t \in Tier, Fails(t) \/ TimesOut(t)
      PROVE  FetcherInv'
  BY <1>3, FailsInv
<1>4. ASSUME NEW t \in Tier, Answers(t)
      PROVE  FetcherInv'
  BY <1>4, AnswersInv
<1>5. CASE UNCHANGED vars
  BY <1>5 DEF vars, FetcherInv, FetcherTypeOK, TiersKeepTheirTrackers, AsksTheRest,
              AddressesAreAnswers, RunsOnAnInterval, Unanswered
<1> QED
  BY <1>1, <1>2, <1>3, <1>4, <1>5 DEF Next

\* The inductive invariant of the fetcher: types, tiers that are reordered and
\* nothing else, and copies that are ends of the lists they were taken from.
THEOREM FetcherInvariant == Spec => []FetcherInv
<1> QED
  BY InitInv, NextInv, PTL DEF Spec

-----------------------------------------------------------------------------
(* What follows from it. *)

\* No answer of a tracker, in whatever order the tiers answer, costs a tier one
\* of its trackers (get_tracker_response).
THEOREM TiersAlwaysKeepTheirTrackers == Spec => []TiersKeepTheirTrackers
<1>1. FetcherInv => TiersKeepTheirTrackers
  BY DEF FetcherInv
<1> QED
  BY <1>1, FetcherInvariant, PTL

\* get_tracker_response only reorders the tier of a tracker that answered, and
\* puts this very tracker first.
THEOREM AnswererAlwaysBecomesFirst == Spec => AnswererBecomesFirst
<1>1. ASSUME FetcherInv, [Next]_vars, NEW t \in Tier, announce_list'[t] # announce_list[t]
      PROVE  urls[t] # <<>> /\ announce_list'[t][1] = urls[t][1]
  <2>1. Answers(t)
    <3>1. \A s \in Tier : Answers(s) => s = t
      BY <1>1 DEF Answers, FetcherInv, FetcherTypeOK
    <3>2. \E s \in Tier : Answers(s)
      BY <1>1 DEF Next, vars, Request, Responds, Fails, TimesOut
    <3> QED
      BY <3>1, <3>2
  <2>2. urls[t] # <<>>
    BY <2>1 DEF Answers
  <2>3. /\ IndexOfUrl(t) \in 1..Len(announce_list[t])
        /\ urls[t][1] = announce_list[t][IndexOfUrl(t)]
    BY <1>1, <2>2, AskedIsAtIndex
  <2>4. announce_list[t] \in Seq(STRING) /\ Len(announce_list[t]) \in Nat
    BY <1>1 DEF FetcherInv, FetcherTypeOK
  <2>5. announce_list'[t] = Promoted(announce_list[t], IndexOfUrl(t))
    BY <1>1, <2>1 DEF Answers, FetcherInv, FetcherTypeOK
  <2>6. 1 \in 1..Len(announce_list[t])
    BY <2>3, <2>4
  <2>7. Promoted(announce_list[t], IndexOfUrl(t))[1] =
          announce_list[t][Before(Len(announce_list[t]), IndexOfUrl(t))[1]]
    BY <2>3, <2>4, <2>6, PromotedIs
  <2>8. Before(Len(announce_list[t]), IndexOfUrl(t))[1] = IndexOfUrl(t)
    BY <2>6 DEF Before
  <2> QED
    BY <2>2, <2>3, <2>5, <2>7, <2>8
<1>2. FetcherInv /\ [Next]_vars =>
        [\A t \in Tier : announce_list'[t] # announce_list[t] =>
           urls[t] # <<>> /\ announce_list'[t][1] = urls[t][1]]_vars
  BY <1>1
<1> QED
  BY <1>2, FetcherInvariant, PTL DEF Spec, AnswererBecomesFirst

\* A manager that gives up (req_tracker_add_peers' error) throws no address away.
GivesUpEmptyHanded == state = "Ended" => peer_list = {}

THEOREM GivesUpOnlyUnanswered == Spec => []GivesUpEmptyHanded
<1>1. FetcherInv => GivesUpEmptyHanded
  BY DEF FetcherInv, AddressesAreAnswers, RunsOnAnInterval, GivesUpEmptyHanded
<1> QED
  BY <1>1, FetcherInvariant, PTL
=============================================================================
