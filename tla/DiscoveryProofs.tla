---------------------------- MODULE DiscoveryProofs ----------------------------
(***************************************************************************)
(* What the indexers and the predictors answer, for every question: theorems    *)
(* about their operators, and from them the invariants of Parts about them.     *)
(***************************************************************************)
EXTENDS PartsProofs
-----------------------------------------------------------------------------
(* The indexers: offers. *)

\* An offer as the indexer reads it.
IsOfferRead(offer) ==
  /\ offer.authorized \in BOOLEAN /\ offer.readable \in BOOLEAN /\ offer.expiry \in Int
  /\ offer.preLLTV \in Int /\ offer.preLLTV < 10000
  /\ {offer.lcf[1], offer.lcf[2], offer.lif[1], offer.lif[2]} \subseteq Int

\* Its terms where no interpolation is left to do.
FinalTerms(offer) == [closeFactor |-> offer.lcf[2], incentive |-> offer.lif[2], expiry |-> offer.expiry]

\* What the cache may hold for an offer.
Holds(cache, offer) == cache = NoOfferTerms \/ cache = FinalTerms(offer)

\* An offer is looked up for a health factor, up to a bound.
LooksUp(offer, hf, maxHf) == hf > 10000 /\ hf < maxHf /\ offer.address # NoAddress /\ offer.authorized

\* Terms are attached between one and the bound only, by leave of the borrower and before
\* they expire, and there they are the offer's second ones; they are wherever they can be read.
AttachedRightly(terms, offer, hf, maxHf, now) ==
  /\ terms # NoOfferTerms => LooksUp(offer, hf, maxHf) /\ offer.expiry > now /\ terms = FinalTerms(offer)
  /\ LooksUp(offer, hf, maxHf) /\ offer.readable /\ offer.expiry > now => terms # NoOfferTerms

\* Where it is looked up an offer is worth its second terms, whatever the health factor.
LEMMA TermsAboveOne ==
  ASSUME NEW offer, IsOfferRead(offer), NEW hf \in Int, NEW maxHf, LooksUp(offer, hf, maxHf)
  PROVE  LET t == Interpolation(offer.preLLTV, hf)
         IN [closeFactor |-> Interpolate(offer.lcf[1], offer.lcf[2], t),
             incentive |-> Interpolate(offer.lif[1], offer.lif[2], t), expiry |-> offer.expiry] = FinalTerms(offer)
<1> DEFINE d == 10000 - offer.preLLTV
           x == 10000 * (hf - offer.preLLTV)
           t == Interpolation(offer.preLLTV, hf)
<1>1. d \in Int /\ d > 0 /\ x \in Int /\ x >= 10000 * d BY SMT DEF IsOfferRead, LooksUp
<1>2. x \div d >= 10000
  <2> HIDE DEF x, d
  <2> QED BY <1>1, SMT
<1>3. t = Between(0, x \div d, 10000) BY SMT DEF Interpolation
<1>4. x \div d \in Int BY <1>1, SMT
<1>5. Between(0, x \div d, 10000) = 10000
  <2> HIDE DEF x, d
  <2> QED BY <1>2, <1>4, SMT DEF Between
<1>6. \A a, b \in Int : Interpolate(a, b, 10000) = b BY SMT DEF Interpolate
<1>7. t = 10000 BY <1>3, <1>5, SMT
<1> HIDE DEF t
<1>8. Interpolate(offer.lcf[1], offer.lcf[2], t) = offer.lcf[2] /\ Interpolate(offer.lif[1], offer.lif[2], t) = offer.lif[2]
  BY <1>6, <1>7, SMT DEF IsOfferRead
<1>9. [closeFactor |-> Interpolate(offer.lcf[1], offer.lcf[2], t),
       incentive |-> Interpolate(offer.lif[1], offer.lif[2], t), expiry |-> offer.expiry] = FinalTerms(offer)
  BY <1>8 DEF FinalTerms
<1> QED BY <1>9 DEF t

\* An offer is attached rightly, whatever the cache holds of it, and so is what the cache
\* holds afterwards.
THEOREM OfferTerms ==
  ASSUME NEW candidate, candidate.hf \in Int, NEW offer, IsOfferRead(offer), NEW cache, Holds(cache, offer),
         NEW maxHf \in Int, NEW now \in Int
  PROVE  LET got == enrichWithPreLiqOffer(candidate, offer, cache, maxHf, now)
         IN Holds(got.cache, offer) /\ AttachedRightly(got.terms, offer, candidate.hf, maxHf, now)
<1> DEFINE got == enrichWithPreLiqOffer(candidate, offer, cache, maxHf, now)
           asked == LooksUp(offer, candidate.hf, maxHf)
           fetched == fetchOfferParams(cache, offer, candidate.hf)
           terms == FinalTerms(offer)
<1>1. terms # NoOfferTerms /\ terms.expiry = offer.expiry
  <2>1. terms \in [closeFactor : Int, incentive : Int, expiry : Int] BY SMT DEF FinalTerms, IsOfferRead
  <2> QED BY <2>1, IndexersAssumption, SMT DEF FinalTerms
<1>2. CASE ~asked
  <2>1. got = [cache |-> cache, terms |-> NoOfferTerms] BY <1>2, SMT DEF enrichWithPreLiqOffer, LooksUp
  <2>2. got.cache = cache /\ got.terms = NoOfferTerms BY <2>1
  <2> HIDE DEF got
  <2> QED BY <1>2, <2>2 DEF AttachedRightly, got
<1>3. CASE asked
  <2>1. \/ fetched = [cache |-> terms, terms |-> terms]
        \/ fetched = [cache |-> NoOfferTerms, terms |-> NoOfferTerms] /\ ~offer.readable
    <3>1. CASE cache # NoOfferTerms
      <4>1. cache = terms BY <3>1 DEF Holds
      <4>2. fetched = [cache |-> cache, terms |-> cache] BY <3>1, SMT DEF fetchOfferParams
      <4> QED BY <4>1, <4>2
    <3>2. CASE cache = NoOfferTerms /\ ~offer.readable
      BY <3>2, SMT DEF fetchOfferParams
    <3>3. CASE cache = NoOfferTerms /\ offer.readable
      <4> DEFINE t == Interpolation(offer.preLLTV, candidate.hf)
                 read == [closeFactor |-> Interpolate(offer.lcf[1], offer.lcf[2], t),
                          incentive |-> Interpolate(offer.lif[1], offer.lif[2], t), expiry |-> offer.expiry]
      <4>1. fetched = [cache |-> read, terms |-> read] BY <3>3, SMT DEF fetchOfferParams
      <4>2. read = terms BY <1>3, TermsAboveOne
      <4> QED BY <4>1, <4>2
    <3> QED BY <3>1, <3>2, <3>3 DEF IsOfferRead
  <2>2. got = IF fetched.terms = NoOfferTerms \/ fetched.terms.expiry <= now
              THEN [fetched EXCEPT !.terms = NoOfferTerms] ELSE fetched
    BY <1>3, SMT DEF enrichWithPreLiqOffer, LooksUp
  <2>3. offer.expiry \in Int BY DEF IsOfferRead
  <2> HIDE DEF got, fetched, terms, asked
  <2>4. CASE fetched = [cache |-> terms, terms |-> terms] /\ offer.expiry > now
    <3>1. fetched.terms = terms /\ fetched.cache = terms BY <2>4
    <3>2. got = fetched BY <1>1, <2>2, <2>3, <2>4, <3>1, SMT
    <3> QED BY <1>1, <1>3, <2>4, <3>1, <3>2 DEF Holds, AttachedRightly, terms, asked, got
  <2>5. CASE fetched = [cache |-> terms, terms |-> terms] /\ ~(offer.expiry > now)
    <3>1. fetched.terms = terms BY <2>5
    <3>2. got = [fetched EXCEPT !.terms = NoOfferTerms] BY <1>1, <2>2, <2>3, <2>5, <3>1, SMT
    <3>3. got.terms = NoOfferTerms /\ got.cache = terms BY <2>5, <3>2
    <3> QED BY <2>5, <3>3 DEF Holds, AttachedRightly, terms, got
  <2>6. CASE fetched = [cache |-> NoOfferTerms, terms |-> NoOfferTerms] /\ ~offer.readable
    <3>1. fetched.terms = NoOfferTerms BY <2>6
    <3>2. got = [fetched EXCEPT !.terms = NoOfferTerms] BY <2>2, <3>1, SMT
    <3>3. got.terms = NoOfferTerms /\ got.cache = NoOfferTerms BY <2>6, <3>2
    <3> QED BY <2>6, <3>3 DEF Holds, AttachedRightly, got
  <2> QED BY <2>1, <2>4, <2>5, <2>6
<1> QED BY <1>2, <1>3

\* The same of a position, which is no candidate at a health factor of zero.
LEMMA EnrichedRightly ==
  ASSUME NEW offer, IsOfferRead(offer), NEW cache, Holds(cache, offer), NEW hf \in Nat, NEW now \in Int
  PROVE  LET got == enriched(offer, cache, hf, now)
         IN Holds(got.cache, offer) /\ AttachedRightly(got.terms, offer, hf, 10500, now)
<1> DEFINE position == [user |-> "u", hf |-> hf, debt |-> 5, loanAsset |-> "A", collAsset |-> "B"]
           candidate == toCandidate(position)
           got == enriched(offer, cache, hf, now)
<1>1. position.hf = hf /\ position.debt = 5 OBVIOUS
<1>2. CASE hf = 0
  <2>1. candidate = NoCandidate BY <1>1, <1>2, SMT DEF toCandidate
  <2>2. got = [cache |-> cache, terms |-> NoOfferTerms] BY <2>1, SMT DEF enriched
  <2>3. got.cache = cache /\ got.terms = NoOfferTerms BY <2>2
  <2> HIDE DEF got
  <2> QED BY <1>2, <2>3, SMT DEF AttachedRightly, LooksUp, got
<1>3. CASE hf # 0
  <2>1. candidate = [user |-> "u", hf |-> hf, debt |-> "A", coll |-> "B"]
    <3>1. hf # NoHf BY IndexersAssumption
    <3>2. candidate = [user |-> position.user, hf |-> position.hf, debt |-> position.loanAsset, coll |-> position.collAsset]
      BY <1>1, <1>3, <3>1, SMT DEF toCandidate
    <3> QED BY <3>2
  <2>2. candidate.hf = hf /\ candidate # NoCandidate
    <3>1. candidate \in [user : ListedUsers, hf : Int, debt : ListedAssets, coll : ListedAssets]
      BY <2>1 DEF ListedUsers, ListedAssets
    <3> QED BY <2>1, <3>1, CandidateAssumption
  <2> DEFINE most == 10500
             made == enrichWithPreLiqOffer(candidate, offer, cache, most, now)
  <2>3. got = made BY <2>2, SMT DEF enriched
  <2> HIDE DEF candidate
  <2>4. candidate.hf \in Int /\ most \in Int BY <2>2
  <2> HIDE DEF most
  <2>5. Holds(made.cache, offer) /\ AttachedRightly(made.terms, offer, candidate.hf, most, now)
    BY <2>4, OfferTerms
  <2> HIDE DEF got, made
  <2> QED BY <2>2, <2>3, <2>5 DEF got, most
<1> QED BY <1>2, <1>3

\* The indexer's answer on an offer is sound.
LEMMA OfferAnswered == AskOffer => decision'.about = "offer" /\ OfferSound'
<1> SUFFICES ASSUME AskOffer PROVE decision'.about = "offer" /\ OfferSound' OBVIOUS
<1>1. PICK offer \in OffersRead, first \in {0, 9000, 10000, 10200, 10600}, second \in {0, 9000, 10000, 10200, 10600} :
         AnswerOffer(offer, first, second)
  BY SMT DEF AskOffer
<1> DEFINE one == enriched(offer, NoOfferTerms, first, 1)
           two == enriched(offer, one.cache, second, 2)
<1>2. IsOfferRead(offer) BY DEF IsOfferRead, OffersRead
<1>3. decision' = [about |-> "offer", offer |-> offer, hfs |-> <<first, second>>, terms |-> <<one.terms, two.terms>>]
  BY <1>1, SMT DEF AnswerOffer, Decide
<1> DEFINE Sound(hf, now, terms) == AttachedRightly(terms, offer, hf, 10500, now)
<1>4. first \in Nat /\ second \in Nat OBVIOUS
<1>5. Holds(NoOfferTerms, offer) BY DEF Holds
<1>6. Holds(one.cache, offer) /\ Sound(first, 1, one.terms)
  <2> DEFINE none == NoOfferTerms
             got == enriched(offer, none, first, 1)
  <2>1. Holds(none, offer) BY <1>5
  <2> HIDE DEF none
  <2>2. Holds(got.cache, offer) /\ AttachedRightly(got.terms, offer, first, 10500, 1) BY <1>2, <1>4, <2>1, EnrichedRightly
  <2> HIDE DEF got
  <2> QED BY <2>2 DEF got, none
<1>7. Sound(second, 2, two.terms)
  <2> DEFINE kept == one.cache
  <2>1. Holds(kept, offer) BY <1>6
  <2> HIDE DEF kept
  <2>2. Sound(second, 2, enriched(offer, kept, second, 2).terms)
    BY <1>2, <1>4, <2>1, EnrichedRightly
  <2> QED BY <2>2 DEF kept
<1> DEFINE t1 == one.terms
           t2 == two.terms
<1>8. Sound(first, 1, t1) /\ Sound(second, 2, t2) BY <1>6, <1>7
<1>9. decision' = [about |-> "offer", offer |-> offer, hfs |-> <<first, second>>, terms |-> <<t1, t2>>] BY <1>3
<1> HIDE DEF one, two, t1, t2
<1>10. /\ decision'.about = "offer" /\ decision'.offer = offer
       /\ decision'.hfs[1] = first /\ decision'.hfs[2] = second
       /\ decision'.terms[1] = t1 /\ decision'.terms[2] = t2
  BY <1>9
<1>11. FinalTerms(offer).closeFactor = offer.lcf[2] /\ FinalTerms(offer).incentive = offer.lif[2]
       /\ FinalTerms(offer).expiry = offer.expiry
  BY DEF FinalTerms
<1>12. ASSUME NEW i \in 1..2
       PROVE  LET hf == decision'.hfs[i]
                  terms == decision'.terms[i]
              IN /\ terms # NoOfferTerms =>
                      /\ hf > 10000 /\ hf < 10500
                      /\ decision'.offer.authorized /\ terms.expiry > i
                      /\ terms.closeFactor = decision'.offer.lcf[2] /\ terms.incentive = decision'.offer.lif[2]
                 /\ hf = 10200 /\ decision'.offer.authorized /\ decision'.offer.readable
                      /\ decision'.offer.address # NoAddress /\ decision'.offer.expiry > i => terms # NoOfferTerms
  <2>1. CASE i = 1 BY <1>8, <1>10, <1>11, <2>1, SMT DEF AttachedRightly, LooksUp
  <2>2. CASE i = 2 BY <1>8, <1>10, <1>11, <2>2, SMT DEF AttachedRightly, LooksUp
  <2> QED BY <2>1, <2>2, SMT
<1>13. OfferSound' BY <1>12, SMT DEF OfferSound, About
<1> QED BY <1>10, <1>13
-----------------------------------------------------------------------------
(* The indexers: boosts. *)

\* What holds at first and is carried over by every step holds throughout.
LEMMA Carried ==
  ASSUME NEW n \in Nat, NEW w, NEW Good, w[0] \in Good[0],
         \A k \in 1..n : w[k - 1] \in Good[k - 1] => w[k] \in Good[k]
  PROVE  \A k \in 0..n : w[k] \in Good[k]
<1> DEFINE S == {k \in Nat : k <= n => w[k] \in Good[k]}
<1>1. 0 \in S OBVIOUS
<1>2. \A k \in Nat : k \in S => k + 1 \in S
  <2> SUFFICES ASSUME NEW k \in Nat, w[k] \in Good[k], k + 1 <= n PROVE w[k + 1] \in Good[k + 1] OBVIOUS
  <2>1. k + 1 \in 1..n /\ (k + 1) - 1 = k OBVIOUS
  <2> QED BY <2>1
<1>3. Nat \subseteq S
  <2> HIDE DEF S
  <2> QED BY <1>1, <1>2, NatInductionSet
<1> QED BY <1>3

\* Boosts, ticks and questions as they come.
AreEvents(events, n) ==
  /\ DOMAIN events = 1..n /\ Len(events) = n
  /\ \A i \in 1..n : /\ events[i].kind \in {"boost", "tick", "ask"}
                     /\ events[i].kind = "boost" =>
                          events[i].hf \in Int /\ events[i].first \in Int /\ events[i].duration \in Nat

Overrides == [left : Nat, hfThreshold : Int, first : Int]

\* Settings within their bounds.
IsConfig(config) ==
  /\ config \in [hfThreshold : Int, first : Int]
  /\ config.hfThreshold >= 3000 /\ config.hfThreshold <= 99999 /\ config.first >= 1 /\ config.first <= 1000

\* After k events what is left of the override is what the last boost asked for, less the
\* ticks since.
Lasts(events, k, left) ==
  left > 0 =>
    \E i \in 1..k : /\ events[i].kind = "boost"
                    /\ \A j \in (i + 1)..k : events[j].kind # "boost"
                    /\ Cardinality({j \in (i + 1)..k : events[j].kind = "tick"}) + left <= events[i].duration

\* An event sets the override, lets time pass or leaves what is left of it.
OverriddenBy(event, o, to) ==
  /\ to \in Overrides
  /\ event.kind = "boost" => to.left = event.duration
  /\ event.kind = "tick" => to.left = (IF o.left = 0 THEN 0 ELSE o.left - 1)
  /\ event.kind = "ask" => to.left = o.left

\* Each event does just that.
LEMMA OverrideStep ==
  ASSUME NEW config, NEW o \in Overrides, NEW events, NEW n \in Nat, AreEvents(events, n), NEW k \in 1..n
  PROVE  OverriddenBy(events[k], o, nextOverride(config, o, events[k]))
<1> DEFINE e == events[k]
           to == nextOverride(config, o, e)
<1>0. o.left \in Nat /\ o.hfThreshold \in Int /\ o.first \in Int BY DEF Overrides
<1>1. e.kind \in {"boost", "tick", "ask"} /\ (e.kind = "boost" => e.hf \in Int /\ e.first \in Int /\ e.duration \in Nat)
  BY DEF AreEvents
<1> HIDE DEF e
<1>2. CASE e.kind = "boost"
  <2>1. to = requestIndexerBoost(o, e.hf, e.first, e.duration) BY <1>2, SMT DEF nextOverride
  <2>2. to = [left |-> e.duration, hfThreshold |-> IF e.hf # 0 THEN e.hf ELSE o.hfThreshold,
              first |-> IF e.first # 0 THEN e.first ELSE o.first]
    BY <2>1, Zenon DEF requestIndexerBoost
  <2> QED BY <1>0, <1>1, <1>2, <2>2 DEF Overrides, OverriddenBy, e
<1>3. CASE e.kind = "tick"
  <2>1. to = [o EXCEPT !.left = IF @ = 0 THEN 0 ELSE @ - 1] BY <1>3, SMT DEF nextOverride
  <2> QED BY <1>0, <1>3, <2>1 DEF Overrides, OverriddenBy, e
<1>4. CASE e.kind = "ask"
  <2>1. to = getIndexerSettings(config, o).override BY <1>4, SMT DEF nextOverride
  <2>2. to = IF o.left > 0 THEN o ELSE NoBoost BY <2>1, SMT DEF getIndexerSettings
  <2> QED BY <1>0, <1>4, <2>2 DEF Overrides, OverriddenBy, NoBoost, e
<1> QED BY <1>1, <1>2, <1>3, <1>4

\* So what is left is always what the last boost left.
LEMMA LastsStep ==
  ASSUME NEW events, NEW n \in Nat, AreEvents(events, n), NEW k \in 1..n, NEW from \in Nat, NEW to \in Nat,
         Lasts(events, k - 1, from),
         events[k].kind = "boost" => to = events[k].duration,
         events[k].kind = "tick" => to = (IF from = 0 THEN 0 ELSE from - 1),
         events[k].kind = "ask" => to = from
  PROVE  Lasts(events, k, to)
<1> SUFFICES ASSUME to > 0
             PROVE  \E i \in 1..k : /\ events[i].kind = "boost"
                                    /\ \A j \in (i + 1)..k : events[j].kind # "boost"
                                    /\ Cardinality({j \in (i + 1)..k : events[j].kind = "tick"}) + to <= events[i].duration
  BY DEF Lasts
<1>1. CASE events[k].kind = "boost"
  <2>1. {j \in (k + 1)..k : events[j].kind = "tick"} = {} /\ (k + 1)..k = {} BY SMT
  <2>2. Cardinality({}) = 0 BY FS_EmptySet
  <2>3. to = events[k].duration BY <1>1
  <2>4. Cardinality({j \in (k + 1)..k : events[j].kind = "tick"}) + to <= events[k].duration BY <2>1, <2>2, <2>3
  <2>5. \A j \in (k + 1)..k : events[j].kind # "boost" BY <2>1
  <2>6. k \in 1..k OBVIOUS
  <2> QED BY <1>1, <2>4, <2>5, <2>6, Zenon
<1>2. CASE events[k].kind \in {"tick", "ask"}
  <2>1. from > 0 BY <1>2
  <2>2. PICK i \in 1..(k - 1) :
          /\ events[i].kind = "boost"
          /\ \A j \in (i + 1)..(k - 1) : events[j].kind # "boost"
          /\ Cardinality({j \in (i + 1)..(k - 1) : events[j].kind = "tick"}) + from <= events[i].duration
    BY <2>1 DEF Lasts
  <2> DEFINE before == {j \in (i + 1)..(k - 1) : events[j].kind = "tick"}
             since == {j \in (i + 1)..k : events[j].kind = "tick"}
  <2>3. \A j \in (i + 1)..k : events[j].kind # "boost"
    <3> SUFFICES ASSUME NEW j \in (i + 1)..k PROVE events[j].kind # "boost" OBVIOUS
    <3>1. j = k \/ j \in (i + 1)..(k - 1) BY SMT
    <3> QED BY <1>2, <2>2, <3>1
  <2>4. IsFiniteSet(before)
    <3>1. IsFiniteSet((i + 1)..(k - 1)) BY FS_Interval
    <3>2. before \subseteq (i + 1)..(k - 1) OBVIOUS
    <3> QED BY <3>1, <3>2, FS_Subset
  <2>5. Cardinality(before) \in Nat BY <2>4, FS_CardinalityType
  <2>6. events[i].duration \in Nat /\ i \in 1..k BY <2>2 DEF AreEvents
  <2>7. Cardinality(since) + to <= events[i].duration
    <3>1. CASE events[k].kind = "tick"
      <4>1. since = before \cup {k} /\ k \notin before
        <5>1. \A j \in (i + 1)..k : j = k \/ j \in (i + 1)..(k - 1) BY SMT
        <5>2. k \in (i + 1)..k /\ \A j \in (i + 1)..(k - 1) : j \in (i + 1)..k /\ j # k BY SMT
        <5> QED BY <3>1, <5>1, <5>2, Zenon
      <4>2. Cardinality(since) = Cardinality(before) + 1 BY <2>4, <4>1, FS_AddElement
      <4>3. to = from - 1 BY <2>1, <3>1
      <4> HIDE DEF since, before
      <4> QED BY <2>2, <2>5, <2>6, <4>2, <4>3 DEF before
    <3>2. CASE events[k].kind = "ask"
      <4>1. since = before
        <5>1. \A j \in (i + 1)..k : j = k \/ j \in (i + 1)..(k - 1) BY SMT
        <5>2. \A j \in (i + 1)..(k - 1) : j \in (i + 1)..k BY SMT
        <5>3. events[k].kind # "tick" BY <3>2
        <5> QED BY <5>1, <5>2, <5>3, Zenon
      <4>2. to = from BY <3>2
      <4> HIDE DEF since
      <4> QED BY <2>2, <2>5, <2>6, <4>1, <4>2
    <3> QED BY <1>2, <3>1, <3>2
  <2> QED BY <2>2, <2>3, <2>6, <2>7
<1> QED BY <1>1, <1>2 DEF AreEvents

\* After any boosts, ticks and questions, in any order, what is left of the override is
\* what the last boost asked for, less the ticks since.
LEMMA OverrideLasts ==
  ASSUME NEW config, NEW n \in Nat, NEW events, AreEvents(events, n)
  PROVE  overrideAfter(config, events) \in Overrides /\ Lasts(events, n, overrideAfter(config, events).left)
<1> DEFINE X == Overrides
           step == [i \in 1..n |-> [o \in X |-> nextOverride(config, o, events[i])]]
           answer(f) == f = [k \in 0..n |-> IF k = 0 THEN NoBoost ELSE nextOverride(config, f[k - 1], events[k])]
           w == CHOOSE f : answer(f)
<1>1. NoBoost \in X /\ NoBoost.left = 0 BY DEF NoBoost, Overrides
<1>2. \A i \in 1..n : \A o \in X : step[i][o] = nextOverride(config, o, events[i]) /\ step[i][o] \in X
  <2> SUFFICES ASSUME NEW i \in 1..n, NEW o \in X
               PROVE  step[i][o] = nextOverride(config, o, events[i]) /\ step[i][o] \in X
    OBVIOUS
  <2>1. step[i][o] = nextOverride(config, o, events[i]) OBVIOUS
  <2>2. nextOverride(config, o, events[i]) \in X BY OverrideStep DEF OverriddenBy
  <2> HIDE DEF step, X
  <2> QED BY <2>1, <2>2
<1> HIDE DEF X, step
<1>3. PICK f : History(f, X, NoBoost, n, step) BY <1>1, <1>2, Iterated DEF Steps
<1>4. f \in [0..n -> X] /\ f[0] = NoBoost /\ \A i \in 1..n : f[i] = step[i][f[i - 1]] BY <1>3 DEF History
<1>5. answer(f)
  <2>1. \A i \in 1..n : f[i] = nextOverride(config, f[i - 1], events[i])
    <3> SUFFICES ASSUME NEW i \in 1..n PROVE f[i] = nextOverride(config, f[i - 1], events[i]) OBVIOUS
    <3>1. i - 1 \in 0..n OBVIOUS
    <3>2. f[i - 1] \in X BY <1>4, <3>1
    <3> QED BY <1>2, <1>4, <3>2
  <2>2. \A i \in 0..n : i = 0 \/ i \in 1..n OBVIOUS
  <2> QED BY <1>4, <2>1, <2>2
<1>6. answer(w) BY <1>5, Zenon
<1>7. Len(events) = n BY DEF AreEvents
<1>8. overrideAfter(config, events) = w[n] BY <1>7, Zenon DEF overrideAfter
<1> HIDE DEF w
<1>9. w[0] = NoBoost /\ \A k \in 1..n : w[k] = nextOverride(config, w[k - 1], events[k])
  <2>1. w[0] = NoBoost BY <1>6
  <2>2. ASSUME NEW k \in 1..n PROVE w[k] = nextOverride(config, w[k - 1], events[k])
    <3>1. k \in 0..n /\ k # 0 OBVIOUS
    <3> QED BY <1>6, <3>1, Zenon
  <2> QED BY <2>1, <2>2
<1> HIDE DEF answer
<1> DEFINE Good == [k \in 0..n |-> {o \in X : Lasts(events, k, o.left)}]
<1>10. w[0] \in Good[0] BY <1>1, <1>9 DEF Lasts
<1>11. \A k \in 1..n : w[k - 1] \in Good[k - 1] => w[k] \in Good[k]
  <2> SUFFICES ASSUME NEW k \in 1..n, w[k - 1] \in Good[k - 1] PROVE w[k] \in Good[k] OBVIOUS
  <2>1. k - 1 \in 0..n /\ k \in 0..n OBVIOUS
  <2>2. w[k - 1] \in X /\ Lasts(events, k - 1, w[k - 1].left) BY <2>1
  <2> DEFINE o == w[k - 1]
             to == nextOverride(config, o, events[k])
  <2>3. w[k] = to BY <1>9
  <2>4. o \in Overrides BY <2>2 DEF X
  <2> HIDE DEF o
  <2>5. /\ to \in Overrides
        /\ events[k].kind = "boost" => to.left = events[k].duration
        /\ events[k].kind = "tick" => to.left = (IF o.left = 0 THEN 0 ELSE o.left - 1)
        /\ events[k].kind = "ask" => to.left = o.left
    <3>1. OverriddenBy(events[k], o, to) BY <2>4, OverrideStep
    <3> HIDE DEF to
    <3> QED BY <3>1 DEF OverriddenBy
  <2>6. o.left \in Nat /\ to.left \in Nat BY <2>4, <2>5 DEF Overrides
  <2> HIDE DEF to
  <2>7. Lasts(events, k - 1, o.left) BY <2>2 DEF o
  <2>8. Lasts(events, k, to.left) BY <2>5, <2>6, <2>7, LastsStep
  <2> QED BY <2>1, <2>3, <2>5, <2>8 DEF X
<1> HIDE DEF Good
<1>12. w[n] \in Good[n]
  <2>1. \A k \in 0..n : w[k] \in Good[k] BY <1>10, <1>11, Carried
  <2> QED BY <2>1
<1> QED BY <1>8, <1>12 DEF Good, X

\* Settings are the configured ones as soon as the last boost has run out, and within
\* their bounds before, whatever was asked for and in whatever order.
THEOREM BoostsEnd ==
  ASSUME NEW config, IsConfig(config), NEW n \in Nat, NEW events, AreEvents(events, n)
  PROVE  LET settings == getIndexerSettings(config, overrideAfter(config, events)).settings
         IN /\ ~Running(events) => settings = config
            /\ settings.hfThreshold >= 3000 /\ settings.first <= 1000
<1> DEFINE o == overrideAfter(config, events)
           settings == getIndexerSettings(config, o).settings
<1>1. o \in Overrides /\ Lasts(events, n, o.left) BY OverrideLasts
<1> HIDE DEF o
<1>2. o.left \in Nat /\ o.hfThreshold \in Int /\ o.first \in Int BY <1>1 DEF Overrides
<1> DEFINE or(field, raw) == IF o.left > 0 /\ field # 0 THEN field ELSE raw
           hf == or(o.hfThreshold, config.hfThreshold)
           first == or(o.first, config.first)
<1>3. hf \in Int /\ first \in Int BY <1>2, SMT DEF IsConfig
<1>4. settings = [hfThreshold |-> Between(3000, hf, 99999), first |-> Between(1, first, 1000)]
  BY SMT DEF getIndexerSettings
<1>5. ASSUME ~Running(events) PROVE settings = config
  <2>1. o.left = 0
    <3> SUFFICES ASSUME o.left > 0 PROVE FALSE BY <1>2
    <3>1. PICK i \in 1..n : /\ events[i].kind = "boost"
                            /\ \A j \in (i + 1)..n : events[j].kind # "boost"
                            /\ Cardinality({j \in (i + 1)..n : events[j].kind = "tick"}) + o.left <= events[i].duration
      BY <1>1 DEF Lasts
    <3> DEFINE ticks == {j \in (i + 1)..n : events[j].kind = "tick"}
    <3>2. IsFiniteSet(ticks)
      <4>1. IsFiniteSet((i + 1)..n) BY FS_Interval
      <4>2. ticks \subseteq (i + 1)..n OBVIOUS
      <4> QED BY <4>1, <4>2, FS_Subset
    <3>3. Cardinality(ticks) \in Nat BY <3>2, FS_CardinalityType
    <3>4. events[i].duration \in Nat BY <3>1 DEF AreEvents
    <3>5. Cardinality(ticks) < events[i].duration
      <4>1. Cardinality(ticks) + o.left <= events[i].duration BY <3>1
      <4> HIDE DEF ticks
      <4> QED BY <1>2, <3>3, <3>4, <4>1
    <3>6. DOMAIN events = 1..n /\ Len(events) = n BY DEF AreEvents
    <3>7. Running(events) BY <3>1, <3>5, <3>6, Zenon DEF Running
    <3> QED BY <1>5, <3>7
  <2>2. hf = config.hfThreshold /\ first = config.first BY <2>1
  <2> HIDE DEF hf, first
  <2>3. Between(3000, hf, 99999) = config.hfThreshold /\ Between(1, first, 1000) = config.first
    BY <2>2, SMT DEF Between, IsConfig
  <2>4. config = [hfThreshold |-> config.hfThreshold, first |-> config.first] BY DEF IsConfig
  <2> HIDE DEF settings
  <2> QED BY <1>4, <2>3, <2>4
<1>6. settings.hfThreshold >= 3000 /\ settings.first <= 1000
  <2> HIDE DEF hf, first
  <2>1. Between(3000, hf, 99999) >= 3000 /\ Between(1, first, 1000) <= 1000 BY <1>3, SMT DEF Between
  <2> DEFINE a == Between(3000, hf, 99999)
             b == Between(1, first, 1000)
  <2>2. settings.hfThreshold = a /\ settings.first = b
    <3> HIDE DEF settings, a, b
    <3>1. settings = [hfThreshold |-> a, first |-> b] BY <1>4 DEF a, b
    <3> QED BY <3>1
  <2>3. a >= 3000 /\ b <= 1000 BY <2>1
  <2> HIDE DEF settings, a, b
  <2> QED BY <2>2, <2>3
<1>7. /\ ~Running(events) => settings = config
      /\ settings.hfThreshold >= 3000 /\ settings.first <= 1000
  <2> HIDE DEF settings
  <2> QED BY <1>5, <1>6
<1> QED BY <1>7 DEF o

\* The indexer's answer on boosts is sound.
LEMMA BoostsAnswered == AskBoosts => decision'.about = "boosts" /\ BoostSound'
<1> DEFINE config == [hfThreshold |-> 9800, first |-> 500]
<1> SUFFICES ASSUME AskBoosts PROVE decision'.about = "boosts" /\ BoostSound' OBVIOUS
<1>1. PICK events \in UNION {[1..n -> Boosts \cup Waits] : n \in 1..3} : AnswerBoosts(config, events)
  BY SMT DEF AskBoosts
<1> DEFINE settings == getIndexerSettings(config, overrideAfter(config, events)).settings
<1>2. decision' = [about |-> "boosts", events |-> events, config |-> config, settings |-> settings]
  BY <1>1, SMT DEF AnswerBoosts, Decide
<1>3. IsConfig(config) BY SMT DEF IsConfig
<1> HIDE DEF config
<1>4. PICK n \in 1..3 : events \in [1..n -> Boosts \cup Waits] OBVIOUS
<1>5. AreEvents(events, n)
  <2>1. DOMAIN events = 1..n /\ Len(events) = n BY <1>4
  <2>2. ASSUME NEW e \in Boosts \cup Waits
        PROVE  e.kind \in {"boost", "tick", "ask"} /\ (e.kind = "boost" => e.hf \in Int /\ e.first \in Int /\ e.duration \in Nat)
    BY <2>2, SMT DEF Boosts, Waits
  <2> QED BY <1>4, <2>1, <2>2 DEF AreEvents
<1>6. /\ ~Running(events) => settings = config
      /\ settings.hfThreshold >= 3000 /\ settings.first <= 1000
  BY <1>3, <1>5, BoostsEnd
<1> HIDE DEF settings
<1>7. decision'.about = "boosts" /\ decision'.events = events /\ decision'.config = config /\ decision'.settings = settings
  BY <1>2
<1> QED BY <1>6, <1>7, SMT DEF BoostSound
-----------------------------------------------------------------------------
(* The predictor of a feed. *)

FeedStats == [last : Int, ema : Nat, samples : Nat]

\* What is known of a feed after k of its updates: the last, one interval less than
\* updates, and a mean that needs an interval and is not below the least of them.
KnownOf(updates, k, stats) ==
  IF k = 0 THEN stats = NoStats
  ELSE /\ stats \in FeedStats /\ stats.last = updates[k] /\ stats.samples = k - 1
       /\ stats.ema > 0 => \E i \in 1..(k - 1) : updates[i + 1] > updates[i]
       /\ (k > 1 /\ \A i \in 1..(k - 1) : updates[i + 1] > updates[i]) =>
            \E i \in 1..(k - 1) : stats.ema >= 10 * (updates[i + 1] - updates[i])

\* A mean of one fifth to four is not below the lesser.
LEMMA MeanBetween ==
  ASSUME NEW x \in Nat, NEW y \in Nat
  PROVE  /\ (2 * x + 8 * y) \div 10 \in Nat
         /\ \A d \in Nat : x >= d /\ y >= d => (2 * x + 8 * y) \div 10 >= d
         /\ (2 * x + 8 * y) \div 10 > 0 => x > 0 \/ y > 0
  OBVIOUS

\* An update is one more that is known.
LEMMA KnownStep ==
  ASSUME NEW n \in Nat, NEW updates \in [1..n -> Int], NEW k \in 1..n, NEW stats, KnownOf(updates, k - 1, stats)
  PROVE  KnownOf(updates, k, recordFeedUpdate(stats, updates[k]))
<1> DEFINE u == updates[k]
           to == recordFeedUpdate(stats, u)
<1>0. u \in Int OBVIOUS
<1>1. CASE k = 1
  <2>1. stats = NoStats BY <1>1 DEF KnownOf
  <2>2. to = [last |-> u, ema |-> 0, samples |-> 0] BY <2>1, Zenon DEF recordFeedUpdate
  <2>3. to \in FeedStats /\ to.last = u /\ to.ema = 0 /\ to.samples = 0 BY <1>0, <2>2 DEF FeedStats
  <2>4. KnownOf(updates, k, to)
    <3> HIDE DEF to
    <3> QED BY <1>1, <2>3, SMT DEF KnownOf
  <2> QED BY <2>4
<1>2. CASE k # 1
  <2>1. /\ stats \in FeedStats /\ stats.last = updates[k - 1] /\ stats.samples = k - 2
        /\ stats.ema > 0 => \E i \in 1..(k - 2) : updates[i + 1] > updates[i]
        /\ (k > 2 /\ \A i \in 1..(k - 2) : updates[i + 1] > updates[i]) =>
             \E i \in 1..(k - 2) : stats.ema >= 10 * (updates[i + 1] - updates[i])
    BY <1>2 DEF KnownOf
  <2> DEFINE d == u - stats.last
             interval == IF u > stats.last THEN 10 * d ELSE 0
             mean == (2 * interval + 8 * stats.ema) \div 10
             ema == IF stats.ema = 0 THEN interval ELSE mean
  <2>2. stats # NoStats BY <2>1, PredictorAssumption DEF FeedStats
  <2>3. to = [last |-> u, samples |-> stats.samples + 1, ema |-> ema]
    BY <2>2, SMT DEF recordFeedUpdate
  <2>4. stats.last \in Int /\ stats.ema \in Nat /\ stats.samples \in Nat BY <2>1 DEF FeedStats
  <2>5. interval \in Nat /\ (interval > 0 <=> u > stats.last) BY <1>0, <2>4
  <2>6. /\ mean \in Nat
        /\ \A e \in Nat : interval >= e /\ stats.ema >= e => mean >= e
        /\ mean > 0 => interval > 0 \/ stats.ema > 0
    <3> HIDE DEF interval
    <3> QED BY <2>4, <2>5, MeanBetween
  <2> HIDE DEF mean
  <2>7. ema \in Nat /\ (ema > 0 => interval > 0 \/ stats.ema > 0) BY <2>4, <2>5, <2>6
  <2>8. to \in FeedStats /\ to.last = u /\ to.samples = k - 1 /\ to.ema = ema
    <3> HIDE DEF ema
    <3> QED BY <1>0, <2>1, <2>3, <2>4, <2>7 DEF FeedStats
  <2>9. k - 1 \in 1..(k - 1) /\ updates[(k - 1) + 1] = u /\ updates[k - 1] = stats.last /\ k - 1 \in 1..n
    BY <1>2, <2>1
  <2>10. \A i \in 1..(k - 2) : i \in 1..(k - 1) /\ i \in 1..n /\ i + 1 \in 1..n OBVIOUS
  <2>11. ema > 0 => \E i \in 1..(k - 1) : updates[i + 1] > updates[i]
    <3>1. CASE interval > 0 BY <2>5, <2>9, <3>1
    <3>2. CASE stats.ema > 0 BY <2>1, <2>10, <3>2
    <3> HIDE DEF ema
    <3> QED BY <2>7, <3>1, <3>2
  <2>12. ASSUME k > 1, \A i \in 1..(k - 1) : updates[i + 1] > updates[i]
         PROVE  \E i \in 1..(k - 1) : ema >= 10 * (updates[i + 1] - updates[i])
    <3>1. u > stats.last BY <2>9, <2>12
    <3>2. d \in Nat /\ interval = 10 * d BY <1>0, <2>4, <3>1
    <3>3. d = updates[(k - 1) + 1] - updates[k - 1] BY <2>9
    <3>4. CASE k = 2
      <4>1. ~(stats.ema > 0) BY <2>1, <3>4
      <4>2. ema = interval BY <2>4, <4>1
      <4> HIDE DEF d, interval, ema
      <4> QED BY <2>9, <3>2, <3>3, <4>2
    <3>5. CASE k > 2
      <4>1. PICK i \in 1..(k - 2) : stats.ema >= 10 * (updates[i + 1] - updates[i])
        BY <2>1, <2>10, <2>12, <3>5
      <4> DEFINE di == updates[i + 1] - updates[i]
      <4>2. i \in 1..(k - 1) /\ updates[i + 1] > updates[i] /\ updates[i + 1] \in Int /\ updates[i] \in Int
        BY <2>10, <2>12
      <4>3. di \in Nat /\ di > 0 BY <4>2
      <4>4. stats.ema > 0 /\ stats.ema >= 10 * di
        <5>1. stats.ema >= 10 * di BY <4>1
        <5> HIDE DEF di
        <5> QED BY <2>4, <4>3, <5>1
      <4>5. ema = mean BY <4>4
      <4> HIDE DEF ema
      <4>6. CASE d <= di
        <5>1. 10 * d \in Nat /\ interval >= 10 * d /\ stats.ema >= 10 * d
          <6> HIDE DEF d, di, interval
          <6> QED BY <2>4, <3>2, <4>3, <4>4, <4>6
        <5>2. ema >= 10 * d
          <6> HIDE DEF d, interval
          <6> QED BY <2>6, <4>5, <5>1
        <5> QED BY <2>9, <3>3, <5>2
      <4>7. CASE d > di
        <5>1. 10 * di \in Nat /\ interval >= 10 * di
          <6> HIDE DEF d, di, interval
          <6> QED BY <3>2, <4>3, <4>7
        <5>2. ema >= 10 * di
          <6> HIDE DEF di, interval
          <6> QED BY <2>6, <4>4, <4>5, <5>1
        <5> QED BY <4>2, <5>2
      <4> HIDE DEF d, di
      <4> QED BY <3>2, <4>3, <4>6, <4>7
    <3> QED BY <2>12, <3>4, <3>5
  <2>13. KnownOf(updates, k, to)
    <3> HIDE DEF to, ema
    <3>1. to.ema > 0 => \E i \in 1..(k - 1) : updates[i + 1] > updates[i] BY <2>8, <2>11
    <3>2. (k > 1 /\ \A i \in 1..(k - 1) : updates[i + 1] > updates[i]) =>
            \E i \in 1..(k - 1) : to.ema >= 10 * (updates[i + 1] - updates[i])
      BY <2>8, <2>12, Zenon
    <3>3. k # 0 OBVIOUS
    <3> QED BY <2>8, <3>1, <3>2, <3>3, Zenon DEF KnownOf
  <2> QED BY <2>13
<1> QED BY <1>1, <1>2

\* After any updates, in order or not, that much is known of them.
LEMMA FeedKnown ==
  ASSUME NEW n \in Nat, NEW updates \in [1..n -> Int]
  PROVE  KnownOf(updates, n, statsAfter(updates))
<1> DEFINE X == FeedStats \cup {NoStats}
           step == [i \in 1..n |-> [stats \in X |-> recordFeedUpdate(stats, updates[i])]]
           answer(f) == f = [k \in 0..n |-> IF k = 0 THEN NoStats ELSE recordFeedUpdate(f[k - 1], updates[k])]
           w == CHOOSE f : answer(f)
<1>1. ASSUME NEW stats \in X, NEW u \in Int PROVE recordFeedUpdate(stats, u) \in X
  <2>1. CASE stats = NoStats
    <3>1. recordFeedUpdate(stats, u) = [last |-> u, ema |-> 0, samples |-> 0] BY <2>1, Zenon DEF recordFeedUpdate
    <3> QED BY <3>1 DEF FeedStats
  <2>2. CASE stats # NoStats
    <3> DEFINE interval == IF u > stats.last THEN 10 * (u - stats.last) ELSE 0
               ema == IF stats.ema = 0 THEN interval ELSE (2 * interval + 8 * stats.ema) \div 10
    <3>1. stats.last \in Int /\ stats.ema \in Nat /\ stats.samples \in Nat BY <2>2 DEF FeedStats
    <3>2. interval \in Nat BY <3>1
    <3>3. ema \in Nat
      <4> HIDE DEF interval
      <4> QED BY <3>1, <3>2, MeanBetween
    <3>4. recordFeedUpdate(stats, u) = [last |-> u, samples |-> stats.samples + 1, ema |-> ema]
      BY <2>2, SMT DEF recordFeedUpdate
    <3> HIDE DEF ema
    <3> QED BY <3>1, <3>3, <3>4 DEF FeedStats
  <2> QED BY <2>1, <2>2
<1>2. \A i \in 1..n : \A stats \in X : step[i][stats] = recordFeedUpdate(stats, updates[i]) /\ step[i][stats] \in X
  <2> SUFFICES ASSUME NEW i \in 1..n, NEW stats \in X
               PROVE  step[i][stats] = recordFeedUpdate(stats, updates[i]) /\ step[i][stats] \in X
    OBVIOUS
  <2>1. step[i][stats] = recordFeedUpdate(stats, updates[i]) OBVIOUS
  <2>2. updates[i] \in Int OBVIOUS
  <2> HIDE DEF step, X
  <2> QED BY <1>1, <2>1, <2>2
<1>3. NoStats \in X OBVIOUS
<1> HIDE DEF X, step
<1>4. PICK f : History(f, X, NoStats, n, step) BY <1>2, <1>3, Iterated DEF Steps
<1>5. f \in [0..n -> X] /\ f[0] = NoStats /\ \A i \in 1..n : f[i] = step[i][f[i - 1]] BY <1>4 DEF History
<1>6. answer(f)
  <2>1. \A i \in 1..n : f[i] = recordFeedUpdate(f[i - 1], updates[i])
    <3> SUFFICES ASSUME NEW i \in 1..n PROVE f[i] = recordFeedUpdate(f[i - 1], updates[i]) OBVIOUS
    <3>1. i - 1 \in 0..n OBVIOUS
    <3>2. f[i - 1] \in X BY <1>5, <3>1
    <3> QED BY <1>2, <1>5, <3>2
  <2>2. \A i \in 0..n : i = 0 \/ i \in 1..n OBVIOUS
  <2> QED BY <1>5, <2>1, <2>2
<1>7. answer(w) BY <1>6, Zenon
<1>8. Len(updates) = n BY LenProperties
<1>9. statsAfter(updates) = w[n] BY <1>8, Zenon DEF statsAfter
<1> HIDE DEF w
<1>10. w[0] = NoStats /\ \A k \in 1..n : w[k] = recordFeedUpdate(w[k - 1], updates[k])
  <2>1. w[0] = NoStats BY <1>7
  <2>2. ASSUME NEW k \in 1..n PROVE w[k] = recordFeedUpdate(w[k - 1], updates[k])
    <3>1. k \in 0..n /\ k # 0 OBVIOUS
    <3> QED BY <1>7, <3>1, Zenon
  <2> QED BY <2>1, <2>2
<1> HIDE DEF answer
<1> DEFINE Has(k) == KnownOf(updates, k, w[k])
           S == {k \in Nat : k <= n => Has(k)}
<1>11. 0 \in S BY <1>10 DEF KnownOf
<1>12. \A k \in Nat : k \in S => k + 1 \in S
  <2> SUFFICES ASSUME NEW k \in Nat, Has(k), k + 1 <= n PROVE Has(k + 1)
    <3> HIDE DEF Has
    <3> QED OBVIOUS
  <2> DEFINE m == k + 1
  <2>1. m \in 1..n /\ m - 1 = k OBVIOUS
  <2> HIDE DEF m
  <2>2. w[m] = recordFeedUpdate(w[m - 1], updates[m]) BY <1>10, <2>1
  <2>3. KnownOf(updates, m - 1, w[m - 1]) BY <2>1
  <2>4. KnownOf(updates, m, w[m]) BY <2>1, <2>2, <2>3, KnownStep
  <2> QED BY <2>4 DEF m
<1>13. Nat \subseteq S
  <2> HIDE DEF S
  <2> QED BY <1>11, <1>12, NatInductionSet
<1> HIDE DEF Has
<1>14. Has(n) BY <1>13
<1> QED BY <1>9, <1>14 DEF Has

\* An account within the margin over its cap and a feed whose updates came often enough
\* and in some interval; where they came in order, it is overdue by four fifths of the
\* shortest interval at least.
RightlyDue(updates, n, now, gapBps, hf, hfMax) ==
  /\ n > MinSamples /\ \E i \in 1..(n - 1) : updates[i + 1] > updates[i]
  /\ hf \in hfMax..(hfMax + HfMargin) /\ gapBps >= MinGapBps
  /\ (\A i \in 1..(n - 1) : updates[i + 1] > updates[i]) =>
       \E i \in 1..(n - 1) : 10 * (now - updates[n]) >= 8 * (updates[i + 1] - updates[i])

\* A precommit is for an account and a feed that are rightly due, whatever the updates and
\* whatever their order.
THEOREM PrecommitsWhenDue ==
  ASSUME NEW n \in Nat, NEW updates \in [1..n -> Int], NEW now \in Int, NEW gapBps \in Int, NEW hf \in Int,
         NEW hfMax \in Int, shouldPrecommit(statsAfter(updates), now, gapBps, hf, hfMax)
  PROVE  RightlyDue(updates, n, now, gapBps, hf, hfMax)
<1> DEFINE stats == statsAfter(updates)
<1>1. /\ gapBps >= MinGapBps /\ stats # NoStats /\ stats.samples >= MinSamples /\ stats.ema > 0 /\ now > stats.last
      /\ 100 * (now - stats.last) >= 8 * stats.ema /\ hf >= hfMax /\ hf <= hfMax + HfMargin
  BY SMT DEF shouldPrecommit
<1>2. KnownOf(updates, n, stats) BY FeedKnown
<1> HIDE DEF stats
<1>3. n # 0 BY <1>1, <1>2 DEF KnownOf
<1>4. /\ stats \in FeedStats /\ stats.last = updates[n] /\ stats.samples = n - 1
      /\ \E i \in 1..(n - 1) : updates[i + 1] > updates[i]
      /\ (n > 1 /\ \A i \in 1..(n - 1) : updates[i + 1] > updates[i]) =>
           \E i \in 1..(n - 1) : stats.ema >= 10 * (updates[i + 1] - updates[i])
  BY <1>1, <1>2, <1>3 DEF KnownOf
<1>5. MinSamples \in Int /\ HfMargin \in Int /\ MinGapBps \in Int BY PredictorAssumption
<1>6. n > 1 BY <1>4
<1>7. stats.ema \in Nat /\ updates[n] \in Int BY <1>3, <1>4 DEF FeedStats
<1>8. ASSUME \A i \in 1..(n - 1) : updates[i + 1] > updates[i]
      PROVE  \E i \in 1..(n - 1) : 10 * (now - updates[n]) >= 8 * (updates[i + 1] - updates[i])
  <2>1. PICK i \in 1..(n - 1) : stats.ema >= 10 * (updates[i + 1] - updates[i]) BY <1>4, <1>6, <1>8
  <2> DEFINE d == updates[i + 1] - updates[i]
             late == now - updates[n]
  <2>2. i \in 1..n /\ i + 1 \in 1..n OBVIOUS
  <2>3. d \in Int /\ late \in Int BY <1>7, <2>2
  <2>4. stats.ema >= 10 * d /\ 100 * late >= 8 * stats.ema BY <1>1, <1>4, <2>1
  <2>5. 10 * late >= 8 * d
    <3> HIDE DEF d, late
    <3> QED BY <1>7, <2>3, <2>4
  <2> QED BY <2>5
<1> QED BY <1>1, <1>3, <1>4, <1>5, <1>8 DEF RightlyDue

\* What being rightly due says.
LEMMA DueUnfolds ==
  ASSUME NEW updates, NEW n, NEW now, NEW gapBps, NEW hf, NEW hfMax, RightlyDue(updates, n, now, gapBps, hf, hfMax)
  PROVE  /\ n > MinSamples /\ \E i \in 1..(n - 1) : updates[i + 1] > updates[i]
         /\ hf \in hfMax..(hfMax + HfMargin) /\ gapBps >= MinGapBps
         /\ (\A i \in 1..(n - 1) : updates[i + 1] > updates[i]) =>
              \E i \in 1..(n - 1) : 10 * (now - updates[n]) >= 8 * (updates[i + 1] - updates[i])
  BY Zenon DEF RightlyDue

\* The predictor's answer on a feed is sound.
LEMMA FeedAnswered == AskFeed => decision'.about = "feed" /\ FeedSound'
<1> SUFFICES ASSUME AskFeed PROVE decision'.about = "feed" /\ FeedSound' OBVIOUS
<1>1. PICK updates \in UNION {[1..n -> 1..5] : n \in 1..4}, later \in 1..3, gapBps \in {100, 200},
           hf \in {970, 980, 1010, 1011} :
         \E newest \in ToSet(updates) :
           /\ \A t \in ToSet(updates) : t <= newest
           /\ AnswerFeed(updates, newest + later, gapBps, hf)
  BY Zenon DEF AskFeed
<1>2. PICK newest \in ToSet(updates) : AnswerFeed(updates, newest + later, gapBps, hf) BY <1>1
<1> DEFINE now == newest + later
           due == shouldPrecommit(statsAfter(updates), now, gapBps, hf, 980)
<1>3. decision' = [about |-> "feed", updates |-> updates, now |-> now, gapBps |-> gapBps, hf |-> hf, precommits |-> due]
  BY <1>2, SMT DEF AnswerFeed, Decide
<1>4. PICK n \in 1..4 : updates \in [1..n -> 1..5] OBVIOUS
<1>5. n \in Nat /\ updates \in [1..n -> Int] /\ Len(updates) = n BY <1>4
<1>6. now \in Int
  <2>1. newest \in 1..5 BY <1>4 DEF ToSet
  <2> QED BY <2>1
<1> HIDE DEF now
<1> DEFINE u == decision'.updates
           t == decision'.now
           g == decision'.gapBps
           h == decision'.hf
<1>7. u = updates /\ t = now /\ g = gapBps /\ h = hf /\ decision'.precommits = due /\ decision'.about = "feed"
  <2> HIDE DEF due
  <2> QED BY <1>3
<1>8. ASSUME decision'.precommits PROVE RightlyDue(u, n, t, g, h, 980)
  <2> DEFINE cap == 980
  <2>1. shouldPrecommit(statsAfter(updates), now, gapBps, hf, cap) BY <1>7, <1>8
  <2>2. gapBps \in Int /\ hf \in Int /\ cap \in Int OBVIOUS
  <2> HIDE DEF cap
  <2>3. RightlyDue(updates, n, now, gapBps, hf, cap) BY <1>5, <1>6, <2>1, <2>2, PrecommitsWhenDue
  <2> HIDE DEF u, t, g, h
  <2> QED BY <1>7, <2>3 DEF cap
<1>9. u \in [1..n -> Int] /\ Len(u) = n /\ Last(u) = u[n]
  <2> HIDE DEF u
  <2> QED BY <1>5, <1>7 DEF Last
<1> HIDE DEF u, t, g, h
<1> DEFINE between == {u[i + 1] - u[i] : i \in 1..(Len(u) - 1)}
<1>10. \A i \in 1..(n - 1) : u[i + 1] \in Int /\ u[i] \in Int
  <2>1. \A i \in 1..(n - 1) : i \in 1..n /\ i + 1 \in 1..n OBVIOUS
  <2> QED BY <1>9, <2>1
<1>11. /\ \A i \in 1..(n - 1) : u[i + 1] - u[i] \in between
       /\ \A x \in between : \E i \in 1..(n - 1) : x = u[i + 1] - u[i]
  BY <1>9
<1> HIDE DEF between
<1>12. ASSUME decision'.precommits
       PROVE  /\ Len(u) > MinSamples /\ \E i \in between : i > 0
              /\ h \in 980..(980 + HfMargin) /\ g >= MinGapBps
              /\ (\A i \in between : i > 0) => \E i \in between : 10 * (t - Last(u)) >= 8 * i
  <2>1. /\ n > MinSamples /\ \E i \in 1..(n - 1) : u[i + 1] > u[i]
        /\ h \in 980..(980 + HfMargin) /\ g >= MinGapBps
        /\ (\A i \in 1..(n - 1) : u[i + 1] > u[i]) =>
             \E i \in 1..(n - 1) : 10 * (t - u[n]) >= 8 * (u[i + 1] - u[i])
    BY <1>8, <1>12, DueUnfolds
  <2>2. \E i \in between : i > 0
    <3>1. PICK i \in 1..(n - 1) : u[i + 1] > u[i] BY <2>1
    <3>2. u[i + 1] - u[i] > 0 BY <1>10, <3>1
    <3> QED BY <1>11, <3>2
  <2>3. ASSUME \A i \in between : i > 0
        PROVE  \E i \in between : 10 * (t - Last(u)) >= 8 * i
    <3>1. \A i \in 1..(n - 1) : u[i + 1] > u[i]
      <4> SUFFICES ASSUME NEW i \in 1..(n - 1) PROVE u[i + 1] > u[i] OBVIOUS
      <4>1. u[i + 1] - u[i] > 0 BY <1>11, <2>3
      <4> QED BY <1>10, <4>1
    <3>2. PICK i \in 1..(n - 1) : 10 * (t - u[n]) >= 8 * (u[i + 1] - u[i]) BY <2>1, <3>1
    <3> QED BY <1>9, <1>11, <3>2
  <2>4. Len(u) > MinSamples BY <1>9, <2>1
  <2>5. h \in 980..(980 + HfMargin) /\ g >= MinGapBps BY <2>1
  <2> QED BY <2>2, <2>3, <2>4, <2>5
<1> QED BY <1>7, <1>12, ZenonT(40) DEF FeedSound, About, u, t, g, h, between
-----------------------------------------------------------------------------
(* The scanner of one account. *)

InBand(h) == h > HfFloor /\ h <= HfCeiling

\* Of one account something is remembered or nothing.
OfOne(V) == UNION {[D -> V] : D \in SUBSET {"u"}}
ScanStates == [history : OfOne([hf : Int, at : Int]), cooldown : OfOne(Int), queued : Seq([user : {"u"}, at : Int])]

FallsFrom(s, h, now) ==
  /\ "u" \in DOMAIN s.history
  /\ s.history["u"].hf - h > MinDrop
  /\ now > s.history["u"].at
  /\ s.history["u"].hf - h >= MinSlope * (now - s.history["u"].at)

Cools(s, now) == "u" \in DOMAIN s.cooldown /\ now - s.cooldown["u"] < Cooldown
HandledAt(s, h, now) == FallsFrom(s, h, now) /\ ~Cools(s, now)

\* What a look at the account does to the scanner.
ScannedBy(s, h, now, to) ==
  /\ to \in ScanStates
  /\ ~InBand(h) => to = s
  /\ InBand(h) => /\ "u" \in DOMAIN to.history
                  /\ to.history["u"].hf = h
                  /\ to.history["u"].at = now
  /\ InBand(h) /\ HandledAt(s, h, now) =>
       /\ "u" \in DOMAIN to.cooldown /\ to.cooldown["u"] = now
       /\ to.queued = Append(s.queued, [user |-> "u", at |-> now])
  /\ InBand(h) /\ ~HandledAt(s, h, now) => to.cooldown = s.cooldown /\ to.queued = s.queued

\* What is remembered of the account is what was put there last.
LEMMA Remembered ==
  ASSUME NEW V, NEW f \in OfOne(V), NEW v \in V
  PROVE  /\ Remember(f, "u", v) \in OfOne(V)
         /\ "u" \in DOMAIN Remember(f, "u", v)
         /\ Remember(f, "u", v)["u"] = v
<1>1. PICK D \in SUBSET {"u"} : f \in [D -> V] BY DEF OfOne
<1>2. DOMAIN f \cup {"u"} = {"u"} BY <1>1
<1> DEFINE g == [k \in {"u"} |-> IF k = "u" THEN v ELSE f[k]]
<1>3. Remember(f, "u", v) = g BY <1>2, Zenon DEF Remember
<1>4. g \in [{"u"} -> V] /\ g["u"] = v /\ DOMAIN g = {"u"} OBVIOUS
<1> HIDE DEF g
<1>5. g \in OfOne(V) BY <1>4 DEF OfOne
<1> QED BY <1>3, <1>4, <1>5

\* Scan does that.
LEMMA ScanDoes ==
  ASSUME NEW s \in ScanStates, NEW h \in Int, NEW now \in Int
  PROVE  ScannedBy(s, h, now, Scan(s, [user |-> "u", hf |-> h], now))
<1> DEFINE c == [user |-> "u", hf |-> h]
           v == [hf |-> h, at |-> now]
           history == Remember(s.history, "u", v)
           cooling == Remember(s.cooldown, "u", now)
           row == [user |-> "u", at |-> now]
           to == Scan(s, c, now)
<1>1. s.history \in OfOne([hf : Int, at : Int]) /\ s.cooldown \in OfOne(Int) /\ s.queued \in Seq([user : {"u"}, at : Int])
  BY DEF ScanStates
<1>2. v \in [hf : Int, at : Int] /\ v.hf = h /\ v.at = now /\ row \in [user : {"u"}, at : Int] OBVIOUS
<1>3. c.user = "u" /\ c.hf = h OBVIOUS
<1> HIDE DEF v, c, row
<1>4. history \in OfOne([hf : Int, at : Int]) /\ "u" \in DOMAIN history /\ history["u"] = v
  <2> DEFINE R == [hf : Int, at : Int]
  <2>1. s.history \in OfOne(R) /\ v \in R BY <1>1, <1>2
  <2> HIDE DEF R
  <2>2. history \in OfOne(R) /\ "u" \in DOMAIN history /\ history["u"] = v BY <2>1, Remembered
  <2> QED BY <2>2 DEF R
<1>5. cooling \in OfOne(Int) /\ "u" \in DOMAIN cooling /\ cooling["u"] = now BY <1>1, Remembered
<1>6. to = IF c.hf <= HfFloor \/ c.hf > HfCeiling THEN s
           ELSE IF FallsFrom(s, h, now) /\ ~Cools(s, now)
           THEN [history |-> history, cooldown |-> cooling, queued |-> Append(s.queued, row)]
           ELSE [s EXCEPT !.history = history]
  BY <1>3, Zenon DEF Scan, FallsFrom, Cools, v, row
<1>7. HfFloor \in Int /\ HfCeiling \in Int BY PredictorAssumption
<1>8. (c.hf <= HfFloor \/ c.hf > HfCeiling) <=> ~InBand(h) BY <1>3, <1>7 DEF InBand
<1> HIDE DEF to, history, cooling
<1>9. CASE ~InBand(h)
  <2>1. to = s BY <1>6, <1>8, <1>9
  <2> QED BY <1>9, <2>1, Zenon DEF ScannedBy, to, c
<1>10. CASE InBand(h) /\ HandledAt(s, h, now)
  <2>1. to = [history |-> history, cooldown |-> cooling, queued |-> Append(s.queued, row)]
    BY <1>6, <1>8, <1>10, Zenon DEF HandledAt
  <2>2. Append(s.queued, row) \in Seq([user : {"u"}, at : Int]) BY <1>1, <1>2, AppendProperties
  <2>3. to \in ScanStates BY <1>4, <1>5, <2>1, <2>2 DEF ScanStates
  <2>4. to.history = history /\ to.cooldown = cooling /\ to.queued = Append(s.queued, row) BY <2>1
  <2>5. ScannedBy(s, h, now, to)
    BY <1>2, <1>4, <1>5, <1>10, <2>3, <2>4, Zenon DEF ScannedBy, row
  <2> QED BY <2>5 DEF to, c
<1>11. CASE InBand(h) /\ ~HandledAt(s, h, now)
  <2>1. to = [s EXCEPT !.history = history] BY <1>6, <1>8, <1>11, Zenon DEF HandledAt
  <2>2. to \in ScanStates BY <1>4, <2>1 DEF ScanStates
  <2>3. to.history = history /\ to.cooldown = s.cooldown /\ to.queued = s.queued BY <2>1 DEF ScanStates
  <2>4. ScannedBy(s, h, now, to) BY <1>2, <1>4, <1>11, <2>2, <2>3, Zenon DEF ScannedBy
  <2> QED BY <2>4 DEF to, c
<1> QED BY <1>9, <1>10, <1>11

\* A tick that sees the account twice does what a look at it does.
LEMMA TickDoes ==
  ASSUME NEW s \in ScanStates, NEW h \in Int, NEW now \in Int
  PROVE  ScannedBy(s, h, now, tick(s, seenTwice(h), now))
<1> DEFINE c == [user |-> "u", hf |-> h]
           one == Scan(s, c, now)
           two == Scan(one, c, now)
           answer(f) == f = [n \in 0..2 |-> IF n = 0 THEN s ELSE Scan(f[n - 1], seenTwice(h)[n], now)]
           f2 == [n \in 0..2 |-> IF n = 0 THEN s ELSE IF n = 1 THEN one ELSE two]
           w == CHOOSE f : answer(f)
<1>1. Len(seenTwice(h)) = 2 /\ seenTwice(h)[1] = c /\ seenTwice(h)[2] = c BY DEF seenTwice
<1> HIDE DEF c
<1>2. answer(f2)
  <2> HIDE DEF one, two
  <2>1. f2[0] = s /\ f2[1] = one /\ f2[2] = two OBVIOUS
  <2>2. \A n \in 0..2 : n = 0 \/ n = 1 \/ n = 2 OBVIOUS
  <2> HIDE DEF f2
  <2>3. \A n \in 0..2 : f2[n] = IF n = 0 THEN s ELSE Scan(f2[n - 1], seenTwice(h)[n], now)
    <3>1. one = Scan(f2[1 - 1], seenTwice(h)[1], now) BY <1>1, <2>1 DEF one
    <3>2. two = Scan(f2[2 - 1], seenTwice(h)[2], now) BY <1>1, <2>1 DEF two
    <3> QED BY <2>1, <2>2, <3>1, <3>2
  <2>4. f2 = [n \in 0..2 |-> f2[n]] BY DEF f2
  <2> QED BY <2>3, <2>4
<1> HIDE DEF f2
<1>3. answer(w) BY <1>2, Zenon
<1>4. tick(s, seenTwice(h), now) = w[2] BY <1>1, Zenon DEF tick
<1> HIDE DEF w
<1>5. w[2] = two
  <2>1. w[0] = s BY <1>3
  <2>2. w[1] = Scan(w[1 - 1], seenTwice(h)[1], now) BY <1>3
  <2>3. w[1] = one BY <1>1, <2>1, <2>2
  <2>4. w[2] = Scan(w[2 - 1], seenTwice(h)[2], now) BY <1>3
  <2> HIDE DEF one
  <2> QED BY <1>1, <2>3, <2>4
<1>6. ScannedBy(s, h, now, one) BY ScanDoes DEF c
<1>7. one \in ScanStates BY <1>6, Zenon DEF ScannedBy
<1> HIDE DEF one
<1>8. ScannedBy(one, h, now, two) BY <1>7, ScanDoes DEF c
<1> HIDE DEF two
<1>9. ScannedBy(s, h, now, two)
  <2>1. CASE ~InBand(h)
    <3>1. two = s BY <1>6, <1>8, <2>1, Zenon DEF ScannedBy
    <3>2. two \in ScanStates BY <1>8, Zenon DEF ScannedBy
    <3> QED BY <2>1, <3>1, <3>2, Zenon DEF ScannedBy
  <2>2. CASE InBand(h)
    <3>1. one.history["u"].at = now BY <1>6, <2>2, Zenon DEF ScannedBy
    <3>2. ~(now > now) OBVIOUS
    <3>3. ~HandledAt(one, h, now) BY <3>1, <3>2, Zenon DEF HandledAt, FallsFrom
    <3>4. two.cooldown = one.cooldown /\ two.queued = one.queued BY <1>8, <2>2, <3>3, Zenon DEF ScannedBy
    <3> QED BY <1>6, <1>8, <2>2, <3>4, Zenon DEF ScannedBy
  <2> QED BY <2>1, <2>2
<1> QED BY <1>4, <1>5, <1>9

\* The last tick that saw the account in the band, of the first k ones.
SeenLast(hfs, k, i) == i \in 1..k /\ InBand(hfs[i]) /\ \A j \in (i + 1)..k : ~InBand(hfs[j])

\* Tick i sees the account in the band and lower, and falling as fast, than the last tick
\* before it that saw it there.
FallsAt(hfs, pace, i) ==
  /\ InBand(hfs[i])
  /\ \E j \in 1..(i - 1) : /\ SeenLast(hfs, i - 1, j)
                           /\ hfs[j] - hfs[i] > MinDrop
                           /\ hfs[j] - hfs[i] >= MinSlope * (pace * i - pace * j)

\* What the scanner remembers after k ticks: the account as the last tick in the band saw
\* it, and when it was handled last; what it queued are falls, a cooldown apart.
RemembersSeen(hfs, pace, k, s) ==
  /\ "u" \in DOMAIN s.history => \E i \in 1..k : InBand(hfs[i])
  /\ \A i \in 1..k : SeenLast(hfs, k, i) =>
       "u" \in DOMAIN s.history /\ s.history["u"].hf = hfs[i] /\ s.history["u"].at = pace * i

RemembersHandled(s) ==
  /\ "u" \in DOMAIN s.cooldown <=> s.queued # <<>>
  /\ s.queued # <<>> => s.cooldown["u"] = s.queued[Len(s.queued)].at

QueuesFalls(hfs, pace, k, queued) ==
  /\ \A q \in 1..Len(queued) : \E i \in 1..k : FallsAt(hfs, pace, i) /\ queued[q].at = pace * i
  /\ \A p, q \in 1..Len(queued) : p < q => queued[q].at - queued[p].at >= Cooldown
  /\ (\E i \in 1..k : FallsAt(hfs, pace, i)) => queued # <<>>

\* Of ticks that saw the account in the band one is the last.
LEMMA OneIsLast ==
  ASSUME NEW hfs, NEW k \in Nat, \E i \in 1..k : InBand(hfs[i])
  PROVE  \E i \in 1..k : SeenLast(hfs, k, i)
<1> DEFINE Has(m) == (\E i \in 1..m : InBand(hfs[i])) => \E i \in 1..m : SeenLast(hfs, m, i)
           S == {m \in Nat : Has(m)}
<1>1. 0 \in S OBVIOUS
<1>2. \A m \in Nat : m \in S => m + 1 \in S
  <2> SUFFICES ASSUME NEW m \in Nat, Has(m) PROVE Has(m + 1)
    <3> HIDE DEF Has
    <3> QED OBVIOUS
  <2> SUFFICES ASSUME \E i \in 1..(m + 1) : InBand(hfs[i])
               PROVE  \E i \in 1..(m + 1) : SeenLast(hfs, m + 1, i)
    OBVIOUS
  <2>1. CASE InBand(hfs[m + 1])
    <3>1. m + 1 \in 1..(m + 1) /\ ((m + 1) + 1)..(m + 1) = {} OBVIOUS
    <3> QED BY <2>1, <3>1 DEF SeenLast
  <2>2. CASE ~InBand(hfs[m + 1])
    <3>1. PICK i \in 1..m : SeenLast(hfs, m, i)
      <4>1. \A i \in 1..(m + 1) : i = m + 1 \/ i \in 1..m OBVIOUS
      <4> QED BY <2>2, <4>1
    <3>2. \A j \in (i + 1)..(m + 1) : j = m + 1 \/ j \in (i + 1)..m OBVIOUS
    <3>3. i \in 1..(m + 1) OBVIOUS
    <3> QED BY <2>2, <3>1, <3>2, <3>3 DEF SeenLast
  <2> QED BY <2>1, <2>2
<1>3. Nat \subseteq S
  <2> HIDE DEF S
  <2> QED BY <1>1, <1>2, NatInductionSet
<1>4. Has(k)
  <2> HIDE DEF Has
  <2> QED BY <1>3
<1> QED BY <1>4

\* And only one.
LEMMA OnlyOneIsLast ==
  ASSUME NEW hfs, NEW k \in Nat, NEW i, NEW j, SeenLast(hfs, k, i), SeenLast(hfs, k, j)
  PROVE  i = j
<1>1. i \in 1..k /\ j \in 1..k BY DEF SeenLast
<1>2. i < j => j \in (i + 1)..k BY <1>1
<1>3. j < i => i \in (j + 1)..k BY <1>1
<1>4. ~(i < j) /\ ~(j < i) BY <1>2, <1>3 DEF SeenLast
<1> QED BY <1>1, <1>4

\* Later ticks are later.
LEMMA LaterTicks ==
  ASSUME NEW pace \in Nat, pace > 0, NEW i \in Nat, NEW j \in Nat
  PROVE  /\ pace * i \in Nat /\ pace * j \in Nat
         /\ i < j => pace * i < pace * j
         /\ i <= j => pace * i <= pace * j
<1>1. pace * i \in Nat /\ pace * j \in Nat OBVIOUS
<1>2. ASSUME i <= j PROVE pace * i <= pace * j
  <2>1. pace * j = pace * i + pace * (j - i) OBVIOUS
  <2>2. pace * (j - i) >= 0 BY <1>2
  <2> QED BY <1>1, <2>1, <2>2
<1>3. ASSUME i < j PROVE pace * i < pace * j
  <2>1. pace * j = pace * i + pace * (j - i) OBVIOUS
  <2>2. pace * (j - i) > 0 BY <1>3
  <2> QED BY <1>1, <2>1, <2>2
<1> QED BY <1>1, <1>2, <1>3

\* A tick falls, for the scanner, exactly when it does.
LEMMA FallsMatch ==
  ASSUME NEW n \in Nat, NEW hfs \in [1..n -> Int], NEW pace \in Nat, pace > 0, NEW k \in 1..n, NEW s \in ScanStates,
         RemembersSeen(hfs, pace, k - 1, s), InBand(hfs[k])
  PROVE  FallsFrom(s, hfs[k], pace * k) <=> FallsAt(hfs, pace, k)
<1>0. k - 1 \in Nat OBVIOUS
<1>1. ASSUME FallsFrom(s, hfs[k], pace * k) PROVE FallsAt(hfs, pace, k)
  <2>1. "u" \in DOMAIN s.history BY <1>1 DEF FallsFrom
  <2>2. \E i \in 1..(k - 1) : InBand(hfs[i]) BY <2>1, Zenon DEF RemembersSeen
  <2>3. PICK j \in 1..(k - 1) : SeenLast(hfs, k - 1, j) BY <1>0, <2>2, OneIsLast
  <2>4. s.history["u"].hf = hfs[j] /\ s.history["u"].at = pace * j BY <2>3, Zenon DEF RemembersSeen
  <2>5. hfs[j] - hfs[k] > MinDrop /\ hfs[j] - hfs[k] >= MinSlope * (pace * k - pace * j)
    BY <1>1, <2>4, Zenon DEF FallsFrom
  <2> QED BY <2>3, <2>5, Zenon DEF FallsAt
<1>2. ASSUME FallsAt(hfs, pace, k) PROVE FallsFrom(s, hfs[k], pace * k)
  <2>1. PICK j \in 1..(k - 1) : /\ SeenLast(hfs, k - 1, j)
                                /\ hfs[j] - hfs[k] > MinDrop
                                /\ hfs[j] - hfs[k] >= MinSlope * (pace * k - pace * j)
    BY <1>2, Zenon DEF FallsAt
  <2>2. "u" \in DOMAIN s.history /\ s.history["u"].hf = hfs[j] /\ s.history["u"].at = pace * j
    BY <2>1, Zenon DEF RemembersSeen
  <2>3. j \in Nat /\ k \in Nat /\ j < k OBVIOUS
  <2>4. pace * j < pace * k BY <2>3, LaterTicks
  <2>5. pace * k > pace * j BY <2>3, <2>4, LaterTicks
  <2> QED BY <2>1, <2>2, <2>5, Zenon DEF FallsFrom
<1> QED BY <1>1, <1>2

\* One tick more is remembered as the ones before.
LEMMA SeenStep ==
  ASSUME NEW n \in Nat, NEW hfs \in [1..n -> Int], NEW pace \in Nat, pace > 0, NEW k \in 1..n, NEW s \in ScanStates,
         NEW to, RemembersSeen(hfs, pace, k - 1, s), ScannedBy(s, hfs[k], pace * k, to)
  PROVE  RemembersSeen(hfs, pace, k, to)
<1>1. CASE InBand(hfs[k])
  <2>1. "u" \in DOMAIN to.history /\ to.history["u"].hf = hfs[k] /\ to.history["u"].at = pace * k
    BY <1>1, Zenon DEF ScannedBy
  <2>2. ASSUME NEW i \in 1..k, SeenLast(hfs, k, i) PROVE i = k
    <3>1. i # k => k \in (i + 1)..k OBVIOUS
    <3> QED BY <1>1, <2>2, <3>1 DEF SeenLast
  <2>3. k \in 1..k OBVIOUS
  <2> QED BY <1>1, <2>1, <2>2, <2>3, Zenon DEF RemembersSeen
<1>2. CASE ~InBand(hfs[k])
  <2>1. to = s BY <1>2, Zenon DEF ScannedBy
  <2>2. \A i \in 1..(k - 1) : i \in 1..k OBVIOUS
  <2>3. ASSUME NEW i \in 1..k, SeenLast(hfs, k, i) PROVE i \in 1..(k - 1) /\ SeenLast(hfs, k - 1, i)
    <3>1. i # k BY <1>2, <2>3 DEF SeenLast
    <3>2. i \in 1..(k - 1) /\ \A j \in (i + 1)..(k - 1) : j \in (i + 1)..k BY <3>1
    <3> QED BY <2>3, <3>2 DEF SeenLast
  <2> QED BY <2>1, <2>2, <2>3, Zenon DEF RemembersSeen
<1> QED BY <1>1, <1>2

\* And its being handled as the times before.
LEMMA HandledStep ==
  ASSUME NEW h \in Int, NEW now \in Int, NEW s \in ScanStates, NEW to,
         RemembersHandled(s), ScannedBy(s, h, now, to)
  PROVE  RemembersHandled(to)
<1>1. CASE InBand(h) /\ HandledAt(s, h, now)
  <2> DEFINE row == [user |-> "u", at |-> now]
  <2>1. "u" \in DOMAIN to.cooldown /\ to.cooldown["u"] = now /\ to.queued = Append(s.queued, row)
    BY <1>1, Zenon DEF ScannedBy
  <2>2. row \in [user : {"u"}, at : Int] /\ row.at = now OBVIOUS
  <2>3. s.queued \in Seq([user : {"u"}, at : Int]) BY DEF ScanStates
  <2> HIDE DEF row
  <2>4. Len(to.queued) = Len(s.queued) + 1 /\ to.queued[Len(s.queued) + 1] = row /\ Len(s.queued) \in Nat
    BY <2>1, <2>2, <2>3, AppendProperties, LenProperties
  <2>5. to.queued # <<>> BY <2>4
  <2> QED BY <2>1, <2>2, <2>4, <2>5 DEF RemembersHandled
<1>2. CASE ~(InBand(h) /\ HandledAt(s, h, now))
  <2>1. to.cooldown = s.cooldown /\ to.queued = s.queued BY <1>2, Zenon DEF ScannedBy
  <2> QED BY <2>1, Zenon DEF RemembersHandled
<1> QED BY <1>1, <1>2

\* What is queued then is a fall, a cooldown after what was queued before; and a first
\* fall is queued.
LEMMA QueueStep ==
  ASSUME NEW n \in Nat, NEW hfs \in [1..n -> Int], NEW pace \in Nat, pace > 0, NEW k \in 1..n, NEW s \in ScanStates,
         NEW to, RemembersSeen(hfs, pace, k - 1, s), RemembersHandled(s), QueuesFalls(hfs, pace, k - 1, s.queued),
         ScannedBy(s, hfs[k], pace * k, to)
  PROVE  QueuesFalls(hfs, pace, k, to.queued)
<1> DEFINE now == pace * k
           old == s.queued
           m == Len(old)
           new == to.queued
<1>0. now \in Int /\ \A i \in 1..(k - 1) : i \in 1..k OBVIOUS
<1>1. old \in Seq([user : {"u"}, at : Int]) /\ m \in Nat BY LenProperties DEF ScanStates
<1>2. \A q \in 1..m : old[q].at \in Int
  <2>1. \A q \in 1..m : old[q] \in [user : {"u"}, at : Int] BY <1>1, ElementOfSeq
  <2> QED BY <2>1
<1>3. /\ \A q \in 1..m : \E i \in 1..(k - 1) : FallsAt(hfs, pace, i) /\ old[q].at = pace * i
      /\ \A p, q \in 1..m : p < q => old[q].at - old[p].at >= Cooldown
      /\ (\E i \in 1..(k - 1) : FallsAt(hfs, pace, i)) => old # <<>>
  BY Zenon DEF QueuesFalls
<1>4. CASE InBand(hfs[k]) /\ HandledAt(s, hfs[k], now)
  <2> DEFINE row == [user |-> "u", at |-> now]
  <2>1. new = Append(old, row) BY <1>4, Zenon DEF ScannedBy
  <2>2. row \in [user : {"u"}, at : Int] /\ row.at = now BY <1>0
  <2> HIDE DEF row, now
  <2>3. Len(new) = m + 1 /\ new[m + 1] = row /\ \A q \in 1..m : new[q] = old[q]
    <3> HIDE DEF old, new
    <3> QED BY <1>1, <2>1, <2>2, AppendProperties
  <2>4. new # <<>>
    <3> HIDE DEF old, new
    <3> QED BY <1>1, <2>3
  <2>5. FallsAt(hfs, pace, k)
    <3>1. FallsFrom(s, hfs[k], now) BY <1>4, Zenon DEF HandledAt
    <3>2. FallsFrom(s, hfs[k], pace * k) /\ InBand(hfs[k]) BY <1>4, <3>1 DEF now
    <3> HIDE DEF old, new, m
    <3>3. FallsFrom(s, hfs[k], pace * k) <=> FallsAt(hfs, pace, k) BY <3>2, FallsMatch
    <3> QED BY <3>2, <3>3
  <2>6. \A q \in 1..(m + 1) : q = m + 1 \/ q \in 1..m
    <3> HIDE DEF m
    <3> QED BY <1>1
  <2>7. ASSUME NEW q \in 1..(m + 1) PROVE \E i \in 1..k : FallsAt(hfs, pace, i) /\ new[q].at = pace * i
    <3>1. CASE q = m + 1
      <4>1. new[q].at = pace * k BY <2>2, <2>3, <3>1 DEF now
      <4>2. k \in 1..k OBVIOUS
      <4> QED BY <2>5, <4>1, <4>2
    <3>2. CASE q \in 1..m
      <4>1. PICK i \in 1..(k - 1) : FallsAt(hfs, pace, i) /\ old[q].at = pace * i BY <1>3, <3>2
      <4>2. new[q].at = pace * i BY <2>3, <3>2, <4>1
      <4> QED BY <1>0, <4>1, <4>2
    <3> QED BY <2>6, <3>1, <3>2
  <2>8. ASSUME NEW p \in 1..m PROVE now - old[p].at >= Cooldown
    <3>1. m \in 1..m /\ p <= m BY <1>1
    <3>2. old # <<>> BY <1>1, <3>1
    <3>3. s.cooldown["u"] = old[m].at /\ "u" \in DOMAIN s.cooldown BY <3>2, Zenon DEF RemembersHandled
    <3>4. ~(now - old[m].at < Cooldown) BY <1>4, <3>3, Zenon DEF HandledAt, Cools
    <3>5. Cooldown \in Int BY PredictorAssumption
    <3>6. now - old[m].at >= Cooldown
      <4> HIDE DEF old, m
      <4> QED BY <1>0, <1>2, <3>1, <3>4, <3>5 DEF now
    <3>7. CASE p = m BY <3>6, <3>7
    <3>8. CASE p # m
      <4>1. p < m BY <1>1, <3>1, <3>8
      <4>2. old[m].at - old[p].at >= Cooldown BY <1>3, <3>1, <4>1
      <4>3. now >= old[m].at
        <5>1. PICK i \in 1..(k - 1) : old[m].at = pace * i BY <1>3, <3>1
        <5>2. i \in Nat /\ k \in Nat /\ i <= k OBVIOUS
        <5>3. pace * i \in Nat /\ pace * k \in Nat /\ pace * i <= pace * k BY <5>2, LaterTicks
        <5> QED BY <5>1, <5>3 DEF now
      <4> HIDE DEF old, m
      <4> QED BY <1>0, <1>2, <3>1, <3>5, <4>2, <4>3 DEF now
    <3> QED BY <3>7, <3>8
  <2>9. ASSUME NEW p \in 1..(m + 1), NEW q \in 1..(m + 1), p < q PROVE new[q].at - new[p].at >= Cooldown
    <3>1. p \in 1..m /\ new[p] = old[p]
      <4>1. p \in 1..m BY <1>1, <2>9
      <4> QED BY <2>3, <4>1
    <3>2. CASE q = m + 1
      <4>1. new[q].at = now BY <2>2, <2>3, <3>2
      <4> QED BY <2>8, <3>1, <4>1
    <3>3. CASE q \in 1..m
      <4>1. new[q] = old[q] BY <2>3, <3>3
      <4> QED BY <1>3, <2>9, <3>1, <3>3, <4>1
    <3> QED BY <2>6, <3>2, <3>3
  <2>10. Len(new) = m + 1 BY <2>3
  <2> HIDE DEF new, m
  <2>11. QueuesFalls(hfs, pace, k, new) BY <2>4, <2>7, <2>9, <2>10, Zenon DEF QueuesFalls
  <2> QED BY <2>11 DEF new
<1>5. CASE ~(InBand(hfs[k]) /\ HandledAt(s, hfs[k], now))
  <2>1. new = old BY <1>5, Zenon DEF ScannedBy
  <2>2. ASSUME FallsAt(hfs, pace, k) PROVE old # <<>>
    <3>1. InBand(hfs[k]) BY <2>2 DEF FallsAt
    <3>2. FallsFrom(s, hfs[k], now) BY <2>2, <3>1, FallsMatch
    <3>3. "u" \in DOMAIN s.cooldown BY <1>5, <3>1, <3>2, Zenon DEF HandledAt, Cools
    <3> QED BY <3>3, Zenon DEF RemembersHandled
  <2>3. \A i \in 1..k : i = k \/ i \in 1..(k - 1) OBVIOUS
  <2>4. (\E i \in 1..k : FallsAt(hfs, pace, i)) => old # <<>> BY <1>3, <2>2, <2>3, Zenon
  <2>5. \A q \in 1..m : \E i \in 1..k : FallsAt(hfs, pace, i) /\ old[q].at = pace * i BY <1>0, <1>3, Zenon
  <2>6. QueuesFalls(hfs, pace, k, old) BY <1>3, <2>4, <2>5, Zenon DEF QueuesFalls
  <2> QED BY <2>1, <2>6
<1> QED BY <1>4, <1>5

\* All three at once.
KnownScans(hfs, pace, k, s) ==
  s \in ScanStates /\ RemembersSeen(hfs, pace, k, s) /\ RemembersHandled(s) /\ QueuesFalls(hfs, pace, k, s.queued)

\* At first there is nothing to remember.
LEMMA NoScansKnown ==
  ASSUME NEW hfs, NEW pace
  PROVE  KnownScans(hfs, pace, 0, NoScans)
<1> DEFINE none == <<>>
<1>1. NoScans.history = none /\ NoScans.cooldown = none /\ NoScans.queued = <<>>
      /\ NoScans = [history |-> none, cooldown |-> none, queued |-> <<>>]
  BY DEF NoScans
<1>2. \A V : none \in [{} -> V] /\ DOMAIN none = {}
  <2>1. none = [x \in {} |-> {}] BY SMT
  <2> QED BY <2>1
<1> HIDE DEF none
<1>3. \A V : none \in OfOne(V)
  <2>1. {} \in SUBSET {"u"} OBVIOUS
  <2> QED BY <1>2, <2>1 DEF OfOne
<1>4. <<>> \in Seq([user : {"u"}, at : Int]) OBVIOUS
<1>5. NoScans \in ScanStates
  <2> DEFINE R == [hf : Int, at : Int]
             Q == Seq([user : {"u"}, at : Int])
             C == OfOne(Int)
             H == OfOne(R)
  <2>1. none \in H /\ none \in C /\ <<>> \in Q BY <1>3, <1>4
  <2> HIDE DEF R, Q, C, H
  <2>2. NoScans \in [history : H, cooldown : C, queued : Q] BY <1>1, <2>1
  <2> QED BY <2>2 DEF ScanStates, R, Q, C, H
<1>6. RemembersSeen(hfs, pace, 0, NoScans)
  <2>1. 1..0 = {} BY SMT
  <2> QED BY <1>1, <1>2, <2>1, Zenon DEF RemembersSeen
<1>7. RemembersHandled(NoScans) BY <1>1, <1>2, Zenon DEF RemembersHandled
<1>8. QueuesFalls(hfs, pace, 0, NoScans.queued)
  <2>1. 1..0 = {} /\ 1..Len(<<>>) = {} BY SMT
  <2> QED BY <1>1, <2>1, Zenon DEF QueuesFalls
<1> QED BY <1>5, <1>6, <1>7, <1>8 DEF KnownScans

\* After any health factors, one a tick, they hold of what was queued.
LEMMA ScansKnown ==
  ASSUME NEW n \in Nat, NEW hfs \in [1..n -> Int], NEW pace \in Nat, pace > 0
  PROVE  /\ QueuesFalls(hfs, pace, n, scansQueued(hfs, pace))
         /\ scansQueued(hfs, pace) \in Seq([user : {"u"}, at : Int])
<1> DEFINE X == ScanStates
           next(s, k) == tick(s, seenTwice(hfs[k]), pace * k)
           step == [k \in 1..n |-> [s \in X |-> next(s, k)]]
           answer(f) == f = [k \in 0..n |-> IF k = 0 THEN NoScans ELSE tick(f[k - 1], seenTwice(hfs[k]), pace * k)]
           w == CHOOSE f : answer(f)
<1>0. \A k \in 1..n : hfs[k] \in Int /\ pace * k \in Int OBVIOUS
<1>1. ASSUME NEW k \in 1..n, NEW s \in X PROVE ScannedBy(s, hfs[k], pace * k, next(s, k))
  BY <1>0, TickDoes
<1> HIDE DEF next
<1>2. ASSUME NEW k \in 1..n, NEW s \in X PROVE next(s, k) \in X
  BY <1>1, Zenon DEF ScannedBy
<1>3. \A k \in 1..n : \A s \in X : step[k][s] = next(s, k) /\ step[k][s] \in X
  <2> SUFFICES ASSUME NEW k \in 1..n, NEW s \in X PROVE step[k][s] = next(s, k) /\ step[k][s] \in X OBVIOUS
  <2>1. step[k][s] = next(s, k) OBVIOUS
  <2>2. next(s, k) \in X BY <1>2
  <2> HIDE DEF step, X
  <2> QED BY <2>1, <2>2
<1>4. KnownScans(hfs, pace, 0, NoScans) BY NoScansKnown
<1>5. NoScans \in X BY <1>4 DEF KnownScans
<1> HIDE DEF X, step
<1>6. PICK f : History(f, X, NoScans, n, step) BY <1>3, <1>5, Iterated DEF Steps
<1>7. f \in [0..n -> X] /\ f[0] = NoScans /\ \A i \in 1..n : f[i] = step[i][f[i - 1]] BY <1>6 DEF History
<1>8. answer(f)
  <2>1. \A i \in 1..n : f[i] = next(f[i - 1], i)
    <3> SUFFICES ASSUME NEW i \in 1..n PROVE f[i] = next(f[i - 1], i) OBVIOUS
    <3>1. i - 1 \in 0..n OBVIOUS
    <3>2. f[i - 1] \in X BY <1>7, <3>1
    <3> QED BY <1>3, <1>7, <3>2
  <2>2. \A i \in 0..n : i = 0 \/ i \in 1..n OBVIOUS
  <2> QED BY <1>7, <2>1, <2>2 DEF next
<1>9. answer(w) BY <1>8, Zenon
<1>10. Len(hfs) = n BY LenProperties
<1>11. scansQueued(hfs, pace) = w[n].queued BY <1>10, Zenon DEF scansQueued
<1> HIDE DEF w
<1>12. w[0] = NoScans /\ \A k \in 1..n : w[k] = next(w[k - 1], k)
  <2>1. w[0] = NoScans BY <1>9
  <2>2. ASSUME NEW k \in 1..n PROVE w[k] = next(w[k - 1], k)
    <3>1. k \in 0..n /\ k # 0 OBVIOUS
    <3> QED BY <1>9, <3>1, Zenon DEF next
  <2> QED BY <2>1, <2>2
<1> HIDE DEF answer
<1> DEFINE Good == [k \in 0..n |-> {s \in X : KnownScans(hfs, pace, k, s)}]
<1>13. w[0] \in Good[0] BY <1>4, <1>5, <1>12
<1>14. \A k \in 1..n : w[k - 1] \in Good[k - 1] => w[k] \in Good[k]
  <2> SUFFICES ASSUME NEW k \in 1..n, w[k - 1] \in Good[k - 1] PROVE w[k] \in Good[k] OBVIOUS
  <2>1. k - 1 \in 0..n /\ k \in 0..n OBVIOUS
  <2> DEFINE s == w[k - 1]
             to == next(s, k)
             h == hfs[k]
             now == pace * k
  <2>2. s \in X /\ KnownScans(hfs, pace, k - 1, s) BY <2>1
  <2>3. w[k] = to BY <1>12
  <2> HIDE DEF s
  <2>4. ScannedBy(s, h, now, to) BY <1>1, <2>2
  <2> HIDE DEF to
  <2>5. s \in ScanStates /\ RemembersSeen(hfs, pace, k - 1, s) /\ RemembersHandled(s)
        /\ QueuesFalls(hfs, pace, k - 1, s.queued)
    BY <2>2 DEF KnownScans
  <2>6. RemembersSeen(hfs, pace, k, to) BY <2>4, <2>5, SeenStep
  <2>7. QueuesFalls(hfs, pace, k, to.queued) BY <2>4, <2>5, QueueStep
  <2>8. RemembersHandled(to)
    <3>1. h \in Int /\ now \in Int BY <1>0
    <3> HIDE DEF h, now
    <3> QED BY <2>4, <2>5, <3>1, HandledStep
  <2>9. to \in ScanStates BY <2>4, Zenon DEF ScannedBy
  <2>10. KnownScans(hfs, pace, k, to) BY <2>6, <2>7, <2>8, <2>9 DEF KnownScans
  <2> QED BY <2>1, <2>3, <2>9, <2>10 DEF X
<1> HIDE DEF Good
<1>15. w[n] \in Good[n]
  <2>1. \A k \in 0..n : w[k] \in Good[k] BY <1>13, <1>14, Carried
  <2> QED BY <2>1
<1>16. KnownScans(hfs, pace, n, w[n]) BY <1>15 DEF Good
<1>17. w[n] \in ScanStates /\ QueuesFalls(hfs, pace, n, w[n].queued) BY <1>16 DEF KnownScans
<1>18. w[n].queued \in Seq([user : {"u"}, at : Int]) BY <1>17 DEF ScanStates
<1> QED BY <1>11, <1>17, <1>18

\* An account is handled ahead once in a cooldown, and only at a tick that saw it in the
\* band and lower, falling fast enough, than the last tick before that did; the first such
\* fall is never missed.
THEOREM HandledAheadWhenFalling ==
  ASSUME NEW n \in Nat, NEW hfs \in [1..n -> Int], NEW pace \in Nat, pace > 0
  PROVE  LET queued == scansQueued(hfs, pace)
         IN /\ \A q \in 1..Len(queued) : \E i \in 1..n : FallsAt(hfs, pace, i) /\ queued[q].at = pace * i
            /\ \A p, q \in 1..Len(queued) : p < q => queued[q].at - queued[p].at >= Cooldown
            /\ (\E i \in 1..n : FallsAt(hfs, pace, i)) => queued # <<>>
<1>1. QueuesFalls(hfs, pace, n, scansQueued(hfs, pace)) BY ScansKnown
<1> QED BY <1>1, Zenon DEF QueuesFalls

\* The last of them, where there is one.
LEMMA LastOfBefore ==
  ASSUME NEW hfs, NEW k \in Nat, NEW j, SeenLast(hfs, k, j)
  PROVE  LET before == {i \in 1..k : hfs[i] > HfFloor /\ hfs[i] <= HfCeiling}
         IN before # {} /\ (CHOOSE i \in before : \A e \in before : e <= i) = j
<1> DEFINE before == {i \in 1..k : hfs[i] > HfFloor /\ hfs[i] <= HfCeiling}
           IsLast(i) == i \in before /\ \A e \in before : e <= i
           last == CHOOSE i \in before : \A e \in before : e <= i
<1>1. j \in before BY DEF SeenLast, InBand
<1>2. \A e \in before : e <= j
  <2> SUFFICES ASSUME NEW e \in before PROVE e <= j OBVIOUS
  <2>1. InBand(hfs[e]) /\ e \in 1..k /\ j \in 1..k BY DEF SeenLast, InBand
  <2>2. e > j => e \in (j + 1)..k BY <2>1
  <2> QED BY <2>1, <2>2 DEF SeenLast
<1>3. \A e \in before : e \in Int OBVIOUS
<1> HIDE DEF before
<1>4. last \in before /\ \A e \in before : e <= last BY <1>1, <1>2, Zenon
<1>5. last <= j /\ j <= last BY <1>1, <1>2, <1>4
<1>6. last = j
  <2> HIDE DEF last
  <2> QED BY <1>1, <1>3, <1>4, <1>5
<1> QED BY <1>1, <1>6 DEF before

\* Slopes by tick.
LEMMA SlopeByTick ==
  ASSUME NEW a \in Int, NEW p \in Int, NEW i \in Int, NEW j \in Int
  PROVE  a * p * (i - j) = a * (p * i - p * j)
<1>1. p * (i - j) = p * i - p * j OBVIOUS
<1>2. \A b \in Int, c \in Int : a * b * c = a * (b * c) OBVIOUS
<1> QED BY <1>1, <1>2

\* A tick falls, as asked, exactly when it does.
FallsAsAsked(hfs, pace, i) ==
  LET before == {j \in 1..(i - 1) : hfs[j] > HfFloor /\ hfs[j] <= HfCeiling}
      last == CHOOSE j \in before : \A k \in before : k <= j
      drop == hfs[last] - hfs[i]
  IN /\ (hfs[i] > HfFloor /\ hfs[i] <= HfCeiling) /\ before # {}
     /\ drop > MinDrop /\ drop >= MinSlope * pace * (i - last)

\* So a tick may be asked about either way.
LEMMA AskedFalls ==
  ASSUME NEW n \in Nat, NEW hfs, NEW pace \in Nat, NEW i \in 1..n
  PROVE  FallsAsAsked(hfs, pace, i) <=> FallsAt(hfs, pace, i)
<1> DEFINE before == {j \in 1..(i - 1) : hfs[j] > HfFloor /\ hfs[j] <= HfCeiling}
           last == CHOOSE j \in before : \A k \in before : k <= j
<1>0. i - 1 \in Nat /\ MinSlope \in Int BY PredictorAssumption
<1>1. FallsAsAsked(hfs, pace, i) <=>
        /\ InBand(hfs[i]) /\ before # {}
        /\ hfs[last] - hfs[i] > MinDrop /\ hfs[last] - hfs[i] >= MinSlope * pace * (i - last)
  BY Zenon DEF FallsAsAsked, InBand
<1>2. before # {} => \E j \in 1..(i - 1) : SeenLast(hfs, i - 1, j)
  <2>1. before # {} => \E j \in 1..(i - 1) : InBand(hfs[j]) BY DEF InBand
  <2> QED BY <1>0, <2>1, OneIsLast
<1>3. ASSUME NEW j \in 1..(i - 1), SeenLast(hfs, i - 1, j)
      PROVE  before # {} /\ last = j /\ MinSlope * pace * (i - j) = MinSlope * (pace * i - pace * j)
  <2>1. before # {} /\ last = j
    <3> DEFINE m == i - 1
    <3>1. m \in Nat /\ SeenLast(hfs, m, j) BY <1>0, <1>3
    <3> HIDE DEF m
    <3>2. LET b == {e \in 1..m : hfs[e] > HfFloor /\ hfs[e] <= HfCeiling}
          IN b # {} /\ (CHOOSE e \in b : \A f \in b : f <= e) = j
      BY <3>1, LastOfBefore
    <3> QED BY <3>2, Zenon DEF m
  <2>2. MinSlope * pace * (i - j) = MinSlope * (pace * i - pace * j) BY <1>0, SlopeByTick
  <2> QED BY <2>1, <2>2
<1> HIDE DEF before, last
<1>4. ASSUME FallsAsAsked(hfs, pace, i) PROVE FallsAt(hfs, pace, i)
  <2>1. PICK j \in 1..(i - 1) : SeenLast(hfs, i - 1, j) BY <1>1, <1>2, <1>4
  <2>2. last = j /\ MinSlope * pace * (i - j) = MinSlope * (pace * i - pace * j) BY <1>3, <2>1
  <2>3. hfs[j] - hfs[i] > MinDrop /\ hfs[j] - hfs[i] >= MinSlope * pace * (i - j) BY <1>1, <1>4, <2>2, Zenon
  <2>4. hfs[j] - hfs[i] >= MinSlope * (pace * i - pace * j) BY <2>2, <2>3, Zenon
  <2>5. InBand(hfs[i]) BY <1>1, <1>4
  <2> QED BY <2>1, <2>3, <2>4, <2>5, Zenon DEF FallsAt
<1>5. ASSUME FallsAt(hfs, pace, i) PROVE FallsAsAsked(hfs, pace, i)
  <2>1. PICK j \in 1..(i - 1) : /\ SeenLast(hfs, i - 1, j)
                                /\ hfs[j] - hfs[i] > MinDrop
                                /\ hfs[j] - hfs[i] >= MinSlope * (pace * i - pace * j)
    BY <1>5, Zenon DEF FallsAt
  <2>2. before # {} /\ last = j /\ MinSlope * pace * (i - j) = MinSlope * (pace * i - pace * j) BY <1>3, <2>1
  <2>3. hfs[j] - hfs[i] >= MinSlope * pace * (i - j) BY <2>1, <2>2, Zenon
  <2>4. InBand(hfs[i]) BY <1>5 DEF FallsAt
  <2> QED BY <1>1, <2>1, <2>2, <2>3, <2>4, Zenon
<1> QED BY <1>4, <1>5

\* What the scanner queued is what was asked for.
QueuedAsAsked(hfs, pace, queued) ==
  LET inBand(i) == hfs[i] > HfFloor /\ hfs[i] <= HfCeiling
      before(i) == {j \in 1..(i - 1) : inBand(j)}
      lastBefore(i) == CHOOSE j \in before(i) : \A k \in before(i) : k <= j
      falls(i) == /\ inBand(i) /\ before(i) # {}
                  /\ LET drop == hfs[lastBefore(i)] - hfs[i]
                     IN drop > MinDrop /\ drop >= MinSlope * pace * (i - lastBefore(i))
      fallen == {i \in DOMAIN hfs : falls(i)}
  IN /\ \A q \in ToSet(queued) : \E i \in fallen : q.at = pace * i
     /\ \A i, j \in DOMAIN queued : i < j => queued[j].at - queued[i].at >= Cooldown
     /\ fallen # {} => queued # <<>>

\* And that it is, whatever the health factors.
LEMMA FallsAreQueued ==
  ASSUME NEW n \in Nat, NEW hfs \in [1..n -> Int], NEW pace \in Nat, pace > 0
  PROVE  QueuedAsAsked(hfs, pace, scansQueued(hfs, pace))
<1> DEFINE queued == scansQueued(hfs, pace)
           fallen == {i \in DOMAIN hfs : FallsAsAsked(hfs, pace, i)}
<1>1. QueuesFalls(hfs, pace, n, queued) /\ queued \in Seq([user : {"u"}, at : Int]) BY ScansKnown
<1> HIDE DEF queued
<1>2. DOMAIN queued = 1..Len(queued) BY <1>1, LenProperties
<1>3. \A i : i \in fallen <=> i \in 1..n /\ FallsAt(hfs, pace, i)
  <2>1. \A i \in 1..n : FallsAsAsked(hfs, pace, i) <=> FallsAt(hfs, pace, i) BY AskedFalls
  <2> QED BY <2>1
<1> HIDE DEF fallen
<1>4. /\ \A q \in 1..Len(queued) : \E i \in 1..n : FallsAt(hfs, pace, i) /\ queued[q].at = pace * i
      /\ \A p, q \in 1..Len(queued) : p < q => queued[q].at - queued[p].at >= Cooldown
      /\ (\E i \in 1..n : FallsAt(hfs, pace, i)) => queued # <<>>
  BY <1>1, Zenon DEF QueuesFalls
<1>5. ASSUME NEW q \in ToSet(queued) PROVE \E i \in fallen : q.at = pace * i
  <2>1. PICK e \in 1..Len(queued) : q = queued[e] BY <1>2 DEF ToSet
  <2> QED BY <1>3, <1>4, <2>1
<1>6. fallen # {} => queued # <<>> BY <1>3, <1>4
<1>7. \A i, j \in DOMAIN queued : i < j => queued[j].at - queued[i].at >= Cooldown BY <1>2, <1>4
<1> QED BY <1>5, <1>6, <1>7, Zenon DEF QueuedAsAsked, fallen, FallsAsAsked, queued

\* The scanner's answer is sound.
LEMMA ScansAnswered == AskScan => decision'.about = "scan" /\ ScanSound'
<1> SUFFICES ASSUME AskScan PROVE decision'.about = "scan" /\ ScanSound' OBVIOUS
<1>1. PICK hfs \in [1..4 -> {980, 1000, 1016, 1040, 1130}], pace \in 1..3 : AnswerScan(hfs, pace)
  BY SMT DEF AskScan
<1>2. decision' = [about |-> "scan", hfs |-> hfs, pace |-> pace, queued |-> scansQueued(hfs, pace)]
  BY <1>1, SMT DEF AnswerScan, Decide
<1> DEFINE n == 4
<1>3. n \in Nat /\ hfs \in [1..n -> Int] /\ pace \in Nat /\ pace > 0 OBVIOUS
<1> HIDE DEF n
<1>4. QueuedAsAsked(hfs, pace, scansQueued(hfs, pace)) BY <1>3, FallsAreQueued
<1>5. decision'.about = "scan" /\ decision'.hfs = hfs /\ decision'.pace = pace /\ decision'.queued = scansQueued(hfs, pace)
  BY <1>2
<1>6. QueuedAsAsked(decision'.hfs, decision'.pace, decision'.queued) BY <1>4, <1>5
<1> QED BY <1>5, <1>6, Zenon DEF ScanSound, About, QueuedAsAsked
-----------------------------------------------------------------------------
(* The indexers: a candidate once in a window. *)

\* What has gone out, and when each key did last.
KeysOf(C) == {DedupeKey(c) : c \in C}
Outs(C) == Seq([c : C, at : Int])
DedupeStates(C) == [seen : UNION {[D -> Int] : D \in SUBSET KeysOf(C)}, out : Outs(C)]

\* By `now` each key seen went out at the time kept of it and not later, and no key went
\* out twice within a window.
Spaced(acc, now, window) ==
  /\ \A i \in 1..Len(acc.out) :
       /\ DedupeKey(acc.out[i].c) \in DOMAIN acc.seen
       /\ acc.out[i].at <= acc.seen[DedupeKey(acc.out[i].c)]
  /\ \A key \in DOMAIN acc.seen :
       /\ acc.seen[key] <= now
       /\ \E i \in 1..Len(acc.out) : DedupeKey(acc.out[i].c) = key /\ acc.out[i].at = acc.seen[key]
  /\ \A i, j \in 1..Len(acc.out) :
       i < j /\ DedupeKey(acc.out[i].c) = DedupeKey(acc.out[j].c) => acc.out[j].at - acc.out[i].at >= window

\* What went out stays out.
Grows(out, to) == Len(out) <= Len(to) /\ \A i \in 1..Len(out) : to[i] = out[i]

\* A key went out within the window before now.
WentOut(out, key, now, window) ==
  \E i \in 1..Len(out) : DedupeKey(out[i].c) = key /\ out[i].at <= now /\ now - out[i].at < window

\* What went out within a window is not forgotten when more goes out.
LEMMA StillOut ==
  ASSUME NEW C, NEW out \in Outs(C), NEW to \in Outs(C), Grows(out, to), NEW key, NEW now, NEW window,
         WentOut(out, key, now, window)
  PROVE  WentOut(to, key, now, window)
<1>1. PICK i \in 1..Len(out) : DedupeKey(out[i].c) = key /\ out[i].at <= now /\ now - out[i].at < window
  BY Zenon DEF WentOut
<1>2. Len(out) \in Nat /\ Len(to) \in Nat BY LenProperties DEF Outs
<1>3. i \in 1..Len(to) /\ to[i] = out[i] BY <1>2 DEF Grows
<1> QED BY <1>1, <1>3, Zenon DEF WentOut

\* Growing twice is growing.
LEMMA GrowsOn ==
  ASSUME NEW C, NEW a \in Outs(C), NEW b \in Outs(C), NEW c \in Outs(C), Grows(a, b), Grows(b, c)
  PROVE  Grows(a, c)
<1>1. Len(a) \in Nat /\ Len(b) \in Nat /\ Len(c) \in Nat BY LenProperties DEF Outs
<1>2. \A i \in 1..Len(a) : i \in 1..Len(b) BY <1>1 DEF Grows
<1> QED BY <1>1, <1>2 DEF Grows

\* A candidate leaves the keys spaced, and its own has gone out within the window.
DedupedBy(acc, key, now, window, C, to) ==
  /\ to \in DedupeStates(C) /\ Spaced(to, now, window)
  /\ Grows(acc.out, to.out)
  /\ WentOut(to.out, key, now, window)

\* One candidate does.
LEMMA DedupeStep ==
  ASSUME NEW C, NEW acc \in DedupeStates(C), NEW c \in C, NEW now \in Int, NEW window \in Int, window > 0,
         Spaced(acc, now, window)
  PROVE  DedupedBy(acc, DedupeKey(c), now, window, C, Deduped(acc, c, now, window))
<1> DEFINE key == DedupeKey(c)
           row == [c |-> c, at |-> now]
           seen == Put(acc.seen, key, now)
           out == acc.out
           m == Len(out)
           to == Deduped(acc, c, now, window)
           K(i) == DedupeKey(out[i].c)
<1>0. key \in KeysOf(C) /\ row \in [c : C, at : Int] /\ row.c = c /\ row.at = now BY DEF KeysOf
<1>1. out \in Outs(C) /\ m \in Nat BY LenProperties DEF DedupeStates, Outs
<1>2. PICK D \in SUBSET KeysOf(C) : acc.seen \in [D -> Int] BY DEF DedupeStates
<1>3. DOMAIN acc.seen = D BY <1>2
<1>4. \A i \in 1..m : out[i] \in [c : C, at : Int]
  <2> HIDE DEF out
  <2> QED BY <1>1, ElementOfSeq DEF Outs
<1>5. \A i \in 1..m : out[i].at \in Int BY <1>4
<1>6. \A e \in D : acc.seen[e] \in Int BY <1>2
<1>7. /\ \A i \in 1..m : K(i) \in D /\ out[i].at <= acc.seen[K(i)]
      /\ \A e \in D : acc.seen[e] <= now /\ \E i \in 1..m : K(i) = e /\ out[i].at = acc.seen[e]
      /\ \A i, j \in 1..m : i < j /\ K(i) = K(j) => out[j].at - out[i].at >= window
  BY <1>3, Zenon DEF Spaced
<1>8. to = IF key \in D /\ now - acc.seen[key] < window THEN acc ELSE [seen |-> seen, out |-> Append(out, row)]
  BY <1>3, Zenon DEF Deduped
<1> HIDE DEF to
<1>9. CASE key \in D /\ now - acc.seen[key] < window
  <2>1. to = acc BY <1>8, <1>9
  <2>2. Grows(out, out) BY <1>1 DEF Grows
  <2>3. WentOut(out, key, now, window)
    <3>1. PICK i \in 1..m : K(i) = key /\ out[i].at = acc.seen[key] BY <1>7, <1>9
    <3>2. out[i].at <= now BY <1>7, <1>9, <3>1
    <3>3. now - out[i].at < window BY <1>9, <3>1
    <3> QED BY <3>1, <3>2, <3>3, Zenon DEF WentOut
  <2> QED BY <2>1, <2>2, <2>3, Zenon DEF DedupedBy, to
<1>10. CASE ~(key \in D /\ now - acc.seen[key] < window)
  <2> DEFINE new == Append(out, row)
  <2>1. to = [seen |-> seen, out |-> new] BY <1>8, <1>10
  <2>2. to.seen = seen /\ to.out = new BY <2>1
  <2>3. /\ Len(new) = m + 1 /\ new[m + 1] = row /\ \A i \in 1..m : new[i] = out[i]
        /\ new \in Outs(C)
    <3> HIDE DEF row, out
    <3> QED BY <1>0, <1>1, AppendProperties DEF Outs
  <2>4. seen = [k \in D \cup {key} |-> IF k = key THEN now ELSE acc.seen[k]] BY <1>3, Zenon DEF Put
  <2>5. DOMAIN seen = D \cup {key} /\ seen[key] = now /\ \A e \in D : e # key => seen[e] = acc.seen[e]
    <3> HIDE DEF key, seen
    <3> QED BY <2>4
  <2>6. seen \in UNION {[E -> Int] : E \in SUBSET KeysOf(C)}
    <3> HIDE DEF key, seen
    <3>1. D \cup {key} \in SUBSET KeysOf(C) BY <1>0
    <3>2. seen \in [D \cup {key} -> Int] BY <1>6, <2>4
    <3> QED BY <3>1, <3>2
  <2> HIDE DEF seen, new, row
  <2>7. to \in DedupeStates(C) BY <2>1, <2>3, <2>6 DEF DedupeStates
  <2>8. \A i \in 1..(m + 1) : i = m + 1 \/ i \in 1..m
    <3> HIDE DEF m
    <3> QED BY <1>1
  <2>9. m + 1 \in 1..(m + 1) /\ \A i \in 1..m : i \in 1..(m + 1) /\ i < m + 1
    <3> HIDE DEF m
    <3> QED BY <1>1
  <2> DEFINE N(i) == DedupeKey(new[i].c)
  <2>10. /\ N(m + 1) = key /\ new[m + 1].at = now
         /\ \A i \in 1..m : N(i) = K(i) /\ new[i].at = out[i].at
    BY <1>0, <2>3
  <2> HIDE DEF key, N, K
  <2>11. ASSUME NEW i \in 1..(m + 1) PROVE N(i) \in DOMAIN seen /\ new[i].at <= seen[N(i)]
    <3>1. CASE i = m + 1 BY <2>5, <2>10, <3>1
    <3>2. CASE i \in 1..m
      <4>1. N(i) \in D /\ new[i].at <= acc.seen[N(i)] BY <1>7, <2>10, <3>2
      <4>2. CASE N(i) = key
        <5>1. acc.seen[key] <= now /\ acc.seen[key] \in Int /\ new[i].at \in Int
          BY <1>5, <1>6, <1>7, <2>10, <3>2, <4>1, <4>2
        <5>2. new[i].at <= now BY <4>1, <4>2, <5>1
        <5> QED BY <2>5, <4>2, <5>2
      <4>3. CASE N(i) # key BY <2>5, <4>1, <4>3
      <4> QED BY <4>2, <4>3
    <3> QED BY <2>8, <3>1, <3>2
  <2>12. ASSUME NEW e \in DOMAIN seen
         PROVE  seen[e] <= now /\ \E i \in 1..(m + 1) : N(i) = e /\ new[i].at = seen[e]
    <3>1. CASE e = key BY <2>5, <2>9, <2>10, <3>1
    <3>2. CASE e # key
      <4>1. e \in D /\ seen[e] = acc.seen[e] BY <2>5, <3>2
      <4>2. PICK i \in 1..m : K(i) = e /\ out[i].at = acc.seen[e] BY <1>7, <4>1
      <4>3. N(i) = e /\ new[i].at = seen[e] /\ i \in 1..(m + 1) BY <2>9, <2>10, <4>1, <4>2
      <4>4. seen[e] <= now BY <1>7, <4>1
      <4> QED BY <4>3, <4>4
    <3> QED BY <3>1, <3>2
  <2>13. ASSUME NEW i \in 1..(m + 1), NEW j \in 1..(m + 1), i < j, N(i) = N(j)
         PROVE  new[j].at - new[i].at >= window
    <3>1. i \in 1..m
      <4> HIDE DEF m
      <4> QED BY <1>1, <2>13
    <3>2. CASE j = m + 1
      <4>1. K(i) = key /\ new[i].at = out[i].at /\ new[j].at = now BY <2>10, <2>13, <3>1, <3>2
      <4>2. key \in D /\ out[i].at <= acc.seen[key] BY <1>7, <3>1, <4>1
      <4>3. ~(now - acc.seen[key] < window) BY <1>10, <4>2
      <4>4. acc.seen[key] \in Int /\ out[i].at \in Int BY <1>5, <1>6, <3>1, <4>2
      <4>5. now - out[i].at >= window
        <5> HIDE DEF out
        <5> QED BY <4>2, <4>3, <4>4
      <4> QED BY <4>1, <4>5
    <3>3. CASE j \in 1..m
      <4>1. K(i) = K(j) /\ new[i].at = out[i].at /\ new[j].at = out[j].at BY <2>10, <2>13, <3>1, <3>3
      <4>2. out[j].at - out[i].at >= window BY <1>7, <2>13, <3>1, <3>3, <4>1
      <4> QED BY <4>1, <4>2
    <3> QED BY <2>8, <3>2, <3>3
  <2>14. Spaced(to, now, window) BY <2>2, <2>3, <2>11, <2>12, <2>13, Zenon DEF Spaced, N
  <2>15. Grows(out, to.out)
    <3> HIDE DEF out
    <3> QED BY <1>1, <2>2, <2>3 DEF Grows
  <2>16. WentOut(to.out, key, now, window)
    <3>1. now <= now /\ now - now < window OBVIOUS
    <3> QED BY <2>2, <2>3, <2>9, <2>10, <3>1, Zenon DEF WentOut, N
  <2> QED BY <2>7, <2>14, <2>15, <2>16, Zenon DEF DedupedBy, to, key
<1> QED BY <1>9, <1>10

\* Time passing keeps them spaced.
LEMMA SpacedLater ==
  ASSUME NEW C, NEW acc \in DedupeStates(C), NEW before \in Int, NEW now \in Int, before <= now, NEW window,
         Spaced(acc, before, window)
  PROVE  Spaced(acc, now, window)
<1>1. PICK D \in SUBSET KeysOf(C) : acc.seen \in [D -> Int] BY DEF DedupeStates
<1>2. \A key \in DOMAIN acc.seen : acc.seen[key] \in Int BY <1>1
<1>3. \A key \in DOMAIN acc.seen : acc.seen[key] <= before BY Zenon DEF Spaced
<1>4. \A key \in DOMAIN acc.seen : acc.seen[key] <= now BY <1>2, <1>3
<1> QED BY <1>4, Zenon DEF Spaced

\* Spaced or not, what one candidate leaves is of the same kind.
LEMMA DedupeTyped ==
  ASSUME NEW C, NEW acc \in DedupeStates(C), NEW c \in C, NEW now \in Int, NEW window
  PROVE  Deduped(acc, c, now, window) \in DedupeStates(C)
<1> DEFINE key == DedupeKey(c)
           row == [c |-> c, at |-> now]
           seen == Put(acc.seen, key, now)
           to == Deduped(acc, c, now, window)
<1>0. key \in KeysOf(C) /\ row \in [c : C, at : Int] BY DEF KeysOf
<1>1. acc.out \in Seq([c : C, at : Int]) BY DEF DedupeStates, Outs
<1>2. PICK D \in SUBSET KeysOf(C) : acc.seen \in [D -> Int] BY DEF DedupeStates
<1>3. DOMAIN acc.seen = D BY <1>2
<1>4. to = IF key \in D /\ now - acc.seen[key] < window THEN acc ELSE [seen |-> seen, out |-> Append(acc.out, row)]
  BY <1>3, Zenon DEF Deduped
<1>5. seen = [k \in D \cup {key} |-> IF k = key THEN now ELSE acc.seen[k]] BY <1>3, Zenon DEF Put
<1> HIDE DEF key, row, seen
<1>6. seen \in UNION {[E -> Int] : E \in SUBSET KeysOf(C)}
  <2>1. D \cup {key} \in SUBSET KeysOf(C) BY <1>0
  <2>2. seen \in [D \cup {key} -> Int] BY <1>2, <1>5
  <2> QED BY <2>1, <2>2
<1>7. Append(acc.out, row) \in Outs(C) BY <1>0, <1>1, AppendProperties DEF Outs
<1> HIDE DEF to
<1>8. to \in DedupeStates(C)
  <2>1. CASE to = acc BY <2>1
  <2>2. CASE to = [seen |-> seen, out |-> Append(acc.out, row)] BY <1>6, <1>7, <2>2 DEF DedupeStates
  <2> QED BY <1>4, <2>1, <2>2
<1> QED BY <1>8 DEF to

\* What a poll leaves: something of the same kind, and, if the keys were spaced, spaced
\* keys, more that went out, and every candidate found among what did within the window.
AllDedupedBy(acc, found, m, now, window, C, to) ==
  /\ to \in DedupeStates(C)
  /\ Spaced(acc, now, window) =>
       /\ Spaced(to, now, window)
       /\ Grows(acc.out, to.out)
       /\ \A k \in 1..m : WentOut(to.out, DedupeKey(found[k]), now, window)

\* Whatever the poll found.
LEMMA PollDeduped ==
  ASSUME NEW C, NEW acc \in DedupeStates(C), NEW m \in Nat, NEW found \in [1..m -> C], NEW now \in Int,
         NEW window \in Int, window > 0
  PROVE  AllDedupedBy(acc, found, m, now, window, C, AllDeduped(acc, found, now, window))
<1> DEFINE X == DedupeStates(C)
           step == [k \in 1..m |-> [a \in X |-> Deduped(a, found[k], now, window)]]
           answer(f) == f = [k \in 0..m |-> IF k = 0 THEN acc ELSE Deduped(f[k - 1], found[k], now, window)]
           w == CHOOSE f : answer(f)
<1>1. \A k \in 1..m : found[k] \in C OBVIOUS
<1>2. \A k \in 1..m : \A a \in X : step[k][a] = Deduped(a, found[k], now, window) /\ step[k][a] \in X
  <2> SUFFICES ASSUME NEW k \in 1..m, NEW a \in X
               PROVE  step[k][a] = Deduped(a, found[k], now, window) /\ step[k][a] \in X
    OBVIOUS
  <2>1. step[k][a] = Deduped(a, found[k], now, window) OBVIOUS
  <2>2. Deduped(a, found[k], now, window) \in X BY <1>1, DedupeTyped
  <2> HIDE DEF step, X
  <2> QED BY <2>1, <2>2
<1>3. acc \in X OBVIOUS
<1> HIDE DEF X, step
<1>4. PICK f : History(f, X, acc, m, step) BY <1>2, <1>3, Iterated DEF Steps
<1>5. f \in [0..m -> X] /\ f[0] = acc /\ \A i \in 1..m : f[i] = step[i][f[i - 1]] BY <1>4 DEF History
<1>6. answer(f)
  <2>1. \A i \in 1..m : f[i] = Deduped(f[i - 1], found[i], now, window)
    <3> SUFFICES ASSUME NEW i \in 1..m PROVE f[i] = Deduped(f[i - 1], found[i], now, window) OBVIOUS
    <3>1. i - 1 \in 0..m OBVIOUS
    <3>2. f[i - 1] \in X BY <1>5, <3>1
    <3> QED BY <1>2, <1>5, <3>2
  <2>2. \A i \in 0..m : i = 0 \/ i \in 1..m OBVIOUS
  <2> QED BY <1>5, <2>1, <2>2
<1>7. answer(w) BY <1>6, Zenon
<1>8. Len(found) = m BY LenProperties
<1>9. AllDeduped(acc, found, now, window) = w[m] BY <1>8, Zenon DEF AllDeduped
<1> HIDE DEF w
<1>10. w[0] = acc /\ \A k \in 1..m : w[k] = Deduped(w[k - 1], found[k], now, window)
  <2>1. w[0] = acc BY <1>7
  <2>2. ASSUME NEW k \in 1..m PROVE w[k] = Deduped(w[k - 1], found[k], now, window)
    <3>1. k \in 0..m /\ k # 0 OBVIOUS
    <3> QED BY <1>7, <3>1, Zenon
  <2> QED BY <2>1, <2>2
<1> HIDE DEF answer
<1> DEFINE Good == [k \in 0..m |-> {a \in X : AllDedupedBy(acc, found, k, now, window, C, a)}]
<1>11. w[0] \in Good[0]
  <2>1. Grows(acc.out, acc.out)
    <3>1. acc.out \in Outs(C) BY DEF DedupeStates
    <3>2. Len(acc.out) \in Nat BY <3>1, LenProperties DEF Outs
    <3> QED BY <3>2 DEF Grows
  <2>2. 1..0 = {} BY SMT
  <2>3. AllDedupedBy(acc, found, 0, now, window, C, acc) BY <2>1, <2>2, Zenon DEF AllDedupedBy
  <2> QED BY <1>3, <1>10, <2>3
<1>12. \A k \in 1..m : w[k - 1] \in Good[k - 1] => w[k] \in Good[k]
  <2> SUFFICES ASSUME NEW k \in 1..m, w[k - 1] \in Good[k - 1] PROVE w[k] \in Good[k] OBVIOUS
  <2>1. k - 1 \in 0..m /\ k \in 0..m OBVIOUS
  <2> DEFINE a == w[k - 1]
             c == found[k]
             to == Deduped(a, c, now, window)
  <2>2. a \in DedupeStates(C) /\ AllDedupedBy(acc, found, k - 1, now, window, C, a) BY <2>1 DEF X
  <2>3. w[k] = to BY <1>10
  <2>4. c \in C BY <1>1
  <2> HIDE DEF a, c
  <2>5. to \in DedupeStates(C) BY <2>2, <2>4, DedupeTyped
  <2>6. ASSUME Spaced(acc, now, window)
        PROVE  /\ Spaced(to, now, window) /\ Grows(acc.out, to.out)
               /\ \A j \in 1..k : WentOut(to.out, DedupeKey(found[j]), now, window)
    <3>1. /\ Spaced(a, now, window) /\ Grows(acc.out, a.out)
          /\ \A j \in 1..(k - 1) : WentOut(a.out, DedupeKey(found[j]), now, window)
      BY <2>2, <2>6, Zenon DEF AllDedupedBy
    <3>2. DedupedBy(a, DedupeKey(c), now, window, C, to) BY <2>2, <2>4, <3>1, DedupeStep
    <3> HIDE DEF to
    <3>3. Spaced(to, now, window) /\ Grows(a.out, to.out) /\ WentOut(to.out, DedupeKey(c), now, window)
      BY <3>2, Zenon DEF DedupedBy
    <3>4. acc.out \in Outs(C) /\ a.out \in Outs(C) /\ to.out \in Outs(C) BY <2>2, <2>5 DEF DedupeStates
    <3>5. Grows(acc.out, to.out) BY <3>1, <3>3, <3>4, GrowsOn
    <3>6. ASSUME NEW j \in 1..k PROVE WentOut(to.out, DedupeKey(found[j]), now, window)
      <4>1. CASE j = k BY <3>3, <4>1, Zenon DEF c
      <4>2. CASE j # k
        <5>1. j \in 1..(k - 1) BY <4>2
        <5>2. WentOut(a.out, DedupeKey(found[j]), now, window) BY <3>1, <5>1
        <5> QED BY <3>3, <3>4, <5>2, StillOut
      <4> QED BY <4>1, <4>2
    <3> QED BY <3>3, <3>5, <3>6
  <2> HIDE DEF to
  <2>7. AllDedupedBy(acc, found, k, now, window, C, to) BY <2>5, <2>6, Zenon DEF AllDedupedBy
  <2> QED BY <2>1, <2>3, <2>5, <2>7 DEF X
<1> HIDE DEF Good
<1>13. w[m] \in Good[m]
  <2>1. \A k \in 0..m : w[k] \in Good[k] BY <1>11, <1>12, Carried
  <2> QED BY <2>1
<1> QED BY <1>9, <1>13 DEF Good
-----------------------------------------------------------------------------
(* The stream of the Morpho indexer. *)

IsPolling(params) ==
  /\ params.base \in Nat /\ params.least \in Nat /\ params.success \in Nat /\ params.most \in Nat
  /\ params.base <= params.most

\* A chain's next poll comes within its longest interval, or after its success interval.
Paced(state, params, now) ==
  /\ state.interval <= params.most \/ state.interval = params.success
  /\ state.next <= now + params.most \/ state.interval = params.success

StreamStates(C) == [acc : DedupeStates(C), interval : Int, next : Int]

\* What a turn of the stream leaves.
TurnedBy(state, found, m, params, now, window, C, to) ==
  /\ to \in StreamStates(C)
  /\ Spaced(state.acc, now, window) =>
       /\ Spaced(to.acc, now, window)
       /\ Grows(state.acc.out, to.acc.out)
       /\ now >= state.next => \A k \in 1..m : WentOut(to.acc.out, DedupeKey(found[k]), now, window)
  /\ Paced(state, params, now) => Paced(to, params, now)

\* The intervals of a chain, whatever is desired.
LEMMA PollingResolved ==
  ASSUME NEW desired \in Nat \cup {Unset}
  PROVE  IsPolling(resolveChainPollingConfig(desired))
<1> DEFINE at(least, value) == IF value > least THEN value ELSE least
           base == at(MinPoll, IF desired = Unset THEN DefaultPoll ELSE desired)
           low == at(MinPoll, IF desired = Unset THEN base ELSE desired)
           success == at(MinPoll, IF desired = Unset THEN DefaultSuccess ELSE desired)
           most == at(base, IF desired \in {Unset, 0} THEN DefaultMaxPoll ELSE at(base, 4 * desired))
           params == resolveChainPollingConfig(desired)
<1>1. params = [base |-> base, least |-> low, success |-> success, most |-> most] BY Zenon DEF resolveChainPollingConfig
<1>2. MinPoll \in Nat /\ DefaultPoll \in Nat /\ DefaultSuccess \in Nat /\ DefaultMaxPoll \in Nat BY IndexersAssumption
<1>3. base \in Nat
  <2> HIDE DEF params
  <2> QED BY <1>2
<1>4. low \in Nat
  <2> HIDE DEF params, base
  <2> QED BY <1>2, <1>3
<1>5. success \in Nat
  <2> HIDE DEF params
  <2> QED BY <1>2
<1>6. most \in Nat /\ base <= most
  <2> HIDE DEF params, base
  <2> QED BY <1>2, <1>3
<1> HIDE DEF base, low, success, most
<1>7. params.base = base /\ params.least = low /\ params.success = success /\ params.most = most BY <1>1
<1> HIDE DEF params
<1>8. IsPolling(params) BY <1>3, <1>4, <1>5, <1>6, <1>7 DEF IsPolling
<1> QED BY <1>8 DEF params

\* A turn leaves that.
LEMMA StreamTurned ==
  ASSUME NEW C, NEW state \in StreamStates(C), NEW m \in Nat, NEW found \in [1..m -> C], NEW params, IsPolling(params),
         NEW now \in Int, NEW window \in Int, window > 0
  PROVE  TurnedBy(state, found, m, params, now, window, C, streamMorphoTurn(state, found, params, now, window))
<1> DEFINE acc == AllDeduped(state.acc, found, now, window)
           yielded == Len(acc.out) - Len(state.acc.out)
           interval == nextInterval(params, state.interval, yielded)
           next == now + interval
           to == streamMorphoTurn(state, found, params, now, window)
<1>0. state.acc \in DedupeStates(C) /\ state.interval \in Int /\ state.next \in Int BY DEF StreamStates
<1>1. to = IF now < state.next THEN state ELSE [acc |-> acc, interval |-> interval, next |-> next]
  BY Zenon DEF streamMorphoTurn
<1>2. AllDedupedBy(state.acc, found, m, now, window, C, acc) BY <1>0, PollDeduped
<1> HIDE DEF acc
<1>3. acc \in DedupeStates(C) BY <1>2, Zenon DEF AllDedupedBy
<1>4. interval \in Int /\ (interval <= params.most \/ interval = params.success)
  <2> DEFINE from == IF state.interval > params.least THEN state.interval ELSE params.least
             grown == Multiplier * from
  <2>1. interval = IF yielded > 0 THEN params.success ELSE IF grown < params.most THEN grown ELSE params.most
    BY Zenon DEF nextInterval
  <2>2. params.least \in Nat /\ params.success \in Nat /\ params.most \in Nat BY DEF IsPolling
  <2>3. Multiplier \in Int BY IndexersAssumption
  <2>4. from \in Int BY <1>0, <2>2
  <2> HIDE DEF from
  <2>5. grown \in Int BY <2>3, <2>4
  <2> HIDE DEF grown, interval, yielded
  <2> QED BY <2>1, <2>2, <2>5
<1> HIDE DEF interval, to
<1>5. CASE now < state.next
  <2>1. to = state BY <1>1, <1>5
  <2>2. ~(now >= state.next) BY <1>0, <1>5
  <2>3. Grows(state.acc.out, state.acc.out)
    <3>1. state.acc.out \in Outs(C) BY <1>0 DEF DedupeStates
    <3>2. Len(state.acc.out) \in Nat BY <3>1, LenProperties DEF Outs
    <3> QED BY <3>2 DEF Grows
  <2> QED BY <2>1, <2>2, <2>3, Zenon DEF TurnedBy, to
<1>6. CASE ~(now < state.next)
  <2>1. to = [acc |-> acc, interval |-> interval, next |-> next] BY <1>1, <1>6
  <2>2. next \in Int BY <1>4
  <2>3. params.most \in Nat BY DEF IsPolling
  <2>4. next <= now + params.most \/ interval = params.success BY <1>4, <2>3
  <2> HIDE DEF next
  <2>5. to.acc = acc /\ to.interval = interval /\ to.next = next BY <2>1
  <2>6. to \in StreamStates(C) BY <1>3, <1>4, <2>1, <2>2 DEF StreamStates
  <2>7. Paced(to, params, now) BY <1>4, <2>4, <2>5, Zenon DEF Paced
  <2>8. Spaced(state.acc, now, window) =>
          /\ Spaced(acc, now, window) /\ Grows(state.acc.out, acc.out)
          /\ \A k \in 1..m : WentOut(acc.out, DedupeKey(found[k]), now, window)
    BY <1>2, Zenon DEF AllDedupedBy
  <2>9. TurnedBy(state, found, m, params, now, window, C, to) BY <2>5, <2>6, <2>7, <2>8, Zenon DEF TurnedBy
  <2> QED BY <2>9 DEF to
<1> QED BY <1>5, <1>6

FoundOf(U) == [user : U, debt : {"A"}, coll : {"B"}]

\* A poll finds a candidate for each account it lists.
LEMMA PollFinds ==
  ASSUME NEW U, NEW poll \in Seq(U)
  PROVE  /\ Len(poll) \in Nat /\ DOMAIN poll = 1..Len(poll)
         /\ foundIn(poll) \in [1..Len(poll) -> FoundOf(U)]
         /\ \A k \in 1..Len(poll) : foundIn(poll)[k].user = poll[k]
<1>1. Len(poll) \in Nat /\ DOMAIN poll = 1..Len(poll) BY LenProperties
<1> DEFINE m == Len(poll)
<1>2. \A k \in 1..m : poll[k] \in U BY ElementOfSeq
<1> DEFINE f == [k \in 1..m |-> [user |-> poll[k], debt |-> "A", coll |-> "B"]]
<1>3. foundIn(poll) = f BY <1>1, Zenon DEF foundIn
<1> HIDE DEF m
<1>4. f \in [1..m -> FoundOf(U)] /\ \A k \in 1..m : f[k].user = poll[k] BY <1>2 DEF FoundOf
<1> HIDE DEF f
<1> QED BY <1>1, <1>3, <1>4 DEF m

\* The turns of a stream, poll by poll.
AreTurns(w, polls, n, params, gap, window, C) ==
  /\ DOMAIN w = 0..n
  /\ w[0] = [acc |-> NothingOut, interval |-> params.base, next |-> 0]
  /\ \A k \in 1..n : TurnedBy(w[k - 1], foundIn(polls[k]), Len(polls[k]), params, gap * k, window, C, w[k])

\* A stream begins with nothing out.
LEMMA StreamBegins ==
  ASSUME NEW C, NEW params, IsPolling(params), NEW window
  PROVE  LET state == [acc |-> NothingOut, interval |-> params.base, next |-> 0]
         IN /\ state \in StreamStates(C) /\ state.acc = NothingOut
            /\ Paced(state, params, 0) /\ Spaced(NothingOut, 0, window)
<1> DEFINE none == <<>>
           state == [acc |-> NothingOut, interval |-> params.base, next |-> 0]
<1>1. NothingOut = [seen |-> none, out |-> <<>>] /\ NothingOut.seen = none /\ NothingOut.out = <<>> BY DEF NothingOut
<1>2. none \in [{} -> Int] /\ DOMAIN none = {}
  <2>1. none = [x \in {} |-> 0] BY SMT
  <2> QED BY <2>1
<1> HIDE DEF none
<1>3. <<>> \in Outs(C) BY DEF Outs
<1>4. NothingOut \in DedupeStates(C)
  <2> DEFINE Seen == UNION {[D -> Int] : D \in SUBSET KeysOf(C)}
  <2>1. none \in Seen
    <3>1. {} \in SUBSET KeysOf(C) OBVIOUS
    <3> QED BY <1>2, <3>1
  <2> HIDE DEF Seen
  <2>2. NothingOut \in [seen : Seen, out : Outs(C)] BY <1>1, <1>3, <2>1
  <2> QED BY <2>2 DEF DedupeStates, Seen
<1>5. Spaced(NothingOut, 0, window)
  <2>1. 1..Len(<<>>) = {} BY SMT
  <2> QED BY <1>1, <1>2, <2>1, Zenon DEF Spaced
<1>6. params.base \in Nat /\ params.most \in Nat /\ params.base <= params.most BY DEF IsPolling
<1>7. state.acc = NothingOut /\ state.interval = params.base /\ state.next = 0 OBVIOUS
<1>8. state \in StreamStates(C) BY <1>4, <1>6 DEF StreamStates
<1> HIDE DEF state
<1>9. Paced(state, params, 0) BY <1>6, <1>7 DEF Paced
<1> QED BY <1>5, <1>7, <1>8, <1>9 DEF state

\* Its turns are those of streamMorphoTurn.
LEMMA StreamTurns ==
  ASSUME NEW n \in Nat, NEW U, NEW polls \in [1..n -> Seq(U)], NEW params, IsPolling(params), NEW gap \in Nat
  PROVE  AreTurns(streamOf(polls, params, gap), polls, n, params, gap, 4, FoundOf(U))
<1> DEFINE C == FoundOf(U)
           X == StreamStates(C)
           base == [acc |-> NothingOut, interval |-> params.base, next |-> 0]
           window == 4
           turn(s, k) == streamMorphoTurn(s, foundIn(polls[k]), params, gap * k, window)
           step == [k \in 1..n |-> [s \in X |-> turn(s, k)]]
           answer(f) == f = [k \in 0..n |-> IF k = 0 THEN base ELSE turn(f[k - 1], k)]
           w == CHOOSE f : answer(f)
<1>0. window \in Int /\ window > 0 OBVIOUS
<1>1. ASSUME NEW k \in 1..n, NEW s \in X
      PROVE  TurnedBy(s, foundIn(polls[k]), Len(polls[k]), params, gap * k, window, C, turn(s, k))
  <2> DEFINE poll == polls[k]
             now == gap * k
  <2>1. poll \in Seq(U) /\ now \in Int OBVIOUS
  <2> HIDE DEF poll, now, window, C
  <2>2. Len(poll) \in Nat /\ foundIn(poll) \in [1..Len(poll) -> C] BY <2>1, PollFinds DEF C
  <2>3. TurnedBy(s, foundIn(poll), Len(poll), params, now, window, C, streamMorphoTurn(s, foundIn(poll), params, now, window))
    BY <1>0, <2>1, <2>2, StreamTurned
  <2> QED BY <2>3 DEF poll, now
<1>2. Len(polls) = n BY LenProperties
<1>3. streamOf(polls, params, gap) = w BY <1>2, Zenon DEF streamOf
<1> HIDE DEF turn, C, window
<1>4. ASSUME NEW k \in 1..n, NEW s \in X PROVE turn(s, k) \in X BY <1>1, Zenon DEF TurnedBy
<1>5. \A k \in 1..n : \A s \in X : step[k][s] = turn(s, k) /\ step[k][s] \in X
  <2> SUFFICES ASSUME NEW k \in 1..n, NEW s \in X PROVE step[k][s] = turn(s, k) /\ step[k][s] \in X OBVIOUS
  <2>1. step[k][s] = turn(s, k) OBVIOUS
  <2>2. turn(s, k) \in X BY <1>4
  <2> HIDE DEF step, X
  <2> QED BY <2>1, <2>2
<1>6. base \in X BY StreamBegins
<1> HIDE DEF X, step, base
<1>7. PICK f : History(f, X, base, n, step) BY <1>5, <1>6, Iterated DEF Steps
<1>8. f \in [0..n -> X] /\ f[0] = base /\ \A i \in 1..n : f[i] = step[i][f[i - 1]] BY <1>7 DEF History
<1>9. answer(f)
  <2>1. \A i \in 1..n : f[i] = turn(f[i - 1], i)
    <3> SUFFICES ASSUME NEW i \in 1..n PROVE f[i] = turn(f[i - 1], i) OBVIOUS
    <3>1. i - 1 \in 0..n OBVIOUS
    <3>2. f[i - 1] \in X BY <1>8, <3>1
    <3> QED BY <1>5, <1>8, <3>2
  <2>2. \A i \in 0..n : i = 0 \/ i \in 1..n OBVIOUS
  <2> QED BY <1>8, <2>1, <2>2
<1>10. answer(w) BY <1>9, Zenon
<1> HIDE DEF w
<1>11. w[0] = base /\ (\A k \in 1..n : w[k] = turn(w[k - 1], k)) /\ DOMAIN w = 0..n
  <2>1. w[0] = base /\ DOMAIN w = 0..n BY <1>10
  <2>2. ASSUME NEW k \in 1..n PROVE w[k] = turn(w[k - 1], k)
    <3>1. k \in 0..n /\ k # 0 OBVIOUS
    <3> QED BY <1>10, <3>1, Zenon
  <2> QED BY <2>1, <2>2
<1> HIDE DEF answer
<1> DEFINE Good == [k \in 0..n |-> X]
<1>12. \A k \in 0..n : w[k] \in X
  <2>1. w[0] \in Good[0] BY <1>6, <1>11
  <2>2. \A k \in 1..n : w[k - 1] \in Good[k - 1] => w[k] \in Good[k]
    <3> SUFFICES ASSUME NEW k \in 1..n, w[k - 1] \in Good[k - 1] PROVE w[k] \in Good[k] OBVIOUS
    <3>1. k - 1 \in 0..n /\ k \in 0..n OBVIOUS
    <3>2. w[k - 1] \in X BY <3>1
    <3>3. w[k] \in X BY <1>4, <1>11, <3>2
    <3> QED BY <3>1, <3>3
  <2> HIDE DEF Good
  <2>3. \A k \in 0..n : w[k] \in Good[k] BY <2>1, <2>2, Carried
  <2> QED BY <2>3 DEF Good
<1>13. \A k \in 1..n : TurnedBy(w[k - 1], foundIn(polls[k]), Len(polls[k]), params, gap * k, window, C, w[k])
  <2> SUFFICES ASSUME NEW k \in 1..n
               PROVE  TurnedBy(w[k - 1], foundIn(polls[k]), Len(polls[k]), params, gap * k, window, C, w[k])
    OBVIOUS
  <2>1. k - 1 \in 0..n OBVIOUS
  <2>2. w[k - 1] \in X BY <1>12, <2>1
  <2> QED BY <1>1, <1>11, <2>2
<1>14. AreTurns(w, polls, n, params, gap, window, C) BY <1>11, <1>13, Zenon DEF AreTurns, base
<1> QED BY <1>3, <1>14 DEF C, window

\* After k turns the keys are spaced, the chain paced, and all that went out is still out.
TurnedWell(w, k, params, gap, window, C) ==
  /\ w[k] \in StreamStates(C)
  /\ Spaced(w[k].acc, gap * k, window)
  /\ Paced(w[k], params, gap * k)
  /\ \A i \in 0..k : w[i].acc.out \in Outs(C) /\ Grows(w[i].acc.out, w[k].acc.out)

\* So they are after each.
LEMMA TurnsWell ==
  ASSUME NEW w, NEW n \in Nat, NEW polls, NEW params, IsPolling(params), NEW gap \in Nat, NEW window \in Int, NEW C,
         AreTurns(w, polls, n, params, gap, window, C)
  PROVE  \A k \in 0..n : TurnedWell(w, k, params, gap, window, C)
<1> DEFINE Has(k) == TurnedWell(w, k, params, gap, window, C)
           S == {k \in Nat : k <= n => Has(k)}
           base == [acc |-> NothingOut, interval |-> params.base, next |-> 0]
<1>1. 0 \in S
  <2>1. w[0] = base BY Zenon DEF AreTurns
  <2>2. base \in StreamStates(C) /\ base.acc = NothingOut /\ Paced(base, params, 0) /\ Spaced(NothingOut, 0, window)
    BY StreamBegins
  <2> HIDE DEF base
  <2>3. gap * 0 = 0 /\ \A i \in 0..0 : i = 0 OBVIOUS
  <2>4. w[0].acc.out \in Outs(C) /\ Grows(w[0].acc.out, w[0].acc.out)
    <3>1. w[0].acc.out \in Outs(C) BY <2>1, <2>2 DEF StreamStates, DedupeStates
    <3>2. Len(w[0].acc.out) \in Nat BY <3>1, LenProperties DEF Outs
    <3> QED BY <3>1, <3>2 DEF Grows
  <2>5. Has(0) BY <2>1, <2>2, <2>3, <2>4, Zenon DEF TurnedWell
  <2> QED BY <2>5
<1>2. \A k \in Nat : k \in S => k + 1 \in S
  <2> SUFFICES ASSUME NEW k \in Nat, Has(k), k + 1 <= n PROVE Has(k + 1)
    <3> HIDE DEF Has
    <3> QED OBVIOUS
  <2> DEFINE e == k + 1
             s == w[k]
             to == w[e]
             now == gap * e
             before == gap * k
  <2>1. e \in 1..n /\ e - 1 = k /\ now \in Int /\ before \in Int /\ before <= now
    <3>1. now = before + gap OBVIOUS
    <3> QED BY <3>1
  <2>2. /\ s \in StreamStates(C) /\ Spaced(s.acc, before, window) /\ Paced(s, params, before)
        /\ \A i \in 0..k : w[i].acc.out \in Outs(C) /\ Grows(w[i].acc.out, s.acc.out)
        /\ s.acc \in DedupeStates(C) /\ s.next \in Int
    BY DEF TurnedWell, StreamStates
  <2> HIDE DEF e, now, before
  <2>3. TurnedBy(s, foundIn(polls[e]), Len(polls[e]), params, now, window, C, to)
    <3>1. \A i \in 1..n : TurnedBy(w[i - 1], foundIn(polls[i]), Len(polls[i]), params, gap * i, window, C, w[i])
      BY Zenon DEF AreTurns
    <3> QED BY <2>1, <3>1 DEF now
  <2> HIDE DEF s, to
  <2>4. Spaced(s.acc, now, window) BY <2>1, <2>2, SpacedLater
  <2>5. Paced(s, params, now)
    <3>1. params.most \in Nat BY DEF IsPolling
    <3> QED BY <2>1, <2>2, <3>1 DEF Paced
  <2>6. to \in StreamStates(C) /\ Spaced(to.acc, now, window) /\ Paced(to, params, now) /\ Grows(s.acc.out, to.acc.out)
    BY <2>3, <2>4, <2>5, Zenon DEF TurnedBy
  <2>7. to.acc.out \in Outs(C) /\ s.acc.out \in Outs(C) BY <2>2, <2>6 DEF StreamStates, DedupeStates
  <2>8. ASSUME NEW i \in 0..e PROVE w[i].acc.out \in Outs(C) /\ Grows(w[i].acc.out, to.acc.out)
    <3>1. CASE i = e
      <4>1. Len(to.acc.out) \in Nat BY <2>7, LenProperties DEF Outs
      <4> QED BY <2>7, <3>1, <4>1 DEF Grows, to
    <3>2. CASE i # e
      <4>1. i \in 0..k BY <3>2 DEF e
      <4> DEFINE a == w[i].acc.out
      <4>2. a \in Outs(C) /\ Grows(a, s.acc.out) BY <2>2, <4>1
      <4> HIDE DEF a
      <4>3. Grows(a, to.acc.out) BY <2>6, <2>7, <4>2, GrowsOn
      <4> QED BY <4>2, <4>3 DEF a
    <3> QED BY <3>1, <3>2
  <2>9. TurnedWell(w, e, params, gap, window, C) BY <2>6, <2>8, Zenon DEF TurnedWell, now, to
  <2> QED BY <2>9 DEF e
<1>3. Nat \subseteq S
  <2> HIDE DEF S
  <2> QED BY <1>1, <1>2, NatInductionSet
<1> HIDE DEF Has
<1> QED BY <1>3 DEF Has

\* Of a stream: the same candidate passes twice only a window apart, one is withheld at a poll
\* only for one that passed within the window, and no chain waits longer than its longest
\* interval or its success interval.
OnceAWindow(states, polls, n, params, gap, U) ==
  LET out == states[n].acc.out
  IN /\ \A i, j \in 1..Len(out) :
          i < j /\ DedupeKey(out[i].c) = DedupeKey(out[j].c) => out[j].at - out[i].at >= 4
     /\ \A i \in 1..n : \A k \in 1..Len(polls[i]) :
          gap * i >= states[i - 1].next => WentOut(out, DedupeKey(foundIn(polls[i])[k]), gap * i, 4)
     /\ \A i \in 0..n : Paced(states[i], params, gap * i)
     /\ out \in Outs(FoundOf(U)) /\ DOMAIN states = 0..n

\* So it is, whatever the polls find and whatever interval is desired.
THEOREM StreamsOnceAWindow ==
  ASSUME NEW n \in Nat, NEW U, NEW polls \in [1..n -> Seq(U)], NEW desired \in Nat \cup {Unset}, NEW gap \in Nat
  PROVE  OnceAWindow(streamOf(polls, resolveChainPollingConfig(desired), gap), polls, n,
                     resolveChainPollingConfig(desired), gap, U)
<1> DEFINE params == resolveChainPollingConfig(desired)
           states == streamOf(polls, params, gap)
           out == states[n].acc.out
           window == 4
           C == FoundOf(U)
<1>1. IsPolling(params) BY PollingResolved
<1> HIDE DEF params
<1>2. AreTurns(states, polls, n, params, gap, window, C) /\ DOMAIN states = 0..n
  <2> HIDE DEF states, window, C, out
  <2>1. AreTurns(states, polls, n, params, gap, window, C) BY <1>1, StreamTurns DEF states, window, C
  <2>2. DOMAIN states = 0..n BY <2>1, Zenon DEF AreTurns
  <2> QED BY <2>1, <2>2
<1>3. window \in Int OBVIOUS
<1> HIDE DEF states, window, C
<1>4. \A k \in 0..n : TurnedWell(states, k, params, gap, window, C) BY <1>1, <1>2, <1>3, TurnsWell
<1>5. ASSUME NEW k \in 0..n
      PROVE  /\ states[k] \in StreamStates(C) /\ Spaced(states[k].acc, gap * k, window) /\ Paced(states[k], params, gap * k)
             /\ \A i \in 0..k : states[i].acc.out \in Outs(C) /\ Grows(states[i].acc.out, states[k].acc.out)
  BY <1>4, Zenon DEF TurnedWell
<1>6. n \in 0..n OBVIOUS
<1>7. \A i, j \in 1..Len(out) : i < j /\ DedupeKey(out[i].c) = DedupeKey(out[j].c) => out[j].at - out[i].at >= window
  <2>1. Spaced(states[n].acc, gap * n, window) BY <1>5, <1>6
  <2> QED BY <2>1, Zenon DEF Spaced
<1>8. ASSUME NEW i \in 1..n, NEW k \in 1..Len(polls[i]), gap * i >= states[i - 1].next
      PROVE  WentOut(out, DedupeKey(foundIn(polls[i])[k]), gap * i, window)
  <2> DEFINE before == states[i - 1]
             to == states[i]
             now == gap * i
             key == DedupeKey(foundIn(polls[i])[k])
             earlier == gap * (i - 1)
  <2>1. i \in 0..n /\ i - 1 \in 0..n /\ now \in Int /\ earlier \in Int /\ earlier <= now
    <3>1. i \in 0..n /\ i - 1 \in 0..n /\ now \in Int /\ earlier \in Int OBVIOUS
    <3>2. now = earlier + gap OBVIOUS
    <3> QED BY <3>1, <3>2
  <2>2. TurnedBy(before, foundIn(polls[i]), Len(polls[i]), params, now, window, C, to) BY <1>2, Zenon DEF AreTurns
  <2>3. before \in StreamStates(C) /\ Spaced(before.acc, earlier, window) BY <1>5, <2>1
  <2> HIDE DEF before, now, earlier
  <2>4. before.acc \in DedupeStates(C) BY <2>3 DEF StreamStates
  <2>5. Spaced(before.acc, now, window) BY <2>1, <2>3, <2>4, SpacedLater
  <2>6. now >= before.next BY <1>8 DEF before, now
  <2>7. WentOut(to.acc.out, key, now, window) BY <2>2, <2>5, <2>6, Zenon DEF TurnedBy
  <2>8. to.acc.out \in Outs(C) /\ out \in Outs(C) /\ Grows(to.acc.out, out) BY <1>5, <1>6, <2>1
  <2> HIDE DEF to, key, out
  <2>9. WentOut(out, key, now, window) BY <2>7, <2>8, StillOut
  <2> QED BY <2>9 DEF key, now
<1>9. \A i \in 0..n : Paced(states[i], params, gap * i) BY <1>5
<1>10. out \in Outs(C) BY <1>5, <1>6
<1> HIDE DEF out
<1>11. /\ \A i, j \in 1..Len(out) : i < j /\ DedupeKey(out[i].c) = DedupeKey(out[j].c) => out[j].at - out[i].at >= window
       /\ \A i \in 1..n : \A k \in 1..Len(polls[i]) :
            gap * i >= states[i - 1].next => WentOut(out, DedupeKey(foundIn(polls[i])[k]), gap * i, window)
       /\ \A i \in 0..n : Paced(states[i], params, gap * i)
       /\ out \in Outs(C) /\ DOMAIN states = 0..n
  BY <1>2, <1>7, <1>8, <1>9, <1>10
<1>12. OnceAWindow(states, polls, n, params, gap, U) BY <1>11, Zenon DEF OnceAWindow, out, window, C
<1> QED BY <1>12 DEF params, states

\* What is asked of a stream.
StreamAsAsked(polls, params, gap, states) ==
  LET out == states[Len(polls)].acc.out
  IN /\ \A i, j \in DOMAIN out : i < j /\ out[i].c = out[j].c => out[j].at - out[i].at >= 4
     /\ \A i \in DOMAIN polls : \A k \in DOMAIN polls[i] :
          gap * i >= states[i - 1].next =>
            \E o \in ToSet(out) : /\ o.c.user = polls[i][k]
                                  /\ o.at <= gap * i /\ gap * i - o.at < 4
     /\ \A i \in DOMAIN states :
          /\ states[i].interval <= (IF params.success > params.most THEN params.success ELSE params.most)
          /\ states[i].next <= gap * i + params.most \/ states[i].interval = params.success

\* A stream is as asked.
LEMMA StreamsAsAsked ==
  ASSUME NEW n \in Nat, NEW U, NEW polls \in [1..n -> Seq(U)], NEW desired \in Nat \cup {Unset}, NEW gap \in Nat
  PROVE  LET params == resolveChainPollingConfig(desired)
         IN StreamAsAsked(polls, params, gap, streamOf(polls, params, gap))
<1> DEFINE params == resolveChainPollingConfig(desired)
           states == streamOf(polls, params, gap)
           out == states[n].acc.out
           window == 4
           C == FoundOf(U)
<1>1. IsPolling(params) BY PollingResolved
<1>2. /\ \A i, j \in 1..Len(out) : i < j /\ DedupeKey(out[i].c) = DedupeKey(out[j].c) => out[j].at - out[i].at >= window
      /\ \A i \in 1..n : \A k \in 1..Len(polls[i]) :
           gap * i >= states[i - 1].next => WentOut(out, DedupeKey(foundIn(polls[i])[k]), gap * i, window)
      /\ \A i \in 0..n : Paced(states[i], params, gap * i)
      /\ out \in Outs(C) /\ DOMAIN states = 0..n
  <2>1. OnceAWindow(states, polls, n, params, gap, U) BY StreamsOnceAWindow
  <2> HIDE DEF states, params
  <2> QED BY <2>1, Zenon DEF OnceAWindow
<1>3. params.success \in Nat /\ params.most \in Nat BY <1>1 DEF IsPolling
<1> HIDE DEF params, states, window, C
<1>4. Len(polls) = n /\ DOMAIN polls = 1..n BY LenProperties
<1>5. DOMAIN out = 1..Len(out)
  <2> HIDE DEF out
  <2> QED BY <1>2, LenProperties DEF Outs
<1> HIDE DEF out
<1>6. \A i, j \in DOMAIN out : i < j /\ out[i].c = out[j].c => out[j].at - out[i].at >= window
  <2> SUFFICES ASSUME NEW i \in DOMAIN out, NEW j \in DOMAIN out, i < j, out[i].c = out[j].c
               PROVE  out[j].at - out[i].at >= window
    OBVIOUS
  <2>1. DedupeKey(out[i].c) = DedupeKey(out[j].c) OBVIOUS
  <2> QED BY <1>2, <1>5, <2>1
<1>7. ASSUME NEW i \in DOMAIN polls, NEW k \in DOMAIN polls[i], gap * i >= states[i - 1].next
      PROVE  \E o \in ToSet(out) : /\ o.c.user = polls[i][k]
                                   /\ o.at <= gap * i /\ gap * i - o.at < window
  <2> DEFINE poll == polls[i]
             now == gap * i
             c == foundIn(poll)[k]
  <2>1. i \in 1..n /\ poll \in Seq(U) BY <1>4
  <2>2. k \in 1..Len(poll) /\ c.user = poll[k] BY <2>1, PollFinds
  <2>3. WentOut(out, DedupeKey(c), now, window) BY <1>2, <1>7, <2>1, <2>2
  <2> HIDE DEF c, now, poll
  <2>4. PICK e \in 1..Len(out) : DedupeKey(out[e].c) = DedupeKey(c) /\ out[e].at <= now /\ now - out[e].at < window
    BY <2>3, Zenon DEF WentOut
  <2>5. out[e].c.user = c.user
    <3> DEFINE d == out[e].c
    <3>1. <<d.user, d.debt, d.coll>> = <<c.user, c.debt, c.coll>> BY <2>4, Zenon DEF DedupeKey
    <3> HIDE DEF d
    <3>2. d.user = c.user BY <3>1
    <3> QED BY <3>2 DEF d
  <2>6. out[e] \in ToSet(out) BY <1>5 DEF ToSet
  <2>7. out[e].c.user = poll[k] BY <2>2, <2>5
  <2> QED BY <2>4, <2>6, <2>7, Zenon DEF poll, now
<1>8. ASSUME NEW i \in DOMAIN states
      PROVE  /\ states[i].interval <= (IF params.success > params.most THEN params.success ELSE params.most)
             /\ states[i].next <= gap * i + params.most \/ states[i].interval = params.success
  <2>1. Paced(states[i], params, gap * i) BY <1>2
  <2> DEFINE s == states[i]
             now == gap * i
  <2>2. /\ s.interval <= params.most \/ s.interval = params.success
        /\ s.next <= now + params.most \/ s.interval = params.success
    BY <2>1, Zenon DEF Paced
  <2>3. i \in 0..n /\ s \in StreamStates(C)
    <3>1. i \in 0..n BY <1>2
    <3>2. AreTurns(states, polls, n, params, gap, window, C) BY <1>1, StreamTurns DEF states, window, C
    <3>3. TurnedWell(states, i, params, gap, window, C) BY <1>1, <3>1, <3>2, TurnsWell DEF window
    <3> QED BY <3>1, <3>3, Zenon DEF TurnedWell
  <2>4. s.interval \in Int BY <2>3 DEF StreamStates
  <2> HIDE DEF s, now
  <2>5. /\ s.interval <= (IF params.success > params.most THEN params.success ELSE params.most)
        /\ s.next <= now + params.most \/ s.interval = params.success
    BY <1>3, <2>2, <2>4
  <2> QED BY <2>5 DEF s, now
<1>9. states[Len(polls)].acc.out = out BY <1>4 DEF out
<1>10. StreamAsAsked(polls, params, gap, states) BY <1>6, <1>7, <1>8, <1>9, Zenon DEF StreamAsAsked, window
<1> QED BY <1>10 DEF params, states

\* The stream's answer is sound.
LEMMA StreamAnswered == AskStream => decision'.about = "stream" /\ StreamSound'
<1> SUFFICES ASSUME AskStream PROVE decision'.about = "stream" /\ StreamSound' OBVIOUS
<1>1. PICK polls \in [1..4 -> {<<>>, <<"u">>, <<"u", "v">>}], desired \in {Unset, 2, 5}, gap \in {1, 3, 6} :
        AnswerStream(polls, resolveChainPollingConfig(desired), gap)
  BY SMT DEF AskStream
<1> DEFINE params == resolveChainPollingConfig(desired)
           states == streamOf(polls, params, gap)
           n == 4
           U == {"u", "v"}
<1>2. decision' = [about |-> "stream", polls |-> polls, params |-> params, gap |-> gap, states |-> states]
  BY <1>1, Zenon DEF AnswerStream, Decide
<1>3. polls \in [1..n -> Seq(U)]
  <2>1. <<>> \in Seq(U) /\ <<"u">> \in Seq(U) /\ <<"u", "v">> \in Seq(U) OBVIOUS
  <2> QED BY <2>1
<1>4. n \in Nat /\ desired \in Nat \cup {Unset} /\ gap \in Nat OBVIOUS
<1> HIDE DEF n, U
<1>5. StreamAsAsked(polls, params, gap, states) BY <1>3, <1>4, StreamsAsAsked
<1> HIDE DEF params, states
<1>6. /\ decision'.about = "stream" /\ decision'.polls = polls /\ decision'.params = params /\ decision'.gap = gap
      /\ decision'.states = states
  BY <1>2
<1>7. StreamAsAsked(decision'.polls, decision'.params, decision'.gap, decision'.states) BY <1>5, <1>6
<1> QED BY <1>6, <1>7, Zenon DEF StreamSound, About, StreamAsAsked
-----------------------------------------------------------------------------
(* The Compound indexer. *)

\* An account with m collaterals and n tokens, each of another asset.
IsAccount(account, m, n) ==
  /\ account.health \in Int \cup {NoHf}
  /\ DOMAIN account.collateral = 1..m /\ DOMAIN account.tokens = 1..n
  /\ \A i \in 1..m : account.collateral[i].balance \in Int
  /\ \A i \in 1..n : account.tokens[i].balance \in Int
  /\ \A i, j \in 1..m : account.collateral[i].asset = account.collateral[j].asset => i = j

\* Its candidate: below one, its largest collateral, the first of the largest, and its
\* first debt, both in whole units.
LargestAndFirst(account, m, n, c) ==
  /\ account.health < HealthOne /\ c.hf = account.health /\ c.user = account.user
  /\ \E i \in 1..m : /\ c.coll = account.collateral[i].asset /\ account.collateral[i].whole
                     /\ account.collateral[i].balance > 0
                     /\ \A j \in 1..m : /\ account.collateral[j].balance <= account.collateral[i].balance
                                        /\ account.collateral[j].balance = account.collateral[i].balance => i <= j
  /\ \E i \in 1..n : /\ c.debt = account.tokens[i].asset /\ account.tokens[i].whole
                     /\ account.tokens[i].balance < 0
                     /\ \A j \in 1..(i - 1) : account.tokens[j].balance >= 0

\* The first of the largest, and the first.
HasLargest(b, S) == \E i \in S : \A j \in S : b[j] < b[i] \/ (b[j] = b[i] /\ i <= j)
HasFirst(S) == \E i \in S : \A j \in S : i <= j

\* Numbers below a bound have a largest, and the first place of it; and some have a first.
LEMMA LargestFirst ==
  ASSUME NEW m \in Nat, NEW b, \A i \in 1..m : b[i] \in Int, NEW S \in SUBSET (1..m), S # {}
  PROVE  HasLargest(b, S) /\ HasFirst(S)
<1> DEFINE In(k) == S \cap 1..k
           Has(k) == In(k) # {} => /\ \E i \in In(k) : \A j \in In(k) : b[j] < b[i] \/ (b[j] = b[i] /\ i <= j)
                                   /\ \E i \in In(k) : \A j \in In(k) : i <= j
           N == {k \in Nat : k <= m => Has(k)}
<1>1. 0 \in N
  <2>1. In(0) = {} OBVIOUS
  <2> HIDE DEF In
  <2> QED BY <2>1
<1>2. \A k \in Nat : k \in N => k + 1 \in N
  <2> SUFFICES ASSUME NEW k \in Nat, Has(k), k + 1 <= m PROVE Has(k + 1)
    <3> HIDE DEF Has
    <3> QED OBVIOUS
  <2> DEFINE e == k + 1
  <2>0. e \in Nat /\ e \in 1..m /\ (\A j \in In(k) : j \in 1..m /\ j <= k /\ j < e /\ j \in Int) /\ In(e) = (In(k) \cup (S \cap {e}))
    OBVIOUS
  <2>1. \A j \in In(e) : j = e \/ j \in In(k) BY <2>0
  <2>2. (\A j \in In(k) : b[j] \in Int) /\ b[e] \in Int BY <2>0
  <2> HIDE DEF In
  <2>3. CASE e \notin S
    <3>1. In(e) = In(k) BY <2>0, <2>3
    <3> QED BY <3>1
  <2>4. CASE e \in S /\ In(k) = {}
    <3>1. In(e) = {e} BY <2>0, <2>4
    <3> HIDE DEF e
    <3>2. Has(e) BY <2>0, <3>1
    <3> QED BY <3>2 DEF e
  <2>5. CASE e \in S /\ In(k) # {}
    <3>1. PICK i \in In(k) : \A j \in In(k) : b[j] < b[i] \/ (b[j] = b[i] /\ i <= j) BY <2>5
    <3>2. PICK f \in In(k) : \A j \in In(k) : f <= j BY <2>5
    <3>3. e \in In(e) /\ i \in In(e) /\ f \in In(e) BY <2>0, <2>5
    <3> HIDE DEF e
    <3>4. \A j \in In(e) : f <= j BY <2>0, <2>1, <3>2
    <3>5. \E l \in In(e) : \A j \in In(e) : b[j] < b[l] \/ (b[j] = b[l] /\ l <= j)
      <4>1. CASE b[e] > b[i]
        <5>1. \A j \in In(e) : b[j] < b[e] \/ (b[j] = b[e] /\ e <= j) BY <2>0, <2>1, <2>2, <3>1, <4>1
        <5> QED BY <3>3, <5>1
      <4>2. CASE ~(b[e] > b[i])
        <5>1. b[e] < b[i] \/ b[e] = b[i] BY <2>2, <4>2
        <5>2. i <= e BY <2>0
        <5>3. \A j \in In(e) : b[j] < b[i] \/ (b[j] = b[i] /\ i <= j) BY <2>1, <3>1, <5>1, <5>2
        <5> QED BY <3>3, <5>3
      <4> QED BY <4>1, <4>2
    <3>6. Has(e) BY <3>3, <3>4, <3>5
    <3> QED BY <3>6 DEF e
  <2> QED BY <2>3, <2>4, <2>5
<1>3. Nat \subseteq N
  <2> HIDE DEF N
  <2> QED BY <1>1, <1>2, NatInductionSet
<1>4. Has(m)
  <2> HIDE DEF Has
  <2> QED BY <1>3
<1>5. In(m) = S OBVIOUS
<1> HIDE DEF In
<1> QED BY <1>4, <1>5 DEF HasLargest, HasFirst

\* A candidate of Compound is of an account below one, with its largest collateral and its
\* first debt.
THEOREM CompoundPicks ==
  ASSUME NEW m \in Nat, NEW n \in Nat, NEW account, IsAccount(account, m, n),
         convertToCandidate(account) # NoCandidate
  PROVE  LargestAndFirst(account, m, n, convertToCandidate(account))
<1> DEFINE cs == account.collateral
           ts == account.tokens
           balance(i) == cs[i].balance
           colls == {i \in DOMAIN cs : balance(i) > 0}
           debts == {i \in DOMAIN ts : ts[i].balance < 0}
           ic == CHOOSE i \in colls : \A j \in colls : balance(j) < balance(i) \/ (balance(j) = balance(i) /\ i <= j)
           it == CHOOSE i \in debts : \A j \in debts : i <= j
           coll == cs[ic]
           debt == ts[it]
           c == convertToCandidate(account)
<1>1. c = IF account.health = NoHf \/ account.health >= HealthOne \/ colls = {} \/ debts = {} \/ ~debt.whole \/ ~coll.whole
          THEN NoCandidate
          ELSE [user |-> account.user, hf |-> account.health, debt |-> debt.asset, coll |-> coll.asset]
  BY Zenon DEF convertToCandidate
<1> HIDE DEF c, colls, debts, ic, it, coll, debt
<1>2. c # NoCandidate BY DEF c
<1>3. /\ account.health # NoHf /\ ~(account.health >= HealthOne) /\ colls # {} /\ debts # {} /\ debt.whole /\ coll.whole
      /\ c = [user |-> account.user, hf |-> account.health, debt |-> debt.asset, coll |-> coll.asset]
  BY <1>1, <1>2
<1>4. /\ account.health \in Int \cup {NoHf} /\ DOMAIN cs = 1..m /\ DOMAIN ts = 1..n
      /\ \A i \in 1..m : balance(i) \in Int
      /\ \A i \in 1..n : ts[i].balance \in Int
  BY Zenon DEF IsAccount
<1>5. account.health < HealthOne BY <1>3, <1>4 DEF HealthOne
<1>6. ic \in colls /\ \A j \in colls : balance(j) < balance(ic) \/ (balance(j) = balance(ic) /\ ic <= j)
  <2> DEFINE b == [i \in 1..m |-> balance(i)]
  <2>1. \A i \in 1..m : b[i] \in Int /\ b[i] = balance(i) BY <1>4
  <2>2. colls \in SUBSET (1..m) BY <1>4 DEF colls
  <2> HIDE DEF b
  <2>3. HasLargest(b, colls) BY <1>3, <2>1, <2>2, LargestFirst
  <2>4. \E i \in colls : \A j \in colls : balance(j) < balance(i) \/ (balance(j) = balance(i) /\ i <= j)
    <3> HIDE DEF balance
    <3> QED BY <2>1, <2>2, <2>3 DEF HasLargest
  <2> QED BY <2>4, Zenon DEF ic
<1>7. it \in debts /\ \A j \in debts : it <= j
  <2> DEFINE b == [i \in 1..n |-> 0]
  <2>1. \A i \in 1..n : b[i] \in Int OBVIOUS
  <2>2. debts \in SUBSET (1..n) BY <1>4 DEF debts
  <2> HIDE DEF b
  <2>3. HasFirst(debts) BY <1>3, <2>1, <2>2, LargestFirst
  <2> QED BY <2>3, Zenon DEF it, HasFirst
<1>8. ic \in 1..m /\ balance(ic) > 0 /\ \A j \in 1..m : balance(j) <= balance(ic) /\ (balance(j) = balance(ic) => ic <= j)
  <2>1. ic \in 1..m /\ balance(ic) > 0 BY <1>4, <1>6 DEF colls
  <2>2. ASSUME NEW j \in 1..m PROVE balance(j) <= balance(ic) /\ (balance(j) = balance(ic) => ic <= j)
    <3>1. balance(j) \in Int /\ balance(ic) \in Int BY <1>4, <2>1
    <3>2. balance(j) > 0 => j \in colls BY <1>4 DEF colls
    <3> HIDE DEF balance
    <3> QED BY <1>6, <2>1, <3>1, <3>2
  <2> QED BY <2>1, <2>2
<1>9. it \in 1..n /\ ts[it].balance < 0 /\ \A j \in 1..(it - 1) : ts[j].balance >= 0
  <2>1. it \in 1..n /\ ts[it].balance < 0 BY <1>4, <1>7 DEF debts
  <2>2. ASSUME NEW j \in 1..(it - 1) PROVE ts[j].balance >= 0
    <3>1. j \in 1..n /\ ~(it <= j) BY <2>1
    <3>2. j \notin debts BY <1>7, <3>1
    <3>3. ~(ts[j].balance < 0) BY <1>4, <3>1, <3>2 DEF debts
    <3> QED BY <1>4, <3>1, <3>3
  <2> QED BY <2>1, <2>2
<1>10. c.user = account.user /\ c.hf = account.health /\ c.debt = ts[it].asset /\ c.coll = cs[ic].asset
  BY <1>3 DEF debt, coll
<1>11. ts[it].whole /\ cs[ic].whole BY <1>3 DEF debt, coll
<1>12. LargestAndFirst(account, m, n, c) BY <1>5, <1>8, <1>9, <1>10, <1>11, Zenon DEF LargestAndFirst
<1> QED BY <1>12 DEF c

\* Every market of the chain finds the account alike.
LEMMA MarketsFindAlike ==
  ASSUME NEW account, NEW comets \in Nat
  PROVE  LET c == convertToCandidate(account)
         IN pollCompoundV3CandidatesOnce(<<account>>, comets) = IF c = NoCandidate THEN <<>> ELSE [k \in 1..comets |-> c]
<1> DEFINE c == convertToCandidate(account)
           found(a) == IF convertToCandidate(a) = NoCandidate THEN <<>> ELSE [k \in 1..comets |-> convertToCandidate(a)]
           accounts == <<account>>
           s == found(account)
           answer(f) == f = [i \in 0..1 |-> IF i = 0 THEN <<>> ELSE f[i - 1] \o found(accounts[i])]
           f1 == [i \in 0..1 |-> IF i = 0 THEN <<>> ELSE s]
           w == CHOOSE f : answer(f)
<1>1. Len(accounts) = 1 /\ accounts[1] = account OBVIOUS
<1>2. <<>> \o s = s
  <2>1. CASE c = NoCandidate
    <3>1. s = <<>> BY <2>1
    <3> HIDE DEF s
    <3> QED BY <3>1
  <2>2. CASE c # NoCandidate
    <3>1. s = [k \in 1..comets |-> c] BY <2>2
    <3> HIDE DEF s, c
    <3>2. s \in Seq({c}) /\ <<>> \in Seq({c})
      <4>1. s \in [1..comets -> {c}] BY <3>1
      <4> QED BY <4>1
    <3> QED BY <3>2
  <2> QED BY <2>1, <2>2
<1>3. s = IF c = NoCandidate THEN <<>> ELSE [k \in 1..comets |-> c] OBVIOUS
<1>4. pollCompoundV3CandidatesOnce(accounts, comets) = w[1] BY <1>1, Zenon DEF pollCompoundV3CandidatesOnce
<1>5. s = found(accounts[1]) BY <1>1
<1> HIDE DEF found, s, accounts, c
<1>6. answer(f1)
  <2>1. f1[0] = <<>> /\ f1[1] = s OBVIOUS
  <2>2. \A i \in 0..1 : i = 0 \/ i = 1 OBVIOUS
  <2>3. \A i \in 0..1 : f1[i] = IF i = 0 THEN <<>> ELSE f1[i - 1] \o found(accounts[i])
    <3> HIDE DEF f1
    <3>0. 1 - 1 = 0 BY SMT
    <3>1. f1[1] = f1[1 - 1] \o found(accounts[1]) BY <1>2, <1>5, <2>1, <3>0, Zenon
    <3> QED BY <2>1, <2>2, <3>1
  <2>4. f1 = [i \in 0..1 |-> f1[i]] OBVIOUS
  <2> HIDE DEF f1
  <2> QED BY <2>3, <2>4
<1> HIDE DEF f1
<1>7. answer(w) BY <1>6, Zenon
<1> HIDE DEF w
<1>8. w[0] = <<>> /\ w[1] = w[1 - 1] \o found(accounts[1])
  <2>1. 0 \in 0..1 /\ 1 \in 0..1 /\ 1 # 0 BY SMT
  <2>2. \A i \in 0..1 : w[i] = IF i = 0 THEN <<>> ELSE w[i - 1] \o found(accounts[i]) BY <1>7, Zenon
  <2> HIDE DEF answer
  <2>3. w[0] = <<>> BY <2>1, <2>2, Zenon
  <2>4. w[1] = w[1 - 1] \o found(accounts[1]) BY <2>1, <2>2, Zenon
  <2> QED BY <2>3, <2>4
<1>9. w[1] = s
  <2>1. 1 - 1 = 0 BY SMT
  <2> QED BY <1>2, <1>5, <1>8, <2>1, Zenon
<1> QED BY <1>3, <1>4, <1>9 DEF accounts, c

\* The same candidate over and over at once goes out once.
LEMMA RepeatedGoesOnce ==
  ASSUME NEW c, NEW m \in Nat, NEW now \in Int, NEW window \in Int, window > 0
  PROVE  Len(AllDeduped(NothingOut, [k \in 1..m |-> c], now, window).out) = (IF m = 0 THEN 0 ELSE 1)
<1> DEFINE found == [k \in 1..m |-> c]
           key == DedupeKey(c)
           row == [c |-> c, at |-> now]
           none == <<>>
           seen == Put(none, key, now)
           one == [seen |-> seen, out |-> Append(<<>>, row)]
           answer(f) == f = [k \in 0..m |-> IF k = 0 THEN NothingOut ELSE Deduped(f[k - 1], found[k], now, window)]
           f1 == [k \in 0..m |-> IF k = 0 THEN NothingOut ELSE one]
           w == CHOOSE f : answer(f)
<1>1. Len(found) = m /\ \A k \in 1..m : found[k] = c
  <2>1. found \in [1..m -> {c}] /\ \A k \in 1..m : found[k] = c OBVIOUS
  <2> HIDE DEF found
  <2> QED BY <2>1, LenProperties
<1>2. NothingOut = [seen |-> none, out |-> <<>>] /\ NothingOut.seen = none /\ NothingOut.out = <<>> BY DEF NothingOut
<1>3. none = [x \in {} |-> 0] BY SMT
<1>4. DOMAIN none = {} BY <1>3
<1> HIDE DEF found, key, row, none
<1>5. DOMAIN seen = {key} /\ seen[key] = now
  <2>1. seen = [k \in {key} |-> IF k = key THEN now ELSE none[k]]
    <3>1. DOMAIN none \cup {key} = {key} BY <1>4
    <3> QED BY <3>1, Zenon DEF Put
  <2> HIDE DEF seen
  <2> QED BY <2>1
<1>6. Deduped(NothingOut, c, now, window) = one
  <2>1. key \notin DOMAIN NothingOut.seen BY <1>2, <1>4
  <2>2. Deduped(NothingOut, c, now, window)
          = [seen |-> Put(NothingOut.seen, key, now), out |-> Append(NothingOut.out, row)]
    BY <2>1, Zenon DEF Deduped, key, row
  <2> QED BY <1>2, <2>2
<1>7. one.seen = seen /\ one.out = Append(<<>>, row) /\ Len(one.out) = 1
  <2>1. one.seen = seen /\ one.out = Append(<<>>, row) OBVIOUS
  <2>2. Len(Append(<<>>, row)) = 1 OBVIOUS
  <2> HIDE DEF one
  <2> QED BY <2>1, <2>2
<1> HIDE DEF one, seen
<1>8. Deduped(one, c, now, window) = one
  <2>1. key \in DOMAIN one.seen /\ now - one.seen[key] < window BY <1>5, <1>7
  <2> QED BY <2>1, Zenon DEF Deduped, key
<1>9. answer(f1)
  <2>1. f1[0] = NothingOut /\ \A k \in 1..m : f1[k] = one OBVIOUS
  <2>2. ASSUME NEW k \in 1..m PROVE f1[k] = Deduped(f1[k - 1], found[k], now, window)
    <3>1. k - 1 = 0 \/ k - 1 \in 1..m OBVIOUS
    <3> HIDE DEF f1
    <3> QED BY <1>1, <1>6, <1>8, <2>1, <3>1
  <2>3. \A k \in 0..m : k = 0 \/ k \in 1..m OBVIOUS
  <2>4. \A k \in 0..m : f1[k] = IF k = 0 THEN NothingOut ELSE Deduped(f1[k - 1], found[k], now, window)
    <3> HIDE DEF f1
    <3> QED BY <2>1, <2>2, <2>3
  <2>5. f1 = [k \in 0..m |-> f1[k]] OBVIOUS
  <2> HIDE DEF f1
  <2> QED BY <2>4, <2>5
<1> HIDE DEF f1
<1>10. answer(w) BY <1>9, Zenon
<1>11. AllDeduped(NothingOut, found, now, window) = w[m] BY <1>1, Zenon DEF AllDeduped
<1> HIDE DEF w
<1>12. w[0] = NothingOut /\ \A k \in 1..m : w[k] = Deduped(w[k - 1], found[k], now, window)
  <2>1. w[0] = NothingOut BY <1>10
  <2>2. ASSUME NEW k \in 1..m PROVE w[k] = Deduped(w[k - 1], found[k], now, window)
    <3>1. k \in 0..m /\ k # 0 OBVIOUS
    <3> QED BY <1>10, <3>1, Zenon
  <2> QED BY <2>1, <2>2
<1> HIDE DEF answer
<1> DEFINE Good == [k \in 0..m |-> IF k = 0 THEN {NothingOut} ELSE {one}]
<1>13. \A k \in 0..m : w[k] \in Good[k]
  <2>1. w[0] \in Good[0] BY <1>12
  <2>2. \A k \in 1..m : w[k - 1] \in Good[k - 1] => w[k] \in Good[k]
    <3> SUFFICES ASSUME NEW k \in 1..m, w[k - 1] \in Good[k - 1] PROVE w[k] \in Good[k] OBVIOUS
    <3>1. Good[k] = {one} /\ w[k - 1] \in {NothingOut, one} OBVIOUS
    <3> HIDE DEF Good
    <3>2. w[k] = Deduped(w[k - 1], c, now, window) BY <1>1, <1>12
    <3>3. w[k] = one BY <1>6, <1>8, <3>1, <3>2
    <3> QED BY <3>1, <3>3
  <2> HIDE DEF Good
  <2> QED BY <2>1, <2>2, Carried
<1>14. CASE m = 0
  <2>1. w[m].out = <<>> BY <1>2, <1>12, <1>14
  <2>2. Len(w[m].out) = 0 BY <2>1
  <2> QED BY <1>11, <1>14, <2>2 DEF found
<1>15. CASE m # 0
  <2>1. m \in 0..m /\ Good[m] = {one} BY <1>15
  <2>2. w[m] = one BY <1>13, <2>1
  <2> QED BY <1>7, <1>11, <1>15, <2>2 DEF found
<1> QED BY <1>14, <1>15

\* What is asked of Compound.
CompoundAsAsked(account, comets, polled, streamed) ==
  /\ Len(polled) \in {0, comets}
  /\ Len(streamed) = (IF polled = <<>> THEN 0 ELSE 1)
  /\ \A c \in ToSet(polled) :
       /\ account.health < HealthOne
       /\ \A held \in ToSet(account.collateral) :
            held.balance <= (CHOOSE h \in ToSet(account.collateral) : h.asset = c.coll).balance

\* Compound is as asked.
LEMMA CompoundsAsAsked ==
  ASSUME NEW m \in Nat, NEW n \in Nat, NEW account, IsAccount(account, m, n), NEW comets \in Nat, comets > 0
  PROVE  CompoundAsAsked(account, comets, pollCompoundV3CandidatesOnce(<<account>>, comets),
                         streamCompoundV3Poll(NothingOut, <<account>>, comets, 1, 4).out)
<1> DEFINE c == convertToCandidate(account)
           polled == pollCompoundV3CandidatesOnce(<<account>>, comets)
           streamed == streamCompoundV3Poll(NothingOut, <<account>>, comets, 1, 4).out
           now == 1
           window == 4
           often == IF c = NoCandidate THEN 0 ELSE comets
           repeated == [k \in 1..often |-> c]
           cs == account.collateral
<1>1. polled = IF c = NoCandidate THEN <<>> ELSE [k \in 1..comets |-> c]
  <2> HIDE DEF polled, c
  <2> QED BY MarketsFindAlike DEF polled, c
<1>2. streamed = AllDeduped(NothingOut, polled, now, window).out BY Zenon DEF streamCompoundV3Poll
<1> HIDE DEF c, polled, streamed
<1>3. polled = repeated /\ often \in Nat
  <2>1. CASE c = NoCandidate
    <3>1. often = 0 /\ 1..often = {} /\ polled = <<>> BY <1>1, <2>1
    <3> HIDE DEF often
    <3>2. repeated = <<>> BY <3>1, SMT
    <3> QED BY <3>1, <3>2
  <2>2. CASE c # NoCandidate BY <1>1, <2>2
  <2> QED BY <2>1, <2>2
<1>4. Len(streamed) = (IF often = 0 THEN 0 ELSE 1)
  <2>1. now \in Int /\ window \in Int /\ window > 0 OBVIOUS
  <2> HIDE DEF now, window, often
  <2>2. Len(AllDeduped(NothingOut, repeated, now, window).out) = (IF often = 0 THEN 0 ELSE 1)
    BY <1>3, <2>1, RepeatedGoesOnce, ZenonT(30)
  <2> HIDE DEF repeated
  <2> QED BY <1>2, <1>3, <2>2
<1>5. Len(polled) = often /\ DOMAIN polled = 1..often /\ \A e \in ToSet(polled) : e = c /\ c # NoCandidate
  <2> HIDE DEF often
  <2>1. repeated \in [1..often -> {c}] /\ DOMAIN repeated = 1..often /\ \A k \in 1..often : repeated[k] = c OBVIOUS
  <2> HIDE DEF repeated
  <2>2. Len(repeated) = often BY <1>3, <2>1, LenProperties
  <2>3. ASSUME NEW e \in ToSet(polled) PROVE e = c /\ c # NoCandidate
    <3>1. PICK k \in 1..often : e = polled[k] BY <1>3, <2>1 DEF ToSet
    <3>2. often # 0 BY <1>3, <3>1
    <3>3. c # NoCandidate BY <3>2 DEF often
    <3> QED BY <1>3, <2>1, <3>1, <3>3
  <2> QED BY <1>3, <2>1, <2>2, <2>3
<1>6. polled = <<>> <=> often = 0
  <2>1. often = 0 => polled = <<>> BY <1>1
  <2>2. polled = <<>> => Len(polled) = 0 OBVIOUS
  <2> HIDE DEF often
  <2> QED BY <1>5, <2>1, <2>2
<1>7. Len(polled) \in {0, comets} BY <1>5
<1>8. Len(streamed) = (IF polled = <<>> THEN 0 ELSE 1)
  <2> HIDE DEF often
  <2> QED BY <1>4, <1>6
<1>9. ASSUME NEW e \in ToSet(polled)
      PROVE  /\ account.health < HealthOne
             /\ \A held \in ToSet(cs) : held.balance <= (CHOOSE h \in ToSet(cs) : h.asset = e.coll).balance
  <2>1. e = c /\ c # NoCandidate BY <1>5
  <2>2. LargestAndFirst(account, m, n, c) BY <2>1, CompoundPicks DEF c
  <2>3. account.health < HealthOne BY <2>2, Zenon DEF LargestAndFirst
  <2>4. PICK i \in 1..m : c.coll = cs[i].asset /\ \A j \in 1..m : cs[j].balance <= cs[i].balance
    BY <2>2, Zenon DEF LargestAndFirst
  <2>5. DOMAIN cs = 1..m /\ \A j, k \in 1..m : cs[j].asset = cs[k].asset => j = k BY Zenon DEF IsAccount
  <2>6. \A h \in ToSet(cs) : \E j \in 1..m : h = cs[j] BY <2>5 DEF ToSet
  <2>7. cs[i] \in ToSet(cs) BY <2>5 DEF ToSet
  <2> DEFINE chosen == CHOOSE h \in ToSet(cs) : h.asset = e.coll
  <2>8. chosen \in ToSet(cs) /\ chosen.asset = e.coll BY <2>1, <2>4, <2>7, Zenon
  <2>9. chosen = cs[i]
    <3>1. PICK j \in 1..m : chosen = cs[j] BY <2>6, <2>8
    <3>2. cs[j].asset = cs[i].asset BY <2>1, <2>4, <2>8, <3>1, Zenon
    <3> QED BY <2>5, <3>1, <3>2
  <2> HIDE DEF chosen
  <2>10. \A held \in ToSet(cs) : held.balance <= chosen.balance BY <2>4, <2>6, <2>9
  <2> QED BY <2>3, <2>10 DEF chosen
<1>10. CompoundAsAsked(account, comets, polled, streamed) BY <1>7, <1>8, <1>9, Zenon DEF CompoundAsAsked
<1> QED BY <1>10 DEF polled, streamed

\* The answer on Compound is sound.
LEMMA CompoundAnswered == AskCompound => decision'.about = "compound" /\ CompoundSound'
<1> SUFFICES ASSUME AskCompound PROVE decision'.about = "compound" /\ CompoundSound' OBVIOUS
<1> DEFINE Held == {<<>>, <<5>>, <<5, 7>>, <<7, 7>>}
<1>1. PICK health \in {NoHf, 9000, 10000}, owed \in {0, 1, 2}, held \in Held, whole \in BOOLEAN, comets \in 1..2 :
        AnswerCompound(AccountOf(health, owed, held, whole), comets)
  BY SMT DEF AskCompound
<1> DEFINE tokens == [i \in 1..2 |-> [asset |-> <<"A", "D">>[i], balance |-> IF owed = i THEN -4 ELSE 1, whole |-> TRUE]]
           collateral == [i \in DOMAIN held |-> [asset |-> <<"B", "C">>[i], balance |-> held[i], whole |-> whole]]
           account == AccountOf(health, owed, held, whole)
           polled == pollCompoundV3CandidatesOnce(<<account>>, comets)
           streamed == streamCompoundV3Poll(NothingOut, <<account>>, comets, 1, 4).out
<1>2. PICK m \in 0..2 : DOMAIN held = 1..m /\ \A i \in 1..m : held[i] \in Int
  <2>1. CASE held = <<>>
    <3>1. 0 \in 0..2 /\ DOMAIN <<>> = 1..0 OBVIOUS
    <3> QED BY <2>1, <3>1
  <2>2. CASE held = <<5>>
    <3>1. 1 \in 0..2 /\ DOMAIN <<5>> = 1..1 /\ \A i \in 1..1 : <<5>>[i] \in Int OBVIOUS
    <3> QED BY <2>2, <3>1
  <2>3. CASE held = <<5, 7>>
    <3>1. 2 \in 0..2 /\ DOMAIN <<5, 7>> = 1..2 /\ \A i \in 1..2 : <<5, 7>>[i] \in Int OBVIOUS
    <3> QED BY <2>3, <3>1
  <2>4. CASE held = <<7, 7>>
    <3>1. 2 \in 0..2 /\ DOMAIN <<7, 7>> = 1..2 /\ \A i \in 1..2 : <<7, 7>>[i] \in Int OBVIOUS
    <3> QED BY <2>4, <3>1
  <2> QED BY <2>1, <2>2, <2>3, <2>4
<1> HIDE DEF Held
<1>3. /\ DOMAIN collateral = 1..m
      /\ \A i \in 1..m : collateral[i].balance = held[i] /\ collateral[i].asset = <<"B", "C">>[i]
  BY <1>2
<1>4. DOMAIN tokens = 1..2 /\ \A i \in 1..2 : tokens[i].balance \in Int OBVIOUS
<1>5. account.health = health /\ account.tokens = tokens /\ account.collateral = collateral
  <2>1. account = [user |-> "u", health |-> health, tokens |-> tokens, collateral |-> collateral] BY SMT DEF AccountOf
  <2> HIDE DEF account, tokens, collateral
  <2> QED BY <2>1
<1> HIDE DEF tokens, collateral
<1>6. m \in Nat /\ comets \in Nat /\ comets > 0 /\ 2 \in Nat OBVIOUS
<1>7. ASSUME NEW i \in 1..m, NEW j \in 1..m, collateral[i].asset = collateral[j].asset PROVE i = j
  <2>1. <<"B", "C">>[1] = "B" /\ <<"B", "C">>[2] = "C" /\ "B" # "C" OBVIOUS
  <2>2. (i = 1 \/ i = 2) /\ (j = 1 \/ j = 2) OBVIOUS
  <2> QED BY <1>3, <1>7, <2>1, <2>2
<1> HIDE DEF account
<1>8. account.health \in Int \cup {NoHf} BY <1>5
<1>9. IsAccount(account, m, 2) BY <1>2, <1>3, <1>4, <1>5, <1>7, <1>8 DEF IsAccount
<1>10. CompoundAsAsked(account, comets, polled, streamed) BY <1>6, <1>9, CompoundsAsAsked
<1> HIDE DEF polled, streamed
<1>11. decision' = [about |-> "compound", account |-> account, comets |-> comets, polled |-> polled, streamed |-> streamed]
  BY <1>1, SMT DEF AnswerCompound, Decide, account, polled, streamed
<1>12. /\ decision'.about = "compound" /\ decision'.account = account /\ decision'.comets = comets
       /\ decision'.polled = polled /\ decision'.streamed = streamed
  BY <1>11
<1>13. CompoundAsAsked(decision'.account, decision'.comets, decision'.polled, decision'.streamed) BY <1>10, <1>12
<1> QED BY <1>12, <1>13, SMT DEF CompoundSound, About, CompoundAsAsked, HealthOne
-----------------------------------------------------------------------------
(* Sequences taken up element by element. *)

\* The value that is reached from the base by one step for each element of s in its order.
IsFold(step, base, s, value) ==
  \E w : /\ w[0] = base /\ value = w[Len(s)]
         /\ \A k \in 1..Len(s) : w[k] = step[s[k]][w[k - 1]]

\* Steps that stay within X, for each element of R.
StepsWithin(step, R, X) == \A r \in R : \A x \in X : step[r][x] \in X

\* What holds of no elements, and of one more whenever it holds of some, holds of all sequences.
LEMMA AllSequences ==
  ASSUME NEW R, NEW S, <<>> \in S, \A s \in Seq(R) : s \in S => \A r \in R : Append(s, r) \in S
  PROVE  \A s \in Seq(R) : s \in S
<1> SUFFICES ASSUME NEW s \in Seq(R) PROVE s \in S OBVIOUS
<1> DEFINE n == Len(s)
           N == {k \in Nat : k <= n => SubSeq(s, 1, k) \in S}
<1>1. n \in Nat /\ \A i \in 1..n : s[i] \in R
  <2>1. n \in Nat BY LenProperties
  <2>2. \A i \in 1..n : s[i] \in R BY ElementOfSeq
  <2> QED BY <2>1, <2>2
<1>2. 0 \in N
  <2>1. SubSeq(s, 1, 0) = <<>> BY SubSeqEmpty, Z3
  <2> QED BY <2>1
<1>3. \A k \in Nat : k \in N => k + 1 \in N
  <2> SUFFICES ASSUME NEW k \in Nat, k + 1 <= n, SubSeq(s, 1, k) \in S PROVE SubSeq(s, 1, k + 1) \in S BY <1>1
  <2> DEFINE a == SubSeq(s, 1, k)
             b == SubSeq(s, 1, k + 1)
             r == s[k + 1]
  <2>1. r \in R BY <1>1
  <2>2. a \in Seq(R) /\ Len(a) = k /\ \A i \in 1..k : a[i] = s[i]
    <3>1. \A i \in 1..k : s[i] \in R BY <1>1
    <3> QED BY <3>1, SubSeqProperties
  <2>3. b \in Seq(R) /\ Len(b) = k + 1 /\ \A i \in 1..(k + 1) : b[i] = s[i]
    <3>1. \A i \in 1..(k + 1) : s[i] \in R BY <1>1
    <3> QED BY <3>1, SubSeqProperties
  <2>4. a \in S OBVIOUS
  <2> HIDE DEF a, b
  <2>5. /\ Append(a, r) \in Seq(R) /\ Len(Append(a, r)) = k + 1
        /\ \A i \in 1..(k + 1) : Append(a, r)[i] = IF i <= k THEN a[i] ELSE r
    BY <2>1, <2>2, AppendProperties
  <2>6. \A i \in 1..(k + 1) : Append(a, r)[i] = b[i] BY <2>2, <2>3, <2>5
  <2>7. Append(a, r) = b
    <3> HIDE DEF r
    <3> QED BY <2>3, <2>5, <2>6, SeqEqual
  <2>8. Append(a, r) \in S BY <2>1, <2>2, <2>4
  <2> QED BY <2>7, <2>8 DEF b
<1>4. Nat \subseteq N
  <2> HIDE DEF N
  <2> QED BY <1>2, <1>3, NatInductionSet
<1>5. SubSeq(s, 1, n) \in S BY <1>1, <1>4
<1>6. SubSeq(s, 1, n) = s BY SubSeqFull
<1> QED BY <1>5, <1>6

\* Steps have their history over a sequence.
LEMMA FoldExists ==
  ASSUME NEW R, NEW s \in Seq(R), NEW X, NEW base \in X, NEW step, StepsWithin(step, R, X)
  PROVE  \E w : w \in [0..Len(s) -> X] /\ w[0] = base /\ \A k \in 1..Len(s) : w[k] = step[s[k]][w[k - 1]]
<1> DEFINE n == Len(s)
           by == [k \in 1..n |-> step[s[k]]]
<1>1. n \in Nat /\ \A i \in 1..n : s[i] \in R BY LenProperties, ElementOfSeq
<1>2. \A k \in 1..n : by[k] = step[s[k]] OBVIOUS
<1> HIDE DEF by
<1>3. \A k \in 1..n : \A x \in X : by[k][x] \in X BY <1>1, <1>2 DEF StepsWithin
<1> HIDE DEF n
<1>4. PICK w : History(w, X, base, n, by) BY <1>1, <1>3, Iterated DEF Steps
<1>5. w \in [0..n -> X] /\ w[0] = base /\ \A i \in 1..n : w[i] = by[i][w[i - 1]] BY <1>4 DEF History
<1>6. w \in [0..n -> X] /\ w[0] = base /\ \A i \in 1..n : w[i] = step[s[i]][w[i - 1]] BY <1>2, <1>5
<1> QED BY <1>6 DEF n

\* Of no elements the fold is the base.
LEMMA FoldOfNone ==
  ASSUME NEW step, NEW base, NEW value, IsFold(step, base, <<>>, value)
  PROVE  value = base
<1>1. Len(<<>>) = 0 OBVIOUS
<1> QED BY <1>1 DEF IsFold

\* Of one element more it is one step further.
LEMMA FoldOfOneMore ==
  ASSUME NEW R, NEW s \in Seq(R), NEW r \in R, NEW step, NEW base, NEW one, NEW two,
         IsFold(step, base, s, one), IsFold(step, base, Append(s, r), two)
  PROVE  two = step[r][one]
<1> DEFINE n == Len(s)
           t == Append(s, r)
<1>1. n \in Nat /\ Len(t) = n + 1 /\ t[n + 1] = r /\ \A i \in 1..n : t[i] = s[i] BY LenProperties, AppendProperties
<1> HIDE DEF n, t
<1>2. PICK w : w[0] = base /\ one = w[n] /\ \A k \in 1..n : w[k] = step[s[k]][w[k - 1]] BY DEF IsFold, n
<1>3. PICK v : v[0] = base /\ two = v[n + 1] /\ \A k \in 1..(n + 1) : v[k] = step[t[k]][v[k - 1]]
  <2>1. PICK v : v[0] = base /\ two = v[Len(t)] /\ \A k \in 1..Len(t) : v[k] = step[t[k]][v[k - 1]] BY DEF IsFold, t
  <2> QED BY <1>1, <2>1
<1> DEFINE Good == [k \in 0..n |-> {w[k]}]
<1>4. v[0] \in Good[0] BY <1>1, <1>2, <1>3
<1>5. \A k \in 1..n : v[k - 1] \in Good[k - 1] => v[k] \in Good[k]
  <2> SUFFICES ASSUME NEW k \in 1..n, v[k - 1] \in Good[k - 1] PROVE v[k] \in Good[k] OBVIOUS
  <2>1. k - 1 \in 0..n /\ k \in 0..n /\ k \in 1..(n + 1) BY <1>1
  <2>2. v[k - 1] = w[k - 1] BY <2>1
  <2>3. v[k] = step[s[k]][w[k - 1]] BY <1>1, <1>3, <2>1, <2>2
  <2>4. v[k] = w[k] BY <1>2, <2>3
  <2> QED BY <2>1, <2>4
<1> HIDE DEF Good
<1>6. \A k \in 0..n : v[k] \in Good[k] BY <1>1, <1>4, <1>5, Carried
<1>7. n \in 0..n /\ n + 1 \in 1..(n + 1) /\ (n + 1) - 1 = n BY <1>1
<1>8. v[n] = w[n]
  <2>1. v[n] \in Good[n] BY <1>6, <1>7
  <2> QED BY <1>7, <2>1 DEF Good
<1> QED BY <1>1, <1>2, <1>3, <1>7, <1>8

\* A fold stays where its steps do.
LEMMA FoldWithin ==
  ASSUME NEW R, NEW s \in Seq(R), NEW X, NEW base \in X, NEW step, StepsWithin(step, R, X), NEW value, IsFold(step, base, s, value)
  PROVE  value \in X
<1>1. Len(s) \in Nat /\ \A i \in 1..Len(s) : s[i] \in R BY LenProperties, ElementOfSeq
<1>2. PICK w : w[0] = base /\ value = w[Len(s)] /\ \A k \in 1..Len(s) : w[k] = step[s[k]][w[k - 1]] BY DEF IsFold
<1> DEFINE Good == [k \in 0..Len(s) |-> X]
<1>3. w[0] \in Good[0] BY <1>1, <1>2
<1>4. \A k \in 1..Len(s) : w[k - 1] \in Good[k - 1] => w[k] \in Good[k]
  <2> SUFFICES ASSUME NEW k \in 1..Len(s), w[k - 1] \in Good[k - 1] PROVE w[k] \in Good[k] OBVIOUS
  <2>1. k - 1 \in 0..Len(s) /\ k \in 0..Len(s) BY <1>1
  <2>2. w[k] \in X BY <1>1, <1>2, <2>1 DEF StepsWithin
  <2> QED BY <2>1, <2>2
<1> HIDE DEF Good
<1>5. \A k \in 0..Len(s) : w[k] \in Good[k] BY <1>1, <1>3, <1>4, Carried
<1>6. w[Len(s)] \in X BY <1>1, <1>5 DEF Good
<1> QED BY <1>2, <1>6
-----------------------------------------------------------------------------
(* The rows of some users. *)

RowsStep(R, users) == [r \in R |-> [s \in Seq(R) |-> IF r.user \in users THEN Append(s, r) ELSE s]]

\* The rows of some users are taken up one by one.
LEMMA RowsFold ==
  ASSUME NEW R, NEW rows \in Seq(R), NEW users
  PROVE  IsFold(RowsStep(R, users), <<>>, rows, OfUsers(rows, users))
<1> DEFINE X == Seq(R)
           n == Len(rows)
           step == RowsStep(R, users)
           next(s, r) == IF r.user \in users THEN Append(s, r) ELSE s
           answer(f) == f = [k \in 0..n |-> IF k = 0 THEN <<>> ELSE next(f[k - 1], rows[k])]
           w == CHOOSE f : answer(f)
<1>0. n \in Nat /\ \A i \in 1..n : rows[i] \in R BY LenProperties, ElementOfSeq
<1>1. \A r \in R : \A s \in X : step[r][s] = next(s, r) /\ step[r][s] \in X
  <2> SUFFICES ASSUME NEW r \in R, NEW s \in X PROVE step[r][s] = next(s, r) /\ step[r][s] \in X OBVIOUS
  <2>1. step[r][s] = next(s, r) BY DEF RowsStep
  <2>2. Append(s, r) \in X BY AppendProperties
  <2> QED BY <2>1, <2>2
<1>2. OfUsers(rows, users) = w[n] BY Zenon DEF OfUsers
<1> HIDE DEF step, next, n
<1>3. <<>> \in X OBVIOUS
<1>4. PICK f : f \in [0..n -> X] /\ f[0] = <<>> /\ \A k \in 1..n : f[k] = step[rows[k]][f[k - 1]]
  <2>1. StepsWithin(step, R, X) BY <1>1, Zenon DEF StepsWithin
  <2> HIDE DEF X
  <2>2. \E f : f \in [0..Len(rows) -> X] /\ f[0] = <<>> /\ \A k \in 1..Len(rows) : f[k] = step[rows[k]][f[k - 1]]
    BY <1>3, <2>1, FoldExists
  <2> QED BY <2>2 DEF n
<1>5. \A k \in 1..n : f[k] = next(f[k - 1], rows[k])
  <2> SUFFICES ASSUME NEW k \in 1..n PROVE f[k] = next(f[k - 1], rows[k]) OBVIOUS
  <2>1. k - 1 \in 0..n BY <1>0
  <2>2. f[k - 1] \in X BY <1>4, <2>1
  <2> QED BY <1>0, <1>1, <1>4, <2>2
<1>6. answer(f)
  <2>1. \A i \in 0..n : i = 0 \/ i \in 1..n BY <1>0
  <2> QED BY <1>4, <1>5, <2>1
<1>7. answer(w) BY <1>6, Zenon
<1> HIDE DEF w
<1>8. w[0] = <<>> /\ \A k \in 1..n : w[k] = next(w[k - 1], rows[k])
  <2>1. w[0] = <<>> BY <1>0, <1>7
  <2>2. ASSUME NEW k \in 1..n PROVE w[k] = next(w[k - 1], rows[k])
    <3>1. k \in 0..n /\ k # 0 BY <1>0
    <3> QED BY <1>7, <3>1, Zenon
  <2> QED BY <2>1, <2>2
<1> HIDE DEF answer
<1> DEFINE Good == [k \in 0..n |-> {f[k]}]
<1>9. \A k \in 1..n : w[k - 1] \in Good[k - 1] => w[k] \in Good[k]
  <2> SUFFICES ASSUME NEW k \in 1..n, w[k - 1] \in Good[k - 1] PROVE w[k] \in Good[k] OBVIOUS
  <2>1. k - 1 \in 0..n /\ k \in 0..n BY <1>0
  <2>2. w[k - 1] = f[k - 1] BY <2>1
  <2>3. w[k] = f[k] BY <1>5, <1>8, <2>2
  <2> QED BY <2>1, <2>3
<1>10. w[0] \in Good[0] BY <1>0, <1>4, <1>8
<1> HIDE DEF Good
<1>11. \A k \in 0..n : w[k] \in Good[k] BY <1>0, <1>9, <1>10, Carried
<1>12. w[n] = f[n] BY <1>0, <1>11 DEF Good
<1>13. \E v : v[0] = <<>> /\ w[n] = v[n] /\ \A k \in 1..n : v[k] = step[rows[k]][v[k - 1]] BY <1>4, <1>12
<1> QED BY <1>2, <1>13, Zenon DEF IsFold, n, step

\* What a row adds to the rows of some users.
WithRow(s, r, users) == IF r.user \in users THEN Append(s, r) ELSE s

\* None of no rows; of a row more, that row too if it is of one of them.
LEMMA RowsAre ==
  ASSUME NEW R, NEW users
  PROVE  /\ OfUsers(<<>>, users) = <<>>
         /\ \A s \in Seq(R) : OfUsers(s, users) \in Seq(R)
         /\ \A s \in Seq(R) : \A r \in R : OfUsers(Append(s, r), users) = WithRow(OfUsers(s, users), r, users)
<1> DEFINE step == RowsStep(R, users)
           X == Seq(R)
<1>1. <<>> \in X OBVIOUS
<1>2. \A r \in R : \A s \in X : step[r][s] = WithRow(s, r, users) /\ step[r][s] \in X
  <2> SUFFICES ASSUME NEW r \in R, NEW s \in X PROVE step[r][s] = WithRow(s, r, users) /\ step[r][s] \in X OBVIOUS
  <2>1. step[r][s] = WithRow(s, r, users) BY DEF RowsStep, WithRow
  <2>2. Append(s, r) \in X BY AppendProperties
  <2> QED BY <2>1, <2>2 DEF WithRow
<1>3. \A s \in X : IsFold(step, <<>>, s, OfUsers(s, users)) BY RowsFold
<1>4. OfUsers(<<>>, users) = <<>>
  <2>1. IsFold(step, <<>>, <<>>, OfUsers(<<>>, users)) BY <1>1, <1>3
  <2> HIDE DEF step
  <2> QED BY <2>1, FoldOfNone
<1> HIDE DEF step
<1>5. \A s \in X : OfUsers(s, users) \in X
  <2> SUFFICES ASSUME NEW s \in X PROVE OfUsers(s, users) \in X OBVIOUS
  <2>1. StepsWithin(step, R, X) BY <1>2, Zenon DEF StepsWithin
  <2>2. IsFold(step, <<>>, s, OfUsers(s, users)) BY <1>3
  <2>3. s \in Seq(R) OBVIOUS
  <2> HIDE DEF X
  <2> QED BY <1>1, <2>1, <2>2, <2>3, FoldWithin
<1>6. \A s \in X : \A r \in R : OfUsers(Append(s, r), users) = WithRow(OfUsers(s, users), r, users)
  <2> SUFFICES ASSUME NEW s \in X, NEW r \in R
               PROVE  OfUsers(Append(s, r), users) = WithRow(OfUsers(s, users), r, users)
    OBVIOUS
  <2> DEFINE one == OfUsers(s, users)
             two == OfUsers(Append(s, r), users)
  <2>1. Append(s, r) \in X BY AppendProperties
  <2>2. IsFold(step, <<>>, s, one) /\ IsFold(step, <<>>, Append(s, r), two) BY <1>3, <2>1
  <2>3. one \in X BY <1>5
  <2> HIDE DEF one, two
  <2>4. two = step[r][one] BY <2>2, FoldOfOneMore
  <2>5. two = WithRow(one, r, users) BY <1>2, <2>3, <2>4
  <2> QED BY <2>5 DEF one, two
<1> QED BY <1>4, <1>5, <1>6

\* A row more and a sequence before.
LEMMA JoinedWithOne ==
  ASSUME NEW R, NEW s \in Seq(R), NEW t \in Seq(R), NEW r \in R
  PROVE  s \o Append(t, r) = Append(s \o t, r)
<1> DEFINE one == <<r>>
           b == s \o t
<1>1. one \in Seq(R) OBVIOUS
<1>2. Append(t, r) = t \o one BY AppendIsConcat
<1>3. b \in Seq(R) BY ConcatProperties
<1>4. s \o (t \o one) = (s \o t) \o one
  <2> HIDE DEF one
  <2> QED BY <1>1, ConcatAssociative
<1>5. Append(b, r) = b \o one
  <2> HIDE DEF b
  <2> QED BY <1>3, AppendIsConcat
<1> QED BY <1>2, <1>4, <1>5

\* The rows of some users in two sequences are those in the one and those in the other.
LEMMA RowsJoined ==
  ASSUME NEW R, NEW users, NEW s \in Seq(R), NEW t \in Seq(R)
  PROVE  OfUsers(s \o t, users) = OfUsers(s, users) \o OfUsers(t, users)
<1> DEFINE rows(u) == OfUsers(u, users)
           S == {u \in Seq(R) : rows(s \o u) = rows(s) \o rows(u)}
<1>1. rows(<<>>) = <<>> BY RowsAre
<1>2. rows(s) \in Seq(R) BY RowsAre
<1>3. <<>> \in S
  <2>1. s \o <<>> = s BY ConcatEmptySeq
  <2>2. rows(s) \o <<>> = rows(s)
    <3> DEFINE a == rows(s)
    <3>1. a \in Seq(R) BY <1>2
    <3> HIDE DEF a
    <3>2. a \o <<>> = a BY <3>1, ConcatEmptySeq
    <3> QED BY <3>2 DEF a
  <2>3. rows(s \o <<>>) = rows(s) \o rows(<<>>) BY <1>1, <2>1, <2>2, Zenon
  <2>4. <<>> \in Seq(R) OBVIOUS
  <2> HIDE DEF rows
  <2> QED BY <2>3, <2>4
<1>4. \A u \in Seq(R) : u \in S => \A r \in R : Append(u, r) \in S
  <2> SUFFICES ASSUME NEW u \in Seq(R), u \in S, NEW r \in R PROVE Append(u, r) \in S OBVIOUS
  <2>1. Append(u, r) \in Seq(R) BY AppendProperties
  <2> DEFINE b == s \o u
  <2>2. b \in Seq(R) BY ConcatProperties
  <2>3. s \o Append(u, r) = Append(b, r) BY JoinedWithOne
  <2>4. rows(b) = rows(s) \o rows(u) OBVIOUS
  <2>5. rows(u) \in Seq(R) BY RowsAre
  <2>6. rows(Append(u, r)) = WithRow(rows(u), r, users) BY RowsAre
  <2>7. rows(Append(b, r)) = WithRow(rows(b), r, users)
    <3> HIDE DEF b
    <3> QED BY <2>2, RowsAre
  <2> HIDE DEF rows, b
  <2>8. rows(s) \o WithRow(rows(u), r, users) = WithRow(rows(s) \o rows(u), r, users)
    <3>1. rows(s) \o Append(rows(u), r) = Append(rows(s) \o rows(u), r) BY <1>2, <2>5, JoinedWithOne
    <3> QED BY <3>1 DEF WithRow
  <2>9. rows(s \o Append(u, r)) = rows(s) \o rows(Append(u, r)) BY <2>3, <2>4, <2>6, <2>7, <2>8
  <2> QED BY <2>1, <2>9
<1> HIDE DEF S
<1>5. t \in S BY <1>3, <1>4, AllSequences
<1> QED BY <1>5 DEF S

\* Of the rows of some users those of one of them are all of his, of any other none.
LEMMA RowsOfRows ==
  ASSUME NEW R, NEW users, NEW x, NEW s \in Seq(R)
  PROVE  OfUsers(OfUsers(s, users), {x}) = IF x \in users THEN OfUsers(s, {x}) ELSE <<>>
<1> DEFINE rows(u) == OfUsers(u, users)
           own(u) == OfUsers(u, {x})
           S == {u \in Seq(R) : own(rows(u)) = IF x \in users THEN own(u) ELSE <<>>}
<1>1. rows(<<>>) = <<>> /\ own(<<>>) = <<>> BY RowsAre
<1>2. <<>> \in S BY <1>1
<1>3. \A u \in Seq(R) : u \in S => \A r \in R : Append(u, r) \in S
  <2> SUFFICES ASSUME NEW u \in Seq(R), u \in S, NEW r \in R PROVE Append(u, r) \in S OBVIOUS
  <2>1. Append(u, r) \in Seq(R) BY AppendProperties
  <2>2. rows(u) \in Seq(R) BY RowsAre
  <2>3. rows(Append(u, r)) = WithRow(rows(u), r, users) BY RowsAre
  <2>4. own(Append(u, r)) = WithRow(own(u), r, {x}) BY RowsAre
  <2>5. own(Append(rows(u), r)) = WithRow(own(rows(u)), r, {x})
    <3> HIDE DEF rows
    <3> QED BY <2>2, RowsAre
  <2>6. own(rows(u)) = IF x \in users THEN own(u) ELSE <<>> OBVIOUS
  <2> HIDE DEF own, rows
  <2>7. own(rows(Append(u, r))) = IF x \in users THEN own(Append(u, r)) ELSE <<>>
    <3>1. CASE r.user \in users
      <4>1. own(rows(Append(u, r))) = WithRow(own(rows(u)), r, {x}) BY <2>3, <2>5, <3>1 DEF WithRow
      <4>2. CASE x \in users BY <2>4, <2>6, <4>1, <4>2
      <4>3. CASE x \notin users
        <5>1. r.user \notin {x} BY <3>1, <4>3
        <5> QED BY <2>6, <4>1, <4>3, <5>1 DEF WithRow
      <4> QED BY <4>2, <4>3
    <3>2. CASE r.user \notin users
      <4>1. own(rows(Append(u, r))) = own(rows(u)) BY <2>3, <3>2 DEF WithRow
      <4>2. x \in users => r.user \notin {x} BY <3>2
      <4> QED BY <2>4, <2>6, <4>1, <4>2 DEF WithRow
    <3> QED BY <3>1, <3>2
  <2> QED BY <2>1, <2>7
<1> HIDE DEF S
<1>4. s \in S BY <1>2, <1>3, AllSequences
<1> QED BY <1>4 DEF S

\* What is said of the rows of one user: they are no more than all rows, each is one of
\* them and his, and there are some exactly if one of all the rows is.
OwnRows(rows, x, own) ==
  /\ Len(own) <= Len(rows)
  /\ \A i \in 1..Len(own) : own[i].user = x /\ \E j \in 1..Len(rows) : rows[j] = own[i]
  /\ own # <<>> <=> \E i \in 1..Len(rows) : rows[i].user = x

\* And they are that.
LEMMA RowsAreOwn ==
  ASSUME NEW R, NEW x, NEW s \in Seq(R)
  PROVE  OwnRows(s, x, OfUsers(s, {x}))
<1> DEFINE own(u) == OfUsers(u, {x})
           S == {u \in Seq(R) : OwnRows(u, x, own(u))}
<1>1. <<>> \in S
  <2>1. own(<<>>) = <<>> BY RowsAre
  <2>2. Len(<<>>) = 0 /\ 1..0 = {} OBVIOUS
  <2> HIDE DEF own
  <2> QED BY <2>1, <2>2 DEF OwnRows
<1>2. \A u \in Seq(R) : u \in S => \A r \in R : Append(u, r) \in S
  <2> SUFFICES ASSUME NEW u \in Seq(R), u \in S, NEW r \in R PROVE Append(u, r) \in S OBVIOUS
  <2> DEFINE a == own(u)
             t == Append(u, r)
             b == own(t)
             n == Len(u)
             m == Len(a)
  <2>1. t \in Seq(R) /\ n \in Nat /\ Len(t) = n + 1 /\ t[n + 1] = r /\ \A j \in 1..n : t[j] = u[j]
    BY LenProperties, AppendProperties
  <2>2. a \in Seq(R) BY RowsAre
  <2>3. b = WithRow(a, r, {x}) BY RowsAre
  <2>4. OwnRows(u, x, a) OBVIOUS
  <2> HIDE DEF own, t, n, a, b
  <2>5. /\ m \in Nat /\ Append(a, r) # <<>> /\ Len(Append(a, r)) = m + 1
        /\ Append(a, r)[m + 1] = r /\ \A i \in 1..m : Append(a, r)[i] = a[i]
    BY <2>2, LenProperties, AppendProperties
  <2> HIDE DEF m
  <2>6. /\ m <= n
        /\ \A i \in 1..m : a[i].user = x /\ \E j \in 1..n : u[j] = a[i]
        /\ a # <<>> <=> \E i \in 1..n : u[i].user = x
    BY <2>4 DEF OwnRows, n, m
  <2>7. /\ (\A j \in 1..n : j \in 1..(n + 1)) /\ n + 1 \in 1..(n + 1)
        /\ \A j \in 1..(n + 1) : j \in 1..n \/ j = n + 1
    BY <2>1
  <2>8. \A c : (\E j \in 1..n : u[j] = c) => \E j \in 1..(n + 1) : t[j] = c BY <2>1, <2>7
  <2>9. OwnRows(t, x, b)
    <3>1. CASE r.user = x
      <4>1. b = Append(a, r) BY <2>3, <3>1 DEF WithRow
      <4>2. Len(b) = m + 1 /\ Len(t) = n + 1 BY <2>1, <2>5, <4>1
      <4>3. m + 1 <= n + 1 BY <2>1, <2>5, <2>6
      <4>4. ASSUME NEW i \in 1..(m + 1) PROVE b[i].user = x /\ \E j \in 1..(n + 1) : t[j] = b[i]
        <5>1. CASE i = m + 1 BY <2>1, <2>5, <2>7, <3>1, <4>1, <5>1
        <5>2. CASE i # m + 1
          <6>1. i \in 1..m BY <2>5, <5>2
          <6> QED BY <2>5, <2>6, <2>8, <4>1, <6>1
        <5> QED BY <5>1, <5>2
      <4>5. b # <<>> /\ \E i \in 1..(n + 1) : t[i].user = x BY <2>1, <2>5, <2>7, <3>1, <4>1
      <4> QED BY <4>2, <4>3, <4>4, <4>5, Zenon DEF OwnRows
    <3>2. CASE r.user # x
      <4>1. b = a BY <2>3, <3>2 DEF WithRow
      <4>2. Len(b) = m /\ Len(t) = n + 1 BY <2>1, <4>1 DEF m
      <4>3. m <= n + 1 BY <2>1, <2>5, <2>6
      <4>4. \A i \in 1..m : b[i].user = x /\ \E j \in 1..(n + 1) : t[j] = b[i] BY <2>6, <2>8, <4>1, Zenon
      <4>5. b # <<>> <=> \E i \in 1..(n + 1) : t[i].user = x BY <2>1, <2>6, <2>7, <3>2, <4>1
      <4> QED BY <4>2, <4>3, <4>4, <4>5, Zenon DEF OwnRows
    <3> QED BY <3>1, <3>2
  <2> QED BY <2>1, <2>9 DEF b, t
<1> HIDE DEF S
<1>3. s \in S BY <1>1, <1>2, AllSequences
<1> QED BY <1>3 DEF S
-----------------------------------------------------------------------------
(* The users selected from a scan. *)

WithUser(s, x, maxUsers) == IF Len(s) >= maxUsers \/ x \in ToSet(s) THEN s ELSE Append(s, x)
SelectStep(R, maxUsers) == [x \in R |-> [s \in Seq(R) |-> WithUser(s, x, maxUsers)]]

\* Users are selected one by one.
LEMMA UsersFold ==
  ASSUME NEW R, NEW scan \in Seq(R), NEW maxUsers
  PROVE  IsFold(SelectStep(R, maxUsers), <<>>, scan, selectUsers(scan, maxUsers))
<1> DEFINE X == Seq(R)
           base == <<>>
           n == Len(scan)
           step == SelectStep(R, maxUsers)
           next(s, r) == IF Len(s) >= maxUsers \/ r \in ToSet(s) THEN s ELSE Append(s, r)
           answer(f) == f = [k \in 0..n |-> IF k = 0 THEN base ELSE next(f[k - 1], scan[k])]
           w == CHOOSE f : answer(f)
<1>0. n \in Nat /\ \A i \in 1..n : scan[i] \in R BY LenProperties, ElementOfSeq
<1>1. \A r \in R : \A s \in X : step[r][s] = next(s, r) /\ step[r][s] \in X
  <2> SUFFICES ASSUME NEW r \in R, NEW s \in X PROVE step[r][s] = next(s, r) /\ step[r][s] \in X OBVIOUS
  <2>1. step[r][s] = next(s, r) BY DEF SelectStep, WithUser
  <2>2. Append(s, r) \in X BY AppendProperties
  <2> QED BY <2>1, <2>2
<1>2. selectUsers(scan, maxUsers) = w[n] BY Zenon DEF selectUsers
<1> HIDE DEF step, next, n
<1>3. base \in X OBVIOUS
<1> HIDE DEF base, X
<1>4. PICK f : f \in [0..n -> X] /\ f[0] = base /\ \A k \in 1..n : f[k] = step[scan[k]][f[k - 1]]
  <2>1. StepsWithin(step, R, X) BY <1>1, Zenon DEF StepsWithin
  <2>2. \E f : f \in [0..Len(scan) -> X] /\ f[0] = base /\ \A k \in 1..Len(scan) : f[k] = step[scan[k]][f[k - 1]]
    BY <1>3, <2>1, FoldExists
  <2> QED BY <2>2 DEF n
<1>5. \A k \in 1..n : f[k] = next(f[k - 1], scan[k])
  <2> SUFFICES ASSUME NEW k \in 1..n PROVE f[k] = next(f[k - 1], scan[k]) OBVIOUS
  <2>1. k - 1 \in 0..n BY <1>0
  <2>2. f[k - 1] \in X BY <1>4, <2>1
  <2> QED BY <1>0, <1>1, <1>4, <2>2
<1>6. answer(f)
  <2>1. \A i \in 0..n : i = 0 \/ i \in 1..n BY <1>0
  <2> QED BY <1>4, <1>5, <2>1
<1>7. answer(w) BY <1>6, Zenon
<1> HIDE DEF w
<1>8. w[0] = base /\ \A k \in 1..n : w[k] = next(w[k - 1], scan[k])
  <2>1. w[0] = base BY <1>0, <1>7
  <2>2. ASSUME NEW k \in 1..n PROVE w[k] = next(w[k - 1], scan[k])
    <3>1. k \in 0..n /\ k # 0 BY <1>0
    <3> QED BY <1>7, <3>1, Zenon
  <2> QED BY <2>1, <2>2
<1> HIDE DEF answer
<1> DEFINE Good == [k \in 0..n |-> {f[k]}]
<1>9. \A k \in 1..n : w[k - 1] \in Good[k - 1] => w[k] \in Good[k]
  <2> SUFFICES ASSUME NEW k \in 1..n, w[k - 1] \in Good[k - 1] PROVE w[k] \in Good[k] OBVIOUS
  <2>1. k - 1 \in 0..n /\ k \in 0..n BY <1>0
  <2>2. w[k - 1] = f[k - 1] BY <2>1
  <2>3. w[k] = f[k] BY <1>5, <1>8, <2>2
  <2> QED BY <2>1, <2>3
<1>10. w[0] \in Good[0] BY <1>0, <1>4, <1>8
<1> HIDE DEF Good
<1>11. \A k \in 0..n : w[k] \in Good[k] BY <1>0, <1>9, <1>10, Carried
<1>12. w[n] = f[n] BY <1>0, <1>11 DEF Good
<1>13. \E v : v[0] = base /\ w[n] = v[n] /\ \A k \in 1..n : v[k] = step[scan[k]][v[k - 1]] BY <1>4, <1>12
<1> QED BY <1>2, <1>13, Zenon DEF IsFold, n, step, base

\* None from no scan; one more of it is one more user, if he is new and there is room.
LEMMA UsersAre ==
  ASSUME NEW R, NEW maxUsers
  PROVE  /\ selectUsers(<<>>, maxUsers) = <<>>
         /\ \A s \in Seq(R) : selectUsers(s, maxUsers) \in Seq(R)
         /\ \A s \in Seq(R) : \A x \in R : selectUsers(Append(s, x), maxUsers) = WithUser(selectUsers(s, maxUsers), x, maxUsers)
<1> DEFINE step == SelectStep(R, maxUsers)
           users(s) == selectUsers(s, maxUsers)
           X == Seq(R)
<1>1. <<>> \in X OBVIOUS
<1>2. \A x \in R : \A s \in X : step[x][s] = WithUser(s, x, maxUsers) /\ step[x][s] \in X
  <2> SUFFICES ASSUME NEW x \in R, NEW s \in X PROVE step[x][s] = WithUser(s, x, maxUsers) /\ step[x][s] \in X OBVIOUS
  <2>1. step[x][s] = WithUser(s, x, maxUsers) BY DEF SelectStep
  <2>2. Append(s, x) \in X BY AppendProperties
  <2> QED BY <2>1, <2>2 DEF WithUser
<1>3. \A s \in X : IsFold(step, <<>>, s, users(s)) BY UsersFold
<1>4. users(<<>>) = <<>>
  <2>1. IsFold(step, <<>>, <<>>, users(<<>>)) BY <1>1, <1>3
  <2> HIDE DEF step
  <2> QED BY <2>1, FoldOfNone
<1> HIDE DEF step
<1>5. \A s \in X : users(s) \in X
  <2> SUFFICES ASSUME NEW s \in X PROVE users(s) \in X OBVIOUS
  <2>1. StepsWithin(step, R, X) BY <1>2, Zenon DEF StepsWithin
  <2>2. IsFold(step, <<>>, s, users(s)) BY <1>3
  <2>3. s \in Seq(R) OBVIOUS
  <2> HIDE DEF X
  <2> QED BY <1>1, <2>1, <2>2, <2>3, FoldWithin
<1>6. \A s \in X : \A x \in R : users(Append(s, x)) = WithUser(users(s), x, maxUsers)
  <2> SUFFICES ASSUME NEW s \in X, NEW x \in R PROVE users(Append(s, x)) = WithUser(users(s), x, maxUsers) OBVIOUS
  <2> DEFINE one == users(s)
             two == users(Append(s, x))
  <2>1. Append(s, x) \in X BY AppendProperties
  <2>2. IsFold(step, <<>>, s, one) /\ IsFold(step, <<>>, Append(s, x), two) BY <1>3, <2>1
  <2>3. one \in X BY <1>5
  <2> HIDE DEF one, two
  <2>4. two = step[x][one] BY <2>2, FoldOfOneMore
  <2>5. two = WithUser(one, x, maxUsers) BY <1>2, <2>3, <2>4
  <2> QED BY <2>5 DEF one, two
<1> QED BY <1>4, <1>5, <1>6

\* Those in a sequence, and in one longer.
LEMMA OneMoreIn ==
  ASSUME NEW R, NEW s \in Seq(R), NEW r \in R
  PROVE  ToSet(Append(s, r)) = ToSet(s) \cup {r}
<1> DEFINE t == Append(s, r)
           n == Len(s)
<1>1. DOMAIN s = 1..n /\ n \in Nat BY LenProperties
<1>2. t \in Seq(R) /\ Len(t) = n + 1 /\ t[n + 1] = r /\ \A j \in 1..n : t[j] = s[j] BY AppendProperties
<1> HIDE DEF t, n
<1>3. DOMAIN t = 1..(n + 1) BY <1>2, LenProperties
<1>4. n + 1 \in 1..(n + 1) /\ (\A j \in 1..n : j \in 1..(n + 1)) /\ \A j \in 1..(n + 1) : j \in 1..n \/ j = n + 1 BY <1>1
<1>5. ToSet(t) = {t[j] : j \in 1..(n + 1)} /\ ToSet(s) = {s[j] : j \in 1..n} BY <1>1, <1>3, Zenon DEF ToSet
<1>6. ToSet(t) = ToSet(s) \cup {r} BY <1>2, <1>4, <1>5
<1> QED BY <1>6 DEF t

\* One more of a scan is one more scanned if with it no more than so many are met.
LEMMA OneMoreScanned ==
  ASSUME NEW R, NEW s \in Seq(R), NEW r \in R, NEW first
  PROVE  Scanned(Append(s, r), first) =
           Scanned(s, first) \cup (IF Cardinality(ToSet(Append(s, r))) <= first THEN {r} ELSE {})
<1> DEFINE t == Append(s, r)
           n == Len(s)
           Met(u, i) == {u[j] : j \in 1..i}
<1>1. DOMAIN s = 1..n /\ n \in Nat BY LenProperties
<1>2. t \in Seq(R) /\ Len(t) = n + 1 /\ t[n + 1] = r /\ \A j \in 1..n : t[j] = s[j] BY AppendProperties
<1> HIDE DEF t, n
<1>3. DOMAIN t = 1..(n + 1) BY <1>2, LenProperties
<1>4. n + 1 \in 1..(n + 1) /\ (\A j \in 1..n : j \in 1..(n + 1)) /\ \A j \in 1..(n + 1) : j \in 1..n \/ j = n + 1 BY <1>1
<1>5. ToSet(t) = Met(t, n + 1) BY <1>3, Zenon DEF ToSet
<1>6. \A i \in 1..n : Met(t, i) = Met(s, i)
  <2> SUFFICES ASSUME NEW i \in 1..n PROVE Met(t, i) = Met(s, i) OBVIOUS
  <2>1. \A j \in 1..i : j \in 1..n BY <1>1
  <2> QED BY <1>2, <2>1
<1> HIDE DEF Met
<1>7. Scanned(t, first) = {t[i] : i \in {i \in 1..(n + 1) : Cardinality(Met(t, i)) <= first}}
  BY <1>3, Zenon DEF Scanned, Met
<1>8. Scanned(s, first) = {s[i] : i \in {i \in 1..n : Cardinality(Met(s, i)) <= first}}
  BY <1>1, Zenon DEF Scanned, Met
<1>9. Scanned(t, first) = Scanned(s, first) \cup (IF Cardinality(Met(t, n + 1)) <= first THEN {r} ELSE {})
  <2> DEFINE In(i) == Cardinality(Met(t, i)) <= first
  <2>1. \A i \in 1..n : Cardinality(Met(s, i)) <= first <=> In(i) BY <1>6
  <2> HIDE DEF In
  <2>2. Scanned(s, first) = {s[i] : i \in {i \in 1..n : In(i)}} BY <1>8, <2>1
  <2>3. Scanned(t, first) = {t[i] : i \in {i \in 1..(n + 1) : In(i)}} BY <1>7 DEF In
  <2>4. Scanned(t, first) = Scanned(s, first) \cup (IF In(n + 1) THEN {r} ELSE {}) BY <1>2, <1>4, <2>2, <2>3
  <2> QED BY <2>4 DEF In
<1> QED BY <1>5, <1>9 DEF t

\* Users selected from a scan: those who are scanned, each once, and as long as there is
\* room everybody.
SelectedFrom(scan, maxUsers, users) ==
  /\ ToSet(users) = Scanned(scan, maxUsers) /\ ToSet(users) \subseteq ToSet(scan)
  /\ \A i, j \in 1..Len(users) : users[i] = users[j] => i = j
  /\ IsFiniteSet(ToSet(scan)) /\ Cardinality(ToSet(users)) = Len(users)
  /\ Len(users) < maxUsers => ToSet(users) = ToSet(scan)

\* One more of the scan keeps that so.
LEMMA SelectedStep ==
  ASSUME NEW R, NEW s \in Seq(R), NEW x \in R, NEW maxUsers \in Nat, NEW a \in Seq(R), SelectedFrom(s, maxUsers, a)
  PROVE  SelectedFrom(Append(s, x), maxUsers, WithUser(a, x, maxUsers))
<1> DEFINE t == Append(s, x)
           b == WithUser(a, x, maxUsers)
           S == ToSet(s)
           T == ToSet(t)
           A == ToSet(a)
           m == Len(a)
<1>1. /\ A = Scanned(s, maxUsers) /\ A \subseteq S /\ \A i, j \in 1..m : a[i] = a[j] => i = j
  BY DEF SelectedFrom
<1>2. IsFiniteSet(S) /\ Cardinality(A) = m /\ (m < maxUsers => A = S) BY DEF SelectedFrom
<1>3. T = S \cup {x} BY OneMoreIn
<1>4. Scanned(t, maxUsers) = Scanned(s, maxUsers) \cup (IF Cardinality(T) <= maxUsers THEN {x} ELSE {})
  BY OneMoreScanned
<1>5. b = IF m >= maxUsers \/ x \in A THEN a ELSE Append(a, x) BY DEF WithUser
<1>6. m \in Nat /\ DOMAIN a = 1..m BY LenProperties
<1>7. ToSet(Append(a, x)) = A \cup {x} BY OneMoreIn
<1>8. Append(a, x) \in Seq(R) /\ Len(Append(a, x)) = m + 1 /\ Append(a, x)[m + 1] = x /\ \A i \in 1..m : Append(a, x)[i] = a[i]
  BY AppendProperties
<1>9. \A i \in 1..m : a[i] \in A BY <1>6 DEF ToSet
<1> HIDE DEF t, b, S, T, A, m
<1>10. IsFiniteSet(T) /\ Cardinality(T) \in Nat BY <1>2, <1>3, FS_AddElement, FS_CardinalityType
<1>11. CASE m >= maxUsers
  <2>1. b = a BY <1>5, <1>11
  <2>2. Cardinality(T) <= maxUsers => x \in A
    <3> SUFFICES ASSUME Cardinality(T) <= maxUsers PROVE x \in A OBVIOUS
    <3>1. A \in SUBSET T BY <1>1, <1>3
    <3>2. Cardinality(A) <= Cardinality(T) /\ (Cardinality(T) = Cardinality(A) => T = A) BY <1>10, <3>1, FS_Subset
    <3>3. Cardinality(T) = Cardinality(A) BY <1>2, <1>6, <1>10, <1>11, <3>2
    <3> QED BY <1>3, <3>2, <3>3
  <2>3. Scanned(t, maxUsers) = A BY <1>1, <1>4, <2>2
  <2>4. A \subseteq T BY <1>1, <1>3
  <2>5. ~(m < maxUsers) BY <1>6, <1>11
  <2> QED BY <1>1, <1>2, <1>10, <2>1, <2>3, <2>4, <2>5, Zenon DEF SelectedFrom, b, t, A, T, m
<1>12. CASE m < maxUsers /\ x \in A
  <2>1. b = a BY <1>5, <1>12
  <2>2. Scanned(t, maxUsers) = A /\ T = A BY <1>1, <1>2, <1>3, <1>4, <1>12
  <2> QED BY <1>1, <1>2, <1>10, <2>1, <2>2, Zenon DEF SelectedFrom, b, t, A, T, m
<1>13. CASE m < maxUsers /\ x \notin A
  <2>1. b = Append(a, x) BY <1>5, <1>6, <1>13
  <2>2. A = S BY <1>2, <1>13
  <2>3. Cardinality(T) = m + 1 BY <1>2, <1>3, <1>13, <2>2, FS_AddElement
  <2>4. m + 1 <= maxUsers BY <1>6, <1>13
  <2>5. ToSet(b) = A \cup {x} /\ ToSet(b) = T BY <1>3, <1>7, <2>1, <2>2
  <2>6. Scanned(t, maxUsers) = ToSet(b) BY <1>1, <1>4, <2>3, <2>4, <2>5
  <2>7. Len(b) = m + 1 BY <1>8, <2>1
  <2>8. \A i, j \in 1..(m + 1) : b[i] = b[j] => i = j
    <3> SUFFICES ASSUME NEW i \in 1..(m + 1), NEW j \in 1..(m + 1), b[i] = b[j] PROVE i = j OBVIOUS
    <3>1. \A k \in 1..(m + 1) : k = m + 1 \/ k \in 1..m BY <1>6
    <3>2. b[m + 1] = x /\ \A k \in 1..m : b[k] = a[k] /\ b[k] # x BY <1>8, <1>9, <1>13, <2>1
    <3> QED BY <1>1, <3>1, <3>2
  <2> QED BY <1>10, <2>3, <2>5, <2>6, <2>7, <2>8, Zenon DEF SelectedFrom, b, t, T
<1> QED BY <1>6, <1>11, <1>12, <1>13 DEF t, b

\* Users are selected from a scan rightly: the first so many different ones, each once.
THEOREM UsersSelected ==
  ASSUME NEW R, NEW scan \in Seq(R), NEW maxUsers \in Nat
  PROVE  SelectedFrom(scan, maxUsers, selectUsers(scan, maxUsers))
<1> DEFINE users(s) == selectUsers(s, maxUsers)
           S == {s \in Seq(R) : SelectedFrom(s, maxUsers, users(s))}
<1>1. <<>> \in S
  <2>1. users(<<>>) = <<>> BY UsersAre
  <2> DEFINE none == <<>>
  <2>2. none \in Seq(R) /\ Len(none) = 0 /\ DOMAIN none = {} OBVIOUS
  <2>3. users(none) = none BY <2>1
  <2> HIDE DEF none, users
  <2>4. ToSet(none) = {} BY <2>2 DEF ToSet
  <2>5. Scanned(none, maxUsers) = {} BY <2>2 DEF Scanned
  <2>6. 1..0 = {} /\ IsFiniteSet({}) /\ Cardinality({}) = 0 BY FS_EmptySet
  <2>7. SelectedFrom(none, maxUsers, none) BY <2>2, <2>4, <2>5, <2>6 DEF SelectedFrom
  <2> QED BY <2>2, <2>3, <2>7 DEF none
<1>2. \A s \in Seq(R) : s \in S => \A x \in R : Append(s, x) \in S
  <2> SUFFICES ASSUME NEW s \in Seq(R), s \in S, NEW x \in R PROVE Append(s, x) \in S OBVIOUS
  <2> DEFINE a == users(s)
             t == Append(s, x)
  <2>1. a \in Seq(R) /\ t \in Seq(R) /\ users(t) = WithUser(a, x, maxUsers) BY UsersAre, AppendProperties
  <2>2. SelectedFrom(s, maxUsers, a) OBVIOUS
  <2> HIDE DEF a
  <2>3. SelectedFrom(t, maxUsers, WithUser(a, x, maxUsers)) BY <2>1, <2>2, SelectedStep
  <2> HIDE DEF t, users
  <2> QED BY <2>1, <2>3 DEF t
<1> HIDE DEF S
<1>3. scan \in S BY <1>1, <1>2, AllSequences
<1> QED BY <1>3 DEF S
-----------------------------------------------------------------------------
(* Their rows, batch by batch. *)

\* The batch a place is in.
BatchOfPlace(p) == 1 + (p - 1) \div BatchSize

\* Each user is in exactly one batch, and that one is fetched.
LEMMA BatchesAre ==
  ASSUME NEW R, NEW users \in Seq(R), \A i, j \in 1..Len(users) : users[i] = users[j] => i = j, NEW p \in 1..Len(users)
  PROVE  /\ BatchOfPlace(p) \in 1..Len(users)
         /\ \A i \in 1..Len(users) : users[p] \in BatchOf(users, i) <=> i = BatchOfPlace(p)
<1> DEFINE n == Len(users)
           q == (p - 1) \div BatchSize
<1>1. BatchSize \in Nat /\ BatchSize > 0 BY IndexersAssumption
<1>2. n \in Nat /\ DOMAIN users = 1..n BY LenProperties
<1>3. q \in Nat /\ q * BatchSize <= p - 1 BY <1>1, <1>2, Quotient
<1>4. q <= p - 1
  <2> HIDE DEF q
  <2>1. 1 * q <= BatchSize * q BY <1>1, <1>3, Monotone
  <2>2. BatchSize * q = q * BatchSize /\ 1 * q = q BY <1>1, <1>3
  <2> DEFINE z == q * BatchSize
  <2>3. z \in Int /\ q <= z /\ z <= p - 1 BY <1>1, <1>3, <2>1, <2>2
  <2> HIDE DEF z
  <2> QED BY <1>2, <1>3, <2>3
<1> HIDE DEF q, n
<1>5. BatchOfPlace(p) = 1 + q BY DEF BatchOfPlace, q
<1>6. BatchOfPlace(p) \in 1..n BY <1>2, <1>3, <1>4, <1>5 DEF n
<1>7. ASSUME NEW i \in 1..n PROVE users[p] \in BatchOf(users, i) <=> i = BatchOfPlace(p)
  <2>1. users[p] \in BatchOf(users, i) <=> \E j \in 1..n : (j - 1) \div BatchSize = i - 1 /\ users[j] = users[p]
    BY <1>2 DEF BatchOf
  <2>2. \A j \in 1..n : users[j] = users[p] <=> j = p BY DEF n
  <2>3. users[p] \in BatchOf(users, i) <=> q = i - 1 BY <2>1, <2>2 DEF q, n
  <2> QED BY <1>2, <1>3, <1>5, <2>3
<1> QED BY <1>6, <1>7 DEF n

\* The rows of some users are no more than all.
LEMMA RowsNoMore ==
  ASSUME NEW R, NEW users, NEW s \in Seq(R)
  PROVE  Len(OfUsers(s, users)) <= Len(s)
<1> DEFINE rows(u) == OfUsers(u, users)
           S == {u \in Seq(R) : Len(rows(u)) <= Len(u)}
<1>1. <<>> \in S
  <2>1. rows(<<>>) = <<>> BY RowsAre
  <2>2. Len(<<>>) <= Len(<<>>) OBVIOUS
  <2> HIDE DEF rows
  <2> QED BY <2>1, <2>2
<1>2. \A u \in Seq(R) : u \in S => \A r \in R : Append(u, r) \in S
  <2> SUFFICES ASSUME NEW u \in Seq(R), u \in S, NEW r \in R PROVE Append(u, r) \in S OBVIOUS
  <2> DEFINE a == rows(u)
             t == Append(u, r)
  <2>1. a \in Seq(R) /\ rows(t) = WithRow(a, r, users) BY RowsAre
  <2>2. t \in Seq(R) /\ Len(t) = Len(u) + 1 /\ Len(u) \in Nat BY LenProperties, AppendProperties
  <2>3. Len(a) <= Len(u) OBVIOUS
  <2> HIDE DEF a
  <2>4. Len(Append(a, r)) = Len(a) + 1 /\ Len(a) \in Nat BY <2>1, LenProperties, AppendProperties
  <2>5. Len(WithRow(a, r, users)) <= Len(t) BY <2>2, <2>3, <2>4 DEF WithRow
  <2> HIDE DEF rows, t
  <2>6. Len(rows(t)) <= Len(t) BY <2>1, <2>5
  <2> QED BY <2>2, <2>6 DEF t
<1> HIDE DEF S
<1>3. s \in S BY <1>1, <1>2, AllSequences
<1> QED BY <1>3 DEF S

\* A batch of no more rows than its limit is not cut.
LEMMA NotCut ==
  ASSUME NEW R, NEW users, NEW rows \in Seq(R), Len(rows) <= RowLimit
  PROVE  cut(OfUsers(rows, users)) = OfUsers(rows, users)
<1> DEFINE a == OfUsers(rows, users)
<1>1. a \in Seq(R) BY RowsAre
<1>2. Len(a) <= Len(rows) BY RowsNoMore
<1> HIDE DEF a
<1>3. Len(a) \in Nat /\ Len(rows) \in Nat /\ RowLimit \in Nat BY <1>1, LenProperties, IndexersAssumption
<1>4. ~(Len(a) > RowLimit) BY <1>2, <1>3
<1>5. SubSeq(a, 1, Len(a)) = a BY <1>1, SubSeqFull
<1>6. cut(a) = a BY <1>4, <1>5 DEF cut
<1> QED BY <1>6 DEF a

\* Of what is fetched, a user's rows are all of his if he was selected and none otherwise.
THEOREM FetchedBy ==
  ASSUME NEW R, NEW rows \in Seq(R), Len(rows) <= RowLimit, NEW U, NEW scan \in Seq(U), NEW maxUsers \in Nat, NEW x
  PROVE  LET fetched == fetchCandidateReserves(rows, scan, maxUsers)
         IN /\ fetched \in Seq(R)
            /\ OfUsers(fetched, {x}) = IF x \in Scanned(scan, maxUsers) THEN OfUsers(rows, {x}) ELSE <<>>
<1> DEFINE users == selectUsers(scan, maxUsers)
           n == Len(users)
           batch(i) == cut(OfUsers(rows, BatchOf(users, i)))
           X == Seq(R)
           answer(f) == f = [i \in 0..n |-> IF i = 0 THEN <<>> ELSE f[i - 1] \o batch(i)]
           w == CHOOSE f : answer(f)
           own(s) == OfUsers(s, {x})
           fetched == fetchCandidateReserves(rows, scan, maxUsers)
<1>1. users \in Seq(U) BY UsersAre
<1>2. SelectedFrom(scan, maxUsers, users) BY UsersSelected
<1>3. fetched = w[n] BY Zenon DEF fetchCandidateReserves
<1> HIDE DEF users, fetched
<1>4. n \in Nat /\ DOMAIN users = 1..n BY <1>1, LenProperties
<1>5. \A i : batch(i) \in X /\ own(batch(i)) = IF x \in BatchOf(users, i) THEN own(rows) ELSE <<>>
  <2> SUFFICES ASSUME NEW i PROVE batch(i) \in X /\ own(batch(i)) = IF x \in BatchOf(users, i) THEN own(rows) ELSE <<>>
    OBVIOUS
  <2> DEFINE B == BatchOf(users, i)
             b == OfUsers(rows, B)
  <2>1. batch(i) = b
    <3> HIDE DEF B
    <3>1. cut(OfUsers(rows, B)) = OfUsers(rows, B) BY NotCut
    <3> QED BY <3>1 DEF B
  <2>2. b \in X
    <3> HIDE DEF B
    <3> QED BY RowsAre
  <2>3. own(b) = IF x \in B THEN own(rows) ELSE <<>>
    <3> HIDE DEF B
    <3> QED BY RowsOfRows
  <2> QED BY <2>1, <2>2, <2>3
<1> HIDE DEF batch, n
<1> DEFINE step == [i \in 1..n |-> [s \in X |-> s \o batch(i)]]
<1>6. \A i \in 1..n : \A s \in X : step[i][s] = s \o batch(i) /\ step[i][s] \in X
  <2> SUFFICES ASSUME NEW i \in 1..n, NEW s \in X PROVE step[i][s] = s \o batch(i) /\ step[i][s] \in X OBVIOUS
  <2> DEFINE b == batch(i)
  <2>1. step[i][s] = s \o b OBVIOUS
  <2>2. b \in X BY <1>5
  <2> HIDE DEF b
  <2>3. s \o b \in X BY <2>2, ConcatProperties
  <2> HIDE DEF step
  <2> QED BY <2>1, <2>3 DEF b
<1> HIDE DEF step
<1> DEFINE none == <<>>
<1>7. none \in X OBVIOUS
<1> HIDE DEF X, none
<1>8. PICK f : History(f, X, none, n, step) BY <1>4, <1>6, <1>7, Iterated DEF Steps
<1>9. f \in [0..n -> X] /\ f[0] = none /\ \A i \in 1..n : f[i] = step[i][f[i - 1]] BY <1>8 DEF History
<1>10. answer(f)
  <2>1. \A i \in 1..n : f[i] = f[i - 1] \o batch(i)
    <3> SUFFICES ASSUME NEW i \in 1..n PROVE f[i] = f[i - 1] \o batch(i) OBVIOUS
    <3>1. i - 1 \in 0..n BY <1>4
    <3>2. f[i - 1] \in X BY <1>9, <3>1
    <3> QED BY <1>6, <1>9, <3>2
  <2>2. \A i \in 0..n : i = 0 \/ i \in 1..n BY <1>4
  <2> QED BY <1>9, <2>1, <2>2 DEF none
<1>11. answer(w) BY <1>10, Zenon
<1> HIDE DEF w
<1>12. w[0] = none /\ \A k \in 1..n : w[k] = w[k - 1] \o batch(k)
  <2>1. w[0] = none BY <1>4, <1>11 DEF none
  <2>2. ASSUME NEW k \in 1..n PROVE w[k] = w[k - 1] \o batch(k)
    <3>1. k \in 0..n /\ k # 0 BY <1>4
    <3> QED BY <1>11, <3>1, Zenon
  <2> QED BY <2>1, <2>2
<1> HIDE DEF answer, own
<1> DEFINE Had(k) == IF \E i \in 1..k : x \in BatchOf(users, i) THEN own(rows) ELSE none
           Good == [k \in 0..n |-> {s \in X : own(s) = Had(k)}]
<1>13. \A k \in 1..n : \A i, j \in 1..k : x \in BatchOf(users, i) /\ x \in BatchOf(users, j) => i = j
  <2> SUFFICES ASSUME NEW i \in 1..n, NEW j \in 1..n, x \in BatchOf(users, i), x \in BatchOf(users, j) PROVE i = j
    <3>1. \A k \in 1..n : \A i \in 1..k : i \in 1..n BY <1>4
    <3> QED BY <3>1
  <2>1. PICK p \in 1..n : users[p] = x BY <1>4 DEF BatchOf
  <2>2. \A a, b \in 1..n : users[a] = users[b] => a = b BY <1>2 DEF SelectedFrom, n
  <2>3. \A a \in 1..n : users[p] \in BatchOf(users, a) <=> a = BatchOfPlace(p) BY <1>1, <2>2, BatchesAre DEF n
  <2> QED BY <2>1, <2>3
<1>14. w[0] \in Good[0]
  <2>1. 1..0 = {} OBVIOUS
  <2>2. own(none) = none BY RowsAre DEF own, none
  <2>3. Had(0) = none BY <2>1
  <2> QED BY <1>4, <1>7, <1>12, <2>2, <2>3
<1>15. \A k \in 1..n : w[k - 1] \in Good[k - 1] => w[k] \in Good[k]
  <2> SUFFICES ASSUME NEW k \in 1..n, w[k - 1] \in Good[k - 1] PROVE w[k] \in Good[k] OBVIOUS
  <2> DEFINE a == w[k - 1]
             b == batch(k)
  <2>1. k - 1 \in 0..n /\ k \in 0..n BY <1>4
  <2>2. a \in X /\ own(a) = Had(k - 1) BY <2>1
  <2>3. b \in X /\ own(b) = IF x \in BatchOf(users, k) THEN own(rows) ELSE none BY <1>5 DEF own, none
  <2>4. w[k] = a \o b BY <1>12
  <2> HIDE DEF a, b
  <2>5. a \o b \in X /\ own(a \o b) = own(a) \o own(b)
    <3>1. a \in Seq(R) /\ b \in Seq(R) BY <2>2, <2>3 DEF X
    <3>2. a \o b \in Seq(R) BY <3>1, ConcatProperties
    <3>3. OfUsers(a \o b, {x}) = OfUsers(a, {x}) \o OfUsers(b, {x}) BY <3>1, RowsJoined
    <3> QED BY <3>2, <3>3 DEF X, own
  <2>6. own(rows) \in X BY RowsAre DEF own, X
  <2>7. \A s \in X : s \o none = s /\ none \o s = s BY ConcatEmptySeq DEF X, none
  <2>8. own(a) \o own(b) = Had(k)
    <3>1. \A i \in 1..k : i = k \/ i \in 1..(k - 1) BY <1>4
    <3>2. \A i \in 1..(k - 1) : i \in 1..k /\ i # k BY <1>4
    <3>3. k \in 1..k BY <1>4
    <3>4. CASE x \in BatchOf(users, k)
      <4>1. ~\E i \in 1..(k - 1) : x \in BatchOf(users, i) BY <1>13, <3>2, <3>3, <3>4
      <4>2. own(a) = none /\ own(b) = own(rows) BY <2>2, <2>3, <3>4, <4>1
      <4>3. Had(k) = own(rows) BY <3>3, <3>4
      <4> HIDE DEF Had
      <4> QED BY <2>6, <2>7, <4>2, <4>3
    <3>5. CASE x \notin BatchOf(users, k)
      <4>1. Had(k) = Had(k - 1) BY <3>1, <3>2, <3>5
      <4>2. own(b) = none BY <2>3, <3>5
      <4>3. own(a) \in X BY <1>7, <2>2, <2>6
      <4> HIDE DEF Had
      <4> QED BY <2>2, <2>7, <4>1, <4>2, <4>3
    <3> QED BY <3>4, <3>5
  <2> QED BY <2>1, <2>4, <2>5, <2>8
<1> HIDE DEF Good
<1>16. \A k \in 0..n : w[k] \in Good[k] BY <1>4, <1>14, <1>15, Carried
<1>17. w[n] \in X /\ own(w[n]) = Had(n) BY <1>4, <1>16 DEF Good
<1>18. (\E i \in 1..n : x \in BatchOf(users, i)) <=> x \in Scanned(scan, maxUsers)
  <2>1. ToSet(users) = Scanned(scan, maxUsers) BY <1>2 DEF SelectedFrom
  <2>2. ASSUME NEW i \in 1..n, x \in BatchOf(users, i) PROVE x \in ToSet(users)
    BY <2>2 DEF BatchOf, ToSet
  <2>3. ASSUME x \in ToSet(users) PROVE \E i \in 1..n : x \in BatchOf(users, i)
    <3>1. PICK p \in 1..n : users[p] = x BY <1>4, <2>3 DEF ToSet
    <3>2. \A a, b \in 1..n : users[a] = users[b] => a = b BY <1>2 DEF SelectedFrom, n
    <3>3. BatchOfPlace(p) \in 1..n /\ \A a \in 1..n : users[p] \in BatchOf(users, a) <=> a = BatchOfPlace(p)
      BY <1>1, <3>2, BatchesAre DEF n
    <3> QED BY <3>1, <3>3
  <2> QED BY <2>1, <2>2, <2>3
<1>19. fetched \in X /\ own(fetched) = IF x \in Scanned(scan, maxUsers) THEN own(rows) ELSE none
  BY <1>3, <1>17, <1>18
<1> QED BY <1>19 DEF fetched, X, own, none
-----------------------------------------------------------------------------
(* What rows owe and hold. *)

\* Rows as the subgraph brings them.
AreRows(R) ==
  \A r \in R : /\ r.debt \in Nat /\ r.collateral \in Nat /\ r.threshold \in Nat /\ r.price \in Nat
               /\ r.asCollateral \in BOOLEAN /\ r.hf \in Nat \cup {NoHf}

\* Prices they may have.
PricesFor(R, answers, missing) == \A r \in R : PriceOr(answers, r, missing) \in Nat

OwedStep(R, answers, missing) == [r \in R |-> [t \in Nat |-> t + r.debt * PriceOr(answers, r, missing)]]
HeldStep(R, answers, missing) == [r \in R |-> [t \in Nat |-> t + Counted(answers, r, missing)]]

\* What a row adds to what is held is no less than nothing.
LEMMA CountedIs ==
  ASSUME NEW R, AreRows(R), NEW answers, NEW missing, PricesFor(R, answers, missing), NEW r \in R
  PROVE  Counted(answers, r, missing) \in Nat /\ r.debt * PriceOr(answers, r, missing) \in Nat
<1> DEFINE p == PriceOr(answers, r, missing)
           x == r.collateral * p
           y == x * r.threshold
<1>1. p \in Nat /\ r.debt \in Nat /\ r.collateral \in Nat /\ r.threshold \in Nat BY DEF AreRows, PricesFor
<1>2. Counted(answers, r, missing) = IF r.asCollateral THEN y \div 10000 ELSE 0 BY SMT DEF Counted
<1> HIDE DEF p
<1>3. x \in Nat BY <1>1
<1> HIDE DEF x
<1>4. y \in Nat BY <1>1, <1>3
<1> HIDE DEF y
<1>5. y \div 10000 \in Nat BY <1>4, SMT
<1>6. r.debt * p \in Nat BY <1>1
<1> QED BY <1>2, <1>5, <1>6, SMT DEF p

\* What is owed is added up row by row.
LEMMA OwedFold ==
  ASSUME NEW R, NEW rows \in Seq(R), AreRows(R), NEW answers, NEW missing, PricesFor(R, answers, missing)
  PROVE  IsFold(OwedStep(R, answers, missing), 0, rows, OwedIn(rows, answers, missing))
<1> DEFINE X == Nat
           base == 0
           n == Len(rows)
           step == OwedStep(R, answers, missing)
           next(s, r) == s + r.debt * PriceOr(answers, r, missing)
           answer(f) == f = [k \in 0..n |-> IF k = 0 THEN base ELSE next(f[k - 1], rows[k])]
           w == CHOOSE f : answer(f)
<1>0. n \in Nat /\ \A i \in 1..n : rows[i] \in R BY LenProperties, ElementOfSeq
<1>1. \A r \in R : \A s \in X : step[r][s] = next(s, r) /\ step[r][s] \in X
  <2> SUFFICES ASSUME NEW r \in R, NEW s \in X PROVE step[r][s] = next(s, r) /\ step[r][s] \in X OBVIOUS
  <2>1. step[r][s] = next(s, r) BY DEF OwedStep
  <2> DEFINE more == r.debt * PriceOr(answers, r, missing)
  <2>2. more \in Nat BY CountedIs
  <2> HIDE DEF more
  <2>3. s + more \in X BY <2>2
  <2> QED BY <2>1, <2>3 DEF more
<1>2. OwedIn(rows, answers, missing) = w[n] BY Zenon DEF OwedIn
<1> HIDE DEF step, next, n
<1>3. base \in X OBVIOUS
<1> HIDE DEF base, X
<1>4. PICK f : f \in [0..n -> X] /\ f[0] = base /\ \A k \in 1..n : f[k] = step[rows[k]][f[k - 1]]
  <2>1. StepsWithin(step, R, X) BY <1>1, Zenon DEF StepsWithin
  <2>2. \E f : f \in [0..Len(rows) -> X] /\ f[0] = base /\ \A k \in 1..Len(rows) : f[k] = step[rows[k]][f[k - 1]]
    BY <1>3, <2>1, FoldExists
  <2> QED BY <2>2 DEF n
<1>5. \A k \in 1..n : f[k] = next(f[k - 1], rows[k])
  <2> SUFFICES ASSUME NEW k \in 1..n PROVE f[k] = next(f[k - 1], rows[k]) OBVIOUS
  <2>1. k - 1 \in 0..n BY <1>0
  <2>2. f[k - 1] \in X BY <1>4, <2>1
  <2> QED BY <1>0, <1>1, <1>4, <2>2
<1>6. answer(f)
  <2>1. \A i \in 0..n : i = 0 \/ i \in 1..n BY <1>0
  <2> QED BY <1>4, <1>5, <2>1
<1>7. answer(w) BY <1>6, Zenon
<1> HIDE DEF w
<1>8. w[0] = base /\ \A k \in 1..n : w[k] = next(w[k - 1], rows[k])
  <2>1. w[0] = base BY <1>0, <1>7
  <2>2. ASSUME NEW k \in 1..n PROVE w[k] = next(w[k - 1], rows[k])
    <3>1. k \in 0..n /\ k # 0 BY <1>0
    <3> QED BY <1>7, <3>1, Zenon
  <2> QED BY <2>1, <2>2
<1> HIDE DEF answer
<1> DEFINE Good == [k \in 0..n |-> {f[k]}]
<1>9. \A k \in 1..n : w[k - 1] \in Good[k - 1] => w[k] \in Good[k]
  <2> SUFFICES ASSUME NEW k \in 1..n, w[k - 1] \in Good[k - 1] PROVE w[k] \in Good[k] OBVIOUS
  <2>1. k - 1 \in 0..n /\ k \in 0..n BY <1>0
  <2>2. w[k - 1] = f[k - 1] BY <2>1
  <2>3. w[k] = f[k] BY <1>5, <1>8, <2>2
  <2> QED BY <2>1, <2>3
<1>10. w[0] \in Good[0] BY <1>0, <1>4, <1>8
<1> HIDE DEF Good
<1>11. \A k \in 0..n : w[k] \in Good[k] BY <1>0, <1>9, <1>10, Carried
<1>12. w[n] = f[n] BY <1>0, <1>11 DEF Good
<1>13. \E v : v[0] = base /\ w[n] = v[n] /\ \A k \in 1..n : v[k] = step[rows[k]][v[k - 1]] BY <1>4, <1>12
<1> QED BY <1>2, <1>13, Zenon DEF IsFold, n, step, base

\* What is held is added up row by row.
LEMMA HeldFold ==
  ASSUME NEW R, NEW rows \in Seq(R), AreRows(R), NEW answers, NEW missing, PricesFor(R, answers, missing)
  PROVE  IsFold(HeldStep(R, answers, missing), 0, rows, HeldIn(rows, answers, missing))
<1> DEFINE X == Nat
           base == 0
           n == Len(rows)
           step == HeldStep(R, answers, missing)
           next(s, r) == s + Counted(answers, r, missing)
           answer(f) == f = [k \in 0..n |-> IF k = 0 THEN base ELSE next(f[k - 1], rows[k])]
           w == CHOOSE f : answer(f)
<1>0. n \in Nat /\ \A i \in 1..n : rows[i] \in R BY LenProperties, ElementOfSeq
<1>1. \A r \in R : \A s \in X : step[r][s] = next(s, r) /\ step[r][s] \in X
  <2> SUFFICES ASSUME NEW r \in R, NEW s \in X PROVE step[r][s] = next(s, r) /\ step[r][s] \in X OBVIOUS
  <2>1. step[r][s] = next(s, r) BY DEF HeldStep
  <2> DEFINE more == Counted(answers, r, missing)
  <2>2. more \in Nat BY CountedIs
  <2> HIDE DEF more
  <2>3. s + more \in X BY <2>2
  <2> QED BY <2>1, <2>3 DEF more
<1>2. HeldIn(rows, answers, missing) = w[n] BY Zenon DEF HeldIn
<1> HIDE DEF step, next, n
<1>3. base \in X OBVIOUS
<1> HIDE DEF base, X
<1>4. PICK f : f \in [0..n -> X] /\ f[0] = base /\ \A k \in 1..n : f[k] = step[rows[k]][f[k - 1]]
  <2>1. StepsWithin(step, R, X) BY <1>1, Zenon DEF StepsWithin
  <2>2. \E f : f \in [0..Len(rows) -> X] /\ f[0] = base /\ \A k \in 1..Len(rows) : f[k] = step[rows[k]][f[k - 1]]
    BY <1>3, <2>1, FoldExists
  <2> QED BY <2>2 DEF n
<1>5. \A k \in 1..n : f[k] = next(f[k - 1], rows[k])
  <2> SUFFICES ASSUME NEW k \in 1..n PROVE f[k] = next(f[k - 1], rows[k]) OBVIOUS
  <2>1. k - 1 \in 0..n BY <1>0
  <2>2. f[k - 1] \in X BY <1>4, <2>1
  <2> QED BY <1>0, <1>1, <1>4, <2>2
<1>6. answer(f)
  <2>1. \A i \in 0..n : i = 0 \/ i \in 1..n BY <1>0
  <2> QED BY <1>4, <1>5, <2>1
<1>7. answer(w) BY <1>6, Zenon
<1> HIDE DEF w
<1>8. w[0] = base /\ \A k \in 1..n : w[k] = next(w[k - 1], rows[k])
  <2>1. w[0] = base BY <1>0, <1>7
  <2>2. ASSUME NEW k \in 1..n PROVE w[k] = next(w[k - 1], rows[k])
    <3>1. k \in 0..n /\ k # 0 BY <1>0
    <3> QED BY <1>7, <3>1, Zenon
  <2> QED BY <2>1, <2>2
<1> HIDE DEF answer
<1> DEFINE Good == [k \in 0..n |-> {f[k]}]
<1>9. \A k \in 1..n : w[k - 1] \in Good[k - 1] => w[k] \in Good[k]
  <2> SUFFICES ASSUME NEW k \in 1..n, w[k - 1] \in Good[k - 1] PROVE w[k] \in Good[k] OBVIOUS
  <2>1. k - 1 \in 0..n /\ k \in 0..n BY <1>0
  <2>2. w[k - 1] = f[k - 1] BY <2>1
  <2>3. w[k] = f[k] BY <1>5, <1>8, <2>2
  <2> QED BY <2>1, <2>3
<1>10. w[0] \in Good[0] BY <1>0, <1>4, <1>8
<1> HIDE DEF Good
<1>11. \A k \in 0..n : w[k] \in Good[k] BY <1>0, <1>9, <1>10, Carried
<1>12. w[n] = f[n] BY <1>0, <1>11 DEF Good
<1>13. \E v : v[0] = base /\ w[n] = v[n] /\ \A k \in 1..n : v[k] = step[rows[k]][v[k - 1]] BY <1>4, <1>12
<1> QED BY <1>2, <1>13, Zenon DEF IsFold, n, step, base

\* None is owed by no rows, and a row more adds what it owes.
LEMMA OwedAre ==
  ASSUME NEW R, AreRows(R), NEW answers, NEW missing, PricesFor(R, answers, missing)
  PROVE  /\ OwedIn(<<>>, answers, missing) = 0
         /\ \A s \in Seq(R) : OwedIn(s, answers, missing) \in Nat
         /\ \A s \in Seq(R) : \A r \in R :
              OwedIn(Append(s, r), answers, missing) = OwedIn(s, answers, missing) + r.debt * PriceOr(answers, r, missing)
<1> DEFINE step == OwedStep(R, answers, missing)
           X == Nat
           total(s) == OwedIn(s, answers, missing)
           more(r) == r.debt * PriceOr(answers, r, missing)
           none == <<>>
<1>1. none \in Seq(R) OBVIOUS
<1>2. \A r \in R : \A t \in X : step[r][t] = t + more(r) /\ step[r][t] \in X
  <2> SUFFICES ASSUME NEW r \in R, NEW t \in X PROVE step[r][t] = t + more(r) /\ step[r][t] \in X OBVIOUS
  <2>1. step[r][t] = t + more(r) BY DEF OwedStep
  <2>2. more(r) \in Nat BY CountedIs
  <2> HIDE DEF more, step
  <2>3. t + more(r) \in X BY <2>2
  <2> QED BY <2>1, <2>3
<1>3. \A s \in Seq(R) : IsFold(step, 0, s, total(s)) BY OwedFold
<1> HIDE DEF step
<1>4. total(none) = 0
  <2>1. IsFold(step, 0, <<>>, total(none)) BY <1>1, <1>3
  <2> HIDE DEF total
  <2> QED BY <2>1, FoldOfNone
<1>5. \A s \in Seq(R) : total(s) \in X
  <2> SUFFICES ASSUME NEW s \in Seq(R) PROVE total(s) \in X OBVIOUS
  <2>1. StepsWithin(step, R, X) BY <1>2, Zenon DEF StepsWithin
  <2>2. IsFold(step, 0, s, total(s)) BY <1>3
  <2>3. 0 \in X OBVIOUS
  <2> HIDE DEF X, total
  <2> QED BY <2>1, <2>2, <2>3, FoldWithin
<1>6. \A s \in Seq(R) : \A r \in R : total(Append(s, r)) = total(s) + more(r)
  <2> SUFFICES ASSUME NEW s \in Seq(R), NEW r \in R PROVE total(Append(s, r)) = total(s) + more(r) OBVIOUS
  <2> DEFINE one == total(s)
             two == total(Append(s, r))
  <2>1. Append(s, r) \in Seq(R) BY AppendProperties
  <2>2. IsFold(step, 0, s, one) /\ IsFold(step, 0, Append(s, r), two) BY <1>3, <2>1
  <2>3. one \in X BY <1>5
  <2> HIDE DEF one, two, more
  <2>4. two = step[r][one] BY <2>2, FoldOfOneMore
  <2>5. two = one + more(r) BY <1>2, <2>3, <2>4
  <2> QED BY <2>5 DEF one, two
<1> QED BY <1>4, <1>5, <1>6 DEF none

\* Nothing is held by no rows, and a row more adds what of it counts.
LEMMA HeldAre ==
  ASSUME NEW R, AreRows(R), NEW answers, NEW missing, PricesFor(R, answers, missing)
  PROVE  /\ HeldIn(<<>>, answers, missing) = 0
         /\ \A s \in Seq(R) : HeldIn(s, answers, missing) \in Nat
         /\ \A s \in Seq(R) : \A r \in R :
              HeldIn(Append(s, r), answers, missing) = HeldIn(s, answers, missing) + Counted(answers, r, missing)
<1> DEFINE step == HeldStep(R, answers, missing)
           X == Nat
           total(s) == HeldIn(s, answers, missing)
           more(r) == Counted(answers, r, missing)
           none == <<>>
<1>1. none \in Seq(R) OBVIOUS
<1>2. \A r \in R : \A t \in X : step[r][t] = t + more(r) /\ step[r][t] \in X
  <2> SUFFICES ASSUME NEW r \in R, NEW t \in X PROVE step[r][t] = t + more(r) /\ step[r][t] \in X OBVIOUS
  <2>1. step[r][t] = t + more(r) BY DEF HeldStep
  <2>2. more(r) \in Nat BY CountedIs
  <2> HIDE DEF more, step
  <2>3. t + more(r) \in X BY <2>2
  <2> QED BY <2>1, <2>3
<1>3. \A s \in Seq(R) : IsFold(step, 0, s, total(s)) BY HeldFold
<1> HIDE DEF step
<1>4. total(none) = 0
  <2>1. IsFold(step, 0, <<>>, total(none)) BY <1>1, <1>3
  <2> HIDE DEF total
  <2> QED BY <2>1, FoldOfNone
<1>5. \A s \in Seq(R) : total(s) \in X
  <2> SUFFICES ASSUME NEW s \in Seq(R) PROVE total(s) \in X OBVIOUS
  <2>1. StepsWithin(step, R, X) BY <1>2, Zenon DEF StepsWithin
  <2>2. IsFold(step, 0, s, total(s)) BY <1>3
  <2>3. 0 \in X OBVIOUS
  <2> HIDE DEF X, total
  <2> QED BY <2>1, <2>2, <2>3, FoldWithin
<1>6. \A s \in Seq(R) : \A r \in R : total(Append(s, r)) = total(s) + more(r)
  <2> SUFFICES ASSUME NEW s \in Seq(R), NEW r \in R PROVE total(Append(s, r)) = total(s) + more(r) OBVIOUS
  <2> DEFINE one == total(s)
             two == total(Append(s, r))
  <2>1. Append(s, r) \in Seq(R) BY AppendProperties
  <2>2. IsFold(step, 0, s, one) /\ IsFold(step, 0, Append(s, r), two) BY <1>3, <2>1
  <2>3. one \in X BY <1>5
  <2> HIDE DEF one, two, more
  <2>4. two = step[r][one] BY <2>2, FoldOfOneMore
  <2>5. two = one + more(r) BY <1>2, <2>3, <2>4
  <2> QED BY <2>5 DEF one, two
<1> QED BY <1>4, <1>5, <1>6 DEF none

\* A row that counts as collateral.
Uses(r) == r.asCollateral /\ r.collateral > 0

\* A price that is known is the price, and one that is not is at least nothing.
LEMMA PriceKnown ==
  ASSUME NEW answers, NEW p \in Nat, NEW r, r.price \in Nat, PriceOr(answers, r, 0) \in Nat, PriceOr(answers, r, p) \in Nat
  PROVE  /\ PriceOr(answers, r, 0) <= PriceOr(answers, r, p)
         /\ PriceOr(answers, r, 0) # 0 => PriceOr(answers, r, p) = PriceOr(answers, r, 0)
<1> DEFINE asked == r.asset \in DOMAIN answers /\ Ether \in DOMAIN answers
           answer == (answers[r.asset] * Scale) \div answers[Ether]
           price(missing) == IF r.price > 0 THEN r.price ELSE IF asked THEN answer ELSE missing
<1>1. \A missing : PriceOr(answers, r, missing) = price(missing) BY Zenon DEF PriceOr
<1>2. price(0) \in Nat /\ price(p) \in Nat BY <1>1
<1> HIDE DEF asked, answer
<1>3. price(0) <= price(p) /\ (price(0) # 0 => price(p) = price(0)) BY <1>2
<1> HIDE DEF price
<1> QED BY <1>1, <1>3

\* So it is with what counts.
LEMMA CountedKnown ==
  ASSUME NEW R, AreRows(R), NEW answers, NEW p \in Nat, PricesFor(R, answers, 0), PricesFor(R, answers, p), NEW r \in R
  PROVE  /\ Counted(answers, r, 0) <= Counted(answers, r, p)
         /\ PriceOr(answers, r, 0) # 0 \/ ~Uses(r) => Counted(answers, r, p) = Counted(answers, r, 0)
<1> DEFINE a == PriceOr(answers, r, 0)
           b == PriceOr(answers, r, p)
           x(price) == r.collateral * price
           y(price) == x(price) * r.threshold
<1>1. a \in Nat /\ b \in Nat /\ r.collateral \in Nat /\ r.threshold \in Nat /\ r.price \in Nat /\ r.asCollateral \in BOOLEAN
  BY DEF AreRows, PricesFor
<1>2. a <= b /\ (a # 0 => b = a) BY <1>1, PriceKnown
<1>3. /\ Counted(answers, r, 0) = IF r.asCollateral THEN y(a) \div 10000 ELSE 0
      /\ Counted(answers, r, p) = IF r.asCollateral THEN y(b) \div 10000 ELSE 0
  BY SMT DEF Counted
<1> HIDE DEF a, b
<1>4. x(a) \in Nat /\ x(b) \in Nat /\ x(a) <= x(b)
  <2>1. a * r.collateral <= b * r.collateral BY <1>1, <1>2, Monotone
  <2>2. a * r.collateral = x(a) /\ b * r.collateral = x(b) BY <1>1
  <2>3. \A u, v \in Nat : u * v \in Nat OBVIOUS
  <2> QED BY <1>1, <2>1, <2>2, <2>3
<1>5. r.collateral = 0 => x(a) = 0 /\ x(b) = 0 BY <1>1
<1> DEFINE u == x(a)
           v == x(b)
<1>6. u \in Nat /\ v \in Nat /\ u <= v BY <1>4
<1>7. y(a) = u * r.threshold /\ y(b) = v * r.threshold OBVIOUS
<1>8. a # 0 \/ r.collateral = 0 => u = v BY <1>2, <1>5
<1> HIDE DEF u, v, x, y
<1>9. u * r.threshold <= v * r.threshold BY <1>1, <1>6, Monotone
<1>10. \A c, d \in Nat : c * d \in Nat OBVIOUS
<1>11. y(a) \in Nat /\ y(b) \in Nat /\ y(a) <= y(b) BY <1>1, <1>6, <1>7, <1>9, <1>10
<1>12. y(a) \div 10000 <= y(b) \div 10000 BY <1>11, SMT
<1>13. a # 0 \/ r.collateral = 0 => y(a) = y(b) BY <1>7, <1>8
<1>14. Counted(answers, r, 0) <= Counted(answers, r, p) BY <1>3, <1>12, SMT
<1>15. ASSUME a # 0 \/ ~Uses(r) PROVE Counted(answers, r, p) = Counted(answers, r, 0)
  <2>1. a # 0 \/ r.collateral = 0 \/ ~r.asCollateral BY <1>1, <1>15 DEF Uses
  <2> QED BY <1>3, <1>13, <2>1, SMT
<1> QED BY <1>14, <1>15 DEF a

\* Rows valued once at nothing and once at p where their prices are not known.
ValuedAt(s, answers, p) ==
  /\ HeldIn(s, answers, 0) <= HeldIn(s, answers, p)
  /\ (\A i \in 1..Len(s) : PriceOr(answers, s[i], 0) # 0 \/ ~Uses(s[i])) => HeldIn(s, answers, p) = HeldIn(s, answers, 0)
  /\ (\A i \in 1..Len(s) : PriceOr(answers, s[i], 0) # 0 \/ s[i].debt = 0) => OwedIn(s, answers, p) = OwedIn(s, answers, 0)

\* What is not known adds to what is held, and where all that is held, or owed, is known
\* nothing changes.
LEMMA RowsValued ==
  ASSUME NEW R, AreRows(R), NEW answers, NEW p \in Nat, PricesFor(R, answers, 0), PricesFor(R, answers, p), NEW s \in Seq(R)
  PROVE  ValuedAt(s, answers, p)
<1> DEFINE S == {u \in Seq(R) : ValuedAt(u, answers, p)}
           held(u, q) == HeldIn(u, answers, q)
           owed(u, q) == OwedIn(u, answers, q)
<1>1. <<>> \in S
  <2> DEFINE none == <<>>
  <2>1. none \in Seq(R) OBVIOUS
  <2>2. held(none, 0) = 0 /\ held(none, p) = 0 BY HeldAre
  <2>3. owed(none, 0) = 0 /\ owed(none, p) = 0 BY OwedAre
  <2> HIDE DEF none
  <2>4. ValuedAt(none, answers, p) BY <2>2, <2>3 DEF ValuedAt
  <2> QED BY <2>1, <2>4 DEF none
<1>2. \A u \in Seq(R) : u \in S => \A r \in R : Append(u, r) \in S
  <2> SUFFICES ASSUME NEW u \in Seq(R), u \in S, NEW r \in R PROVE Append(u, r) \in S OBVIOUS
  <2> DEFINE t == Append(u, r)
             n == Len(u)
             counted(q) == Counted(answers, r, q)
             due(q) == r.debt * PriceOr(answers, r, q)
  <2>1. t \in Seq(R) /\ n \in Nat /\ Len(t) = n + 1 /\ t[n + 1] = r /\ \A j \in 1..n : t[j] = u[j]
    BY LenProperties, AppendProperties
  <2>2. held(t, 0) = held(u, 0) + counted(0) /\ held(u, 0) \in Nat BY HeldAre
  <2>3. held(t, p) = held(u, p) + counted(p) /\ held(u, p) \in Nat BY HeldAre
  <2>4. owed(t, 0) = owed(u, 0) + due(0) /\ owed(t, p) = owed(u, p) + due(p) BY OwedAre
  <2>5. counted(0) \in Nat /\ counted(p) \in Nat BY CountedIs
  <2>6. counted(0) <= counted(p) /\ (PriceOr(answers, r, 0) # 0 \/ ~Uses(r) => counted(p) = counted(0)) BY CountedKnown
  <2>7. ASSUME PriceOr(answers, r, 0) # 0 \/ r.debt = 0 PROVE due(p) = due(0)
    <3>1. r.price \in Nat /\ r.debt \in Nat /\ PriceOr(answers, r, 0) \in Nat /\ PriceOr(answers, r, p) \in Nat
      BY DEF AreRows, PricesFor
    <3>2. CASE PriceOr(answers, r, 0) # 0
      <4>1. PriceOr(answers, r, p) = PriceOr(answers, r, 0) BY <3>1, <3>2, PriceKnown
      <4> QED BY <4>1
    <3>3. CASE r.debt = 0
      <4> DEFINE a == PriceOr(answers, r, 0)
                 b == PriceOr(answers, r, p)
      <4>1. a \in Nat /\ b \in Nat BY <3>1
      <4> HIDE DEF a, b
      <4>2. 0 * a = 0 /\ 0 * b = 0 BY <4>1
      <4> QED BY <3>3, <4>2 DEF a, b
    <3> QED BY <2>7, <3>2, <3>3
  <2>8. ValuedAt(u, answers, p) OBVIOUS
  <2> HIDE DEF counted, due, held, owed, t, n
  <2>9. /\ held(u, 0) <= held(u, p)
        /\ (\A i \in 1..n : PriceOr(answers, u[i], 0) # 0 \/ ~Uses(u[i])) => held(u, p) = held(u, 0)
        /\ (\A i \in 1..n : PriceOr(answers, u[i], 0) # 0 \/ u[i].debt = 0) => owed(u, p) = owed(u, 0)
    BY <2>8, Zenon DEF ValuedAt, held, owed, n
  <2>10. (\A j \in 1..n : j \in 1..(n + 1)) /\ n + 1 \in 1..(n + 1) BY <2>1
  <2>11. held(t, 0) <= held(t, p) BY <2>2, <2>3, <2>5, <2>6, <2>9
  <2>12. ASSUME \A i \in 1..(n + 1) : PriceOr(answers, t[i], 0) # 0 \/ ~Uses(t[i]) PROVE held(t, p) = held(t, 0)
    <3>1. \A i \in 1..n : PriceOr(answers, u[i], 0) # 0 \/ ~Uses(u[i])
      <4> SUFFICES ASSUME NEW i \in 1..n PROVE PriceOr(answers, u[i], 0) # 0 \/ ~Uses(u[i]) OBVIOUS
      <4>1. t[i] = u[i] /\ i \in 1..(n + 1) BY <2>1, <2>10
      <4>2. PriceOr(answers, t[i], 0) # 0 \/ ~Uses(t[i]) BY <2>12, <4>1
      <4> QED BY <4>1, <4>2
    <3>2. PriceOr(answers, r, 0) # 0 \/ ~Uses(r)
      <4>1. PriceOr(answers, t[n + 1], 0) # 0 \/ ~Uses(t[n + 1]) BY <2>10, <2>12
      <4> QED BY <2>1, <4>1
    <3>3. held(u, p) = held(u, 0) BY <2>9, <3>1
    <3>4. counted(p) = counted(0) BY <2>6, <3>2
    <3> QED BY <2>2, <2>3, <3>3, <3>4
  <2>13. ASSUME \A i \in 1..(n + 1) : PriceOr(answers, t[i], 0) # 0 \/ t[i].debt = 0 PROVE owed(t, p) = owed(t, 0)
    <3>1. \A i \in 1..n : PriceOr(answers, u[i], 0) # 0 \/ u[i].debt = 0
      <4> SUFFICES ASSUME NEW i \in 1..n PROVE PriceOr(answers, u[i], 0) # 0 \/ u[i].debt = 0 OBVIOUS
      <4>1. t[i] = u[i] /\ i \in 1..(n + 1) BY <2>1, <2>10
      <4>2. PriceOr(answers, t[i], 0) # 0 \/ t[i].debt = 0 BY <2>13, <4>1
      <4> QED BY <4>1, <4>2
    <3>2. PriceOr(answers, r, 0) # 0 \/ r.debt = 0
      <4>1. PriceOr(answers, t[n + 1], 0) # 0 \/ t[n + 1].debt = 0 BY <2>10, <2>13
      <4> QED BY <2>1, <4>1
    <3> QED BY <2>4, <2>7, <2>9, <3>1, <3>2
  <2>14. ValuedAt(t, answers, p) BY <2>1, <2>11, <2>12, <2>13, Zenon DEF ValuedAt, held, owed
  <2> QED BY <2>1, <2>14 DEF t
<1> HIDE DEF S
<1>3. s \in S BY <1>1, <1>2, AllSequences
<1> QED BY <1>3 DEF S
-----------------------------------------------------------------------------
(* Prices from the oracle, and an account's bucket. *)

\* What the answers make of an asset's price.
AnswerFor(answers, asset) == IF asset \in DOMAIN answers THEN answers[asset] ELSE 0
OraclePrice(answers, asset) ==
  IF AnswerFor(answers, asset) = 0 \/ AnswerFor(answers, Ether) = 0 THEN 0
  ELSE (2 * AnswerFor(answers, asset) * Scale + AnswerFor(answers, Ether)) \div (2 * AnswerFor(answers, Ether))

AreAnswers(answers) == \A a \in DOMAIN answers : answers[a] \in Nat

Contexts(A) == [cache : UNION {[D -> Nat] : D \in SUBSET A}, etherAsked : BOOLEAN, ether : Nat]

\* What has been asked so far is what the answers say.
AskedOf(answers, ctx) ==
  /\ \A a \in DOMAIN ctx.cache : ctx.cache[a] = OraclePrice(answers, a)
  /\ ctx.etherAsked => ctx.ether = AnswerFor(answers, Ether)

\* Prices are whole.
LEMMA OraclePriceIs ==
  ASSUME NEW answers, AreAnswers(answers), NEW asset
  PROVE  AnswerFor(answers, asset) \in Nat /\ AnswerFor(answers, Ether) \in Nat /\ OraclePrice(answers, asset) \in Nat
<1> DEFINE usd == AnswerFor(answers, asset)
           ether == AnswerFor(answers, Ether)
<1>1. usd \in Nat /\ ether \in Nat BY DEF AnswerFor, AreAnswers
<1>2. Scale \in Nat BY IndexersAssumption
<1>3. OraclePrice(answers, asset) = IF usd = 0 \/ ether = 0 THEN 0 ELSE (2 * usd * Scale + ether) \div (2 * ether)
  BY Zenon DEF OraclePrice
<1> HIDE DEF usd, ether
<1>4. 2 * usd * Scale \in Nat BY <1>1, <1>2
<1> DEFINE x == 2 * usd * Scale + ether
           d == 2 * ether
<1>5. x \in Nat /\ d \in Nat /\ (ether # 0 => d > 0) BY <1>1, <1>4
<1> HIDE DEF x, d
<1>6. ether # 0 => x \div d \in Nat BY <1>5, Quotient
<1>7. OraclePrice(answers, asset) = IF usd = 0 \/ ether = 0 THEN 0 ELSE x \div d BY <1>3 DEF x, d
<1> QED BY <1>1, <1>6, <1>7 DEF usd, ether

\* What resolving a price gives.
ResolvedTo(answers, A, asset, got) ==
  got.price = OraclePrice(answers, asset) /\ got.ctx \in Contexts(A) /\ AskedOf(answers, got.ctx)

\* A price is the oracle's, whether it was asked before or not, and so are those kept.
LEMMA PriceResolved ==
  ASSUME NEW answers, AreAnswers(answers), NEW A, NEW asset \in A, NEW ctx \in Contexts(A), AskedOf(answers, ctx)
  PROVE  ResolvedTo(answers, A, asset, resolveFallbackPriceInEth(ctx, asset, answers))
<1> DEFINE got == resolveFallbackPriceInEth(ctx, asset, answers)
           usd == AnswerFor(answers, asset)
           eth == AnswerFor(answers, Ether)
           ether == IF ctx.etherAsked THEN ctx.ether ELSE eth
           price == OraclePrice(answers, asset)
           cache == Put(ctx.cache, asset, price)
           to == [cache |-> cache, etherAsked |-> ctx.etherAsked \/ usd > 0, ether |-> IF usd > 0 THEN ether ELSE ctx.ether]
<1>1. usd \in Nat /\ eth \in Nat /\ price \in Nat BY OraclePriceIs
<1>2. ether = eth BY DEF AskedOf
<1>3. ctx.etherAsked \in BOOLEAN /\ ctx.ether \in Nat BY DEF Contexts
<1>4. PICK D \in SUBSET A : ctx.cache \in [D -> Nat] BY DEF Contexts
<1>5. DOMAIN ctx.cache = D BY <1>4
<1>6. CASE asset \in D
  <2>1. got = [ctx |-> ctx, price |-> ctx.cache[asset]] BY <1>5, <1>6, Zenon DEF resolveFallbackPriceInEth
  <2>2. ctx.cache[asset] = price BY <1>5, <1>6 DEF AskedOf
  <2> HIDE DEF got, price
  <2>3. got.ctx = ctx /\ got.price = price BY <2>1, <2>2
  <2> QED BY <2>3, Zenon DEF ResolvedTo, got, price
<1>7. CASE asset \notin D
  <2> DEFINE raw == IF usd = 0 \/ ether = 0 THEN 0 ELSE (2 * usd * Scale + ether) \div (2 * ether)
             made == [price |-> raw,
                      ctx |-> [cache |-> Put(ctx.cache, asset, raw), etherAsked |-> ctx.etherAsked \/ usd > 0,
                               ether |-> IF usd > 0 THEN ether ELSE ctx.ether]]
  <2>1. got = made
    <3>1. asset \notin DOMAIN ctx.cache BY <1>5, <1>7
    <3> QED BY <3>1, Zenon DEF resolveFallbackPriceInEth, AnswerFor
  <2>2. raw = price BY <1>2, Zenon DEF OraclePrice
  <2> HIDE DEF raw, price, usd, ether, eth
  <2>3. got.price = price /\ got.ctx = to BY <2>1, <2>2
  <2>4. cache = [k \in D \cup {asset} |-> IF k = asset THEN price ELSE ctx.cache[k]] BY <1>5, Zenon DEF Put
  <2> HIDE DEF cache, got
  <2>5. cache \in [D \cup {asset} -> Nat] BY <1>1, <1>4, <2>4
  <2>6. D \cup {asset} \in SUBSET A OBVIOUS
  <2>7. ether \in Nat BY <1>1, <1>2
  <2>8. to \in Contexts(A) BY <1>3, <2>5, <2>6, <2>7 DEF Contexts
  <2>9. to.cache = cache /\ to.etherAsked = (ctx.etherAsked \/ usd > 0) /\ to.ether = (IF usd > 0 THEN ether ELSE ctx.ether)
    OBVIOUS
  <2> HIDE DEF to
  <2>10. \A a \in D \cup {asset} : cache[a] = OraclePrice(answers, a)
    <3>1. \A a \in D : ctx.cache[a] = OraclePrice(answers, a) BY <1>5 DEF AskedOf
    <3> QED BY <2>4, <3>1 DEF price
  <2>11. DOMAIN cache = D \cup {asset} BY <2>5
  <2>12. to.etherAsked => to.ether = eth
    <3>1. ctx.etherAsked => ctx.ether = eth BY DEF AskedOf, eth
    <3> QED BY <1>2, <2>9, <3>1
  <2>13. AskedOf(answers, to) BY <2>9, <2>10, <2>11, <2>12, Zenon DEF AskedOf, eth
  <2> QED BY <2>3, <2>8, <2>13, Zenon DEF ResolvedTo, got, price
<1> QED BY <1>6, <1>7

\* What a row is priced at.
PricedAt(answers, row) == IF row.price > 0 THEN row.price ELSE OraclePrice(answers, row.asset)

\* The answers are such that what is computed by them is what the oracle's price is.
RightlyPriced(R, answers) == \A r \in R : PriceOr(answers, r, 0) = PricedAt(answers, r)

Buckets(R) ==
  [rows : Seq(R), debt : Nat, adjusted : Nat, hf : Nat \cup {NoHf}, missing : SUBSET ({"debt", "collateral"} \X {r.asset : r \in R})]

\* The bucket of an account with these rows: all of them, what they owe and hold as far
\* as it is known, whether something is not known, and the first health factor of theirs.
FilledFrom(own, answers, bucket) ==
  /\ bucket.rows = own
  /\ bucket.debt = OwedIn(own, answers, 0) /\ bucket.adjusted = HeldIn(own, answers, 0)
  /\ bucket.missing = {} <=> \A i \in 1..Len(own) : PricedAt(answers, own[i]) # 0 \/ (own[i].debt = 0 /\ ~Uses(own[i]))
  /\ own = <<>> => bucket.hf = NoHf
  /\ \A h : own # <<>> /\ (\A i \in 1..Len(own) : own[i].hf = h) => bucket.hf = h

\* A new bucket is that of no rows.
LEMMA NewBucketFilled ==
  ASSUME NEW R, AreRows(R), NEW answers, AreAnswers(answers), RightlyPriced(R, answers)
  PROVE  NewBucket \in Buckets(R) /\ FilledFrom(<<>>, answers, NewBucket)
<1> DEFINE none == <<>>
<1>0. \A r \in R : PricedAt(answers, r) \in Nat
  <2> SUFFICES ASSUME NEW r \in R PROVE PricedAt(answers, r) \in Nat OBVIOUS
  <2>1. r.price \in Nat BY DEF AreRows
  <2> DEFINE p == OraclePrice(answers, r.asset)
  <2>2. p \in Nat BY OraclePriceIs
  <2> HIDE DEF p
  <2> QED BY <2>1, <2>2 DEF PricedAt, p
<1>1. PricesFor(R, answers, 0) BY <1>0 DEF PricesFor, RightlyPriced
<1>2. OwedIn(none, answers, 0) = 0 BY <1>1, OwedAre
<1>3. HeldIn(none, answers, 0) = 0 BY <1>1, HeldAre
<1>4. NewBucket = [rows |-> none, debt |-> 0, adjusted |-> 0, hf |-> NoHf, missing |-> {}] BY DEF NewBucket
<1>5. none \in Seq(R) /\ Len(none) = 0 /\ 1..0 = {} OBVIOUS
<1> HIDE DEF none
<1>6. NewBucket \in Buckets(R) BY <1>4, <1>5 DEF Buckets
<1>7. NewBucket.rows = none /\ NewBucket.debt = 0 /\ NewBucket.adjusted = 0 /\ NewBucket.hf = NoHf /\ NewBucket.missing = {}
  BY <1>4
<1>8. \A h : ~(none # <<>>) BY DEF none
<1>9. FilledFrom(none, answers, NewBucket) BY <1>2, <1>3, <1>5, <1>7, <1>8, Zenon DEF FilledFrom
<1> QED BY <1>6, <1>9 DEF none

\* A row more in a bucket.
LEMMA RowAdded ==
  ASSUME NEW R, AreRows(R), NEW answers, AreAnswers(answers), RightlyPriced(R, answers), NEW own \in Seq(R), NEW r \in R,
         NEW bucket \in Buckets(R), FilledFrom(own, answers, bucket)
  PROVE  LET to == AddRow(bucket, r, PricedAt(answers, r))
         IN to \in Buckets(R) /\ FilledFrom(Append(own, r), answers, to)
<1> DEFINE p == PricedAt(answers, r)
           to == AddRow(bucket, r, p)
           t == Append(own, r)
           n == Len(own)
           Assets == {q.asset : q \in R}
           uses == r.asCollateral /\ r.collateral > 0
           hf == IF bucket.hf = NoHf THEN r.hf ELSE bucket.hf
           rows == Append(bucket.rows, r)
           more == (IF r.debt > 0 THEN {<<"debt", r.asset>>} ELSE {}) \cup (IF uses THEN {<<"collateral", r.asset>>} ELSE {})
           missing == IF p = 0 THEN bucket.missing \cup more ELSE bucket.missing
           due == r.debt * p
           counts == IF uses THEN (r.collateral * p * r.threshold) \div 10000 ELSE 0
           debt == IF p = 0 THEN bucket.debt ELSE bucket.debt + due
           adjusted == IF p = 0 THEN bucket.adjusted ELSE bucket.adjusted + counts
<1>1. /\ bucket.rows \in Seq(R) /\ bucket.debt \in Nat /\ bucket.adjusted \in Nat /\ bucket.hf \in Nat \cup {NoHf}
      /\ bucket.missing \in SUBSET ({"debt", "collateral"} \X Assets)
      /\ bucket = [rows |-> bucket.rows, debt |-> bucket.debt, adjusted |-> bucket.adjusted, hf |-> bucket.hf,
                   missing |-> bucket.missing]
  BY DEF Buckets
<1>2. /\ r.debt \in Nat /\ r.collateral \in Nat /\ r.threshold \in Nat /\ r.price \in Nat
      /\ r.asCollateral \in BOOLEAN /\ r.hf \in Nat \cup {NoHf} /\ r.asset \in Assets
  BY DEF AreRows
<1>3. \A q \in R : PricedAt(answers, q) \in Nat
  <2> SUFFICES ASSUME NEW q \in R PROVE PricedAt(answers, q) \in Nat OBVIOUS
  <2>1. q.price \in Nat BY DEF AreRows
  <2> DEFINE o == OraclePrice(answers, q.asset)
  <2>2. o \in Nat BY OraclePriceIs
  <2> HIDE DEF o
  <2> QED BY <2>1, <2>2 DEF PricedAt, o
<1>4. p \in Nat /\ PriceOr(answers, r, 0) = p /\ PricesFor(R, answers, 0) BY <1>3 DEF PricesFor, RightlyPriced
<1>5. to = [rows |-> rows, debt |-> debt, adjusted |-> adjusted, hf |-> hf, missing |-> missing]
  <2> DEFINE filled == [bucket EXCEPT !.rows = Append(@, r), !.hf = IF @ = NoHf THEN r.hf ELSE @]
  <2>1. filled = [rows |-> rows, debt |-> bucket.debt, adjusted |-> bucket.adjusted, hf |-> hf, missing |-> bucket.missing]
    <3>1. PICK a, b, c, d, e : bucket = [rows |-> a, debt |-> b, adjusted |-> c, hf |-> d, missing |-> e] BY <1>1, Zenon
    <3>2. bucket.rows = a /\ bucket.debt = b /\ bucket.adjusted = c /\ bucket.hf = d /\ bucket.missing = e BY <3>1
    <3> DEFINE x == Append(bucket.rows, r)
               y == IF bucket.hf = NoHf THEN r.hf ELSE bucket.hf
    <3>3. filled = [bucket EXCEPT !.rows = x, !.hf = y] BY Zenon
    <3> HIDE DEF filled, x, y
    <3>4. filled = [rows |-> x, debt |-> b, adjusted |-> c, hf |-> y, missing |-> e] BY <3>1, <3>3
    <3> QED BY <3>2, <3>4 DEF x, y
  <2>2. to = IF p = 0 THEN [filled EXCEPT !.missing = bucket.missing \cup (IF r.debt > 0 THEN {<<"debt", r.asset>>} ELSE {})
                                       \cup (IF uses THEN {<<"collateral", r.asset>>} ELSE {})]
             ELSE [filled EXCEPT !.debt = @ + due, !.adjusted = @ + counts]
    <3>1. filled.missing = bucket.missing BY <2>1
    <3> QED BY <3>1, SMT DEF AddRow
  <2> HIDE DEF filled, p, due, counts, rows, hf, to, Assets
  <2>3. CASE p = 0
    <3>1. missing = bucket.missing \cup (IF r.debt > 0 THEN {<<"debt", r.asset>>} ELSE {})
                     \cup (IF uses THEN {<<"collateral", r.asset>>} ELSE {})
      BY <2>3
    <3>2. to = [filled EXCEPT !.missing = missing] BY <2>2, <2>3, <3>1
    <3>3. debt = bucket.debt /\ adjusted = bucket.adjusted BY <2>3
    <3> HIDE DEF missing, debt, adjusted
    <3> QED BY <2>1, <3>2, <3>3
  <2>4. CASE p # 0
    <3>1. to = [filled EXCEPT !.debt = @ + due, !.adjusted = @ + counts] BY <2>2, <2>4
    <3>2. debt = bucket.debt + due /\ adjusted = bucket.adjusted + counts /\ missing = bucket.missing BY <2>4
    <3> HIDE DEF missing, debt, adjusted
    <3> QED BY <2>1, <3>1, <3>2
  <2> QED BY <2>3, <2>4
<1>6. due \in Nat /\ (p = 0 => due = 0)
  <2> HIDE DEF p
  <2> QED BY <1>2, <1>4
<1>7. counts \in Nat /\ Counted(answers, r, 0) \in Nat /\ (p # 0 => counts = Counted(answers, r, 0))
      /\ (p = 0 => Counted(answers, r, 0) = 0)
  <2> DEFINE x == r.collateral * p
             y == x * r.threshold
  <2>1. Counted(answers, r, 0) = IF r.asCollateral THEN y \div 10000 ELSE 0 BY <1>4, SMT DEF Counted
  <2>2. counts = IF uses THEN y \div 10000 ELSE 0 BY SMT
  <2> HIDE DEF p, counts
  <2>3. x \in Nat /\ (p = 0 => x = 0) /\ (r.collateral = 0 => x = 0) BY <1>2, <1>4
  <2> HIDE DEF x
  <2>4. y \in Nat /\ (x = 0 => y = 0) BY <1>2, <2>3
  <2> HIDE DEF y
  <2>5. y \div 10000 \in Nat /\ (y = 0 => y \div 10000 = 0) BY <2>4, SMT
  <2>6. ~uses /\ r.asCollateral => r.collateral = 0 BY <1>2
  <2> HIDE DEF uses
  <2>7. uses => r.asCollateral BY DEF uses
  <2> QED BY <2>1, <2>2, <2>3, <2>4, <2>5, <2>6, <2>7, SMT
<1>8. t \in Seq(R) /\ n \in Nat /\ Len(t) = n + 1 /\ t[n + 1] = r /\ (\A j \in 1..n : t[j] = own[j]) /\ t # <<>>
  BY LenProperties, AppendProperties
<1>9. OwedIn(t, answers, 0) = OwedIn(own, answers, 0) + due
  <2>1. OwedIn(t, answers, 0) = OwedIn(own, answers, 0) + r.debt * PriceOr(answers, r, 0) BY <1>4, OwedAre
  <2> QED BY <1>4, <2>1
<1>10. HeldIn(t, answers, 0) = HeldIn(own, answers, 0) + Counted(answers, r, 0) BY <1>4, HeldAre
<1>11. Uses(r) <=> uses BY DEF Uses
<1>12. /\ bucket.rows = own
       /\ bucket.debt = OwedIn(own, answers, 0) /\ bucket.adjusted = HeldIn(own, answers, 0)
       /\ bucket.missing = {} <=> \A i \in 1..n : PricedAt(answers, own[i]) # 0 \/ (own[i].debt = 0 /\ ~Uses(own[i]))
       /\ own = <<>> => bucket.hf = NoHf
       /\ \A h : own # <<>> /\ (\A i \in 1..n : own[i].hf = h) => bucket.hf = h
  BY DEF FilledFrom
<1>14. (\A j \in 1..n : j \in 1..(n + 1)) /\ n + 1 \in 1..(n + 1) /\ \A j \in 1..(n + 1) : j \in 1..n \/ j = n + 1
  BY <1>8
<1>15. rows \in Seq(R) /\ rows = t BY <1>8, <1>12
<1>16. hf \in Nat \cup {NoHf} BY <1>1, <1>2
<1>17. missing \in SUBSET ({"debt", "collateral"} \X Assets)
  <2>1. more \in SUBSET ({"debt", "collateral"} \X Assets)
    <3> HIDE DEF Assets
    <3> QED BY <1>2
  <2> HIDE DEF more, Assets, p
  <2> QED BY <1>1, <2>1
<1>18. debt \in Nat /\ adjusted \in Nat
  <2> HIDE DEF due, counts, p
  <2> QED BY <1>1, <1>6, <1>7
<1>19. debt = OwedIn(t, answers, 0)
  <2> HIDE DEF due, p, t
  <2> QED BY <1>1, <1>6, <1>9, <1>12
<1>20. adjusted = HeldIn(t, answers, 0)
  <2> HIDE DEF counts, p, t
  <2> QED BY <1>1, <1>7, <1>10, <1>12
<1>21. missing = {} <=> \A i \in 1..(n + 1) : PricedAt(answers, t[i]) # 0 \/ (t[i].debt = 0 /\ ~Uses(t[i]))
  <2> DEFINE Ok(q) == PricedAt(answers, q) # 0 \/ (q.debt = 0 /\ ~Uses(q))
  <2>1. Ok(r) <=> p # 0 \/ more = {}
    <3>1. more = {} <=> r.debt = 0 /\ ~uses
      <4> DEFINE a == <<"debt", r.asset>>
                 b == <<"collateral", r.asset>>
      <4>1. more = (IF r.debt > 0 THEN {a} ELSE {}) \cup (IF uses THEN {b} ELSE {}) OBVIOUS
      <4> HIDE DEF a, b, more, uses
      <4>2. r.debt = 0 <=> ~(r.debt > 0) BY <1>2
      <4> QED BY <4>1, <4>2
    <3> HIDE DEF more, uses
    <3> QED BY <1>11, <3>1
  <2>2. bucket.missing = {} <=> \A i \in 1..n : Ok(own[i]) BY <1>12
  <2> HIDE DEF Ok
  <2>3. (\A i \in 1..(n + 1) : Ok(t[i])) <=> (\A i \in 1..n : Ok(own[i])) /\ Ok(r) BY <1>8, <1>14
  <2>4. missing = {} <=> bucket.missing = {} /\ (p # 0 \/ more = {})
    <3> HIDE DEF more, p
    <3> QED OBVIOUS
  <2>5. missing = {} <=> \A i \in 1..(n + 1) : Ok(t[i])
    <3> HIDE DEF missing, more, p, t, n
    <3> QED BY <2>1, <2>2, <2>3, <2>4
  <2> QED BY <2>5 DEF Ok
<1>22. ASSUME NEW h, \A i \in 1..(n + 1) : t[i].hf = h PROVE hf = h
  <2>1. r.hf = h BY <1>8, <1>14, <1>22
  <2>2. \A i \in 1..n : own[i].hf = h BY <1>8, <1>14, <1>22
  <2>3. own = <<>> => bucket.hf = NoHf BY <1>12
  <2>4. own # <<>> => bucket.hf = h BY <1>12, <2>2
  <2> QED BY <2>1, <2>3, <2>4
<1> HIDE DEF rows, debt, adjusted, hf, missing, to, t, Assets
<1>23. to \in Buckets(R) BY <1>5, <1>15, <1>16, <1>17, <1>18 DEF Buckets, Assets
<1>24. to.rows = rows /\ to.debt = debt /\ to.adjusted = adjusted /\ to.hf = hf /\ to.missing = missing BY <1>5
<1>25. FilledFrom(t, answers, to) BY <1>8, <1>15, <1>19, <1>20, <1>21, <1>22, <1>24, Zenon DEF FilledFrom
<1> QED BY <1>23, <1>25 DEF to, p, t
-----------------------------------------------------------------------------
(* Rows grouped by account. *)

UsersOf(R) == {r.user : r \in R}
AssetsOf(R) == {r.asset : r \in R}

\* Buckets that some rows fill.
FilledBuckets(R, answers) == {b \in Buckets(R) : \E own \in Seq(R) : FilledFrom(own, answers, b)}
AskedContexts(R, answers) == {c \in Contexts(AssetsOf(R)) : AskedOf(answers, c)}
Groupings(R, answers) ==
  [buckets : UNION {[D -> FilledBuckets(R, answers)] : D \in SUBSET UsersOf(R)}, ctx : AskedContexts(R, answers)]

\* The bucket a row goes to.
BucketFor(acc, r) == IF r.user \in DOMAIN acc.buckets THEN acc.buckets[r.user] ELSE NewBucket

\* A row more in a grouping: only its account's bucket changes.
GroupedBy(R, answers, acc, r, to) ==
  /\ to \in Groupings(R, answers)
  /\ BucketFor(acc, r) \in FilledBuckets(R, answers)
  /\ to.buckets = [k \in DOMAIN acc.buckets \cup {r.user} |->
                     IF k = r.user THEN AddRow(BucketFor(acc, r), r, PricedAt(answers, r)) ELSE acc.buckets[k]]

\* It is grouped so.
LEMMA RowGrouped ==
  ASSUME NEW R, AreRows(R), NEW answers, AreAnswers(answers), RightlyPriced(R, answers), NEW r \in R,
         NEW acc \in Groupings(R, answers)
  PROVE  GroupedBy(R, answers, acc, r, Grouped(acc, r, answers))
<1> DEFINE p == PricedAt(answers, r)
           got == resolveFallbackPriceInEth(acc.ctx, r.asset, answers)
           priced == IF r.price > 0 THEN [ctx |-> acc.ctx, price |-> r.price] ELSE got
           bucket == BucketFor(acc, r)
           added == AddRow(bucket, r, priced.price)
           buckets == Put(acc.buckets, r.user, added)
           to == Grouped(acc, r, answers)
           F == FilledBuckets(R, answers)
           C == AskedContexts(R, answers)
           U == UsersOf(R)
<1>1. acc.ctx \in C /\ acc.buckets \in UNION {[D -> F] : D \in SUBSET U} BY DEF Groupings
<1>2. acc.ctx \in Contexts(AssetsOf(R)) /\ AskedOf(answers, acc.ctx) BY <1>1 DEF AskedContexts
<1>3. r.asset \in AssetsOf(R) /\ r.user \in U BY DEF AssetsOf, UsersOf
<1>4. ResolvedTo(answers, AssetsOf(R), r.asset, got) BY <1>2, <1>3, PriceResolved
<1>5. priced.price = p /\ priced.ctx \in C
  <2>1. got.price = OraclePrice(answers, r.asset) /\ got.ctx \in C BY <1>4 DEF ResolvedTo, AskedContexts
  <2> HIDE DEF got, C
  <2>2. CASE r.price > 0 BY <1>1, <2>2 DEF PricedAt
  <2>3. CASE ~(r.price > 0) BY <2>1, <2>3 DEF PricedAt
  <2> QED BY <2>2, <2>3
<1>6. to = [buckets |-> buckets, ctx |-> priced.ctx] BY Zenon DEF Grouped, BucketFor
<1> HIDE DEF priced, to, p, got
<1>7. PICK D \in SUBSET U : acc.buckets \in [D -> F] BY <1>1
<1>8. DOMAIN acc.buckets = D BY <1>7
<1>9. NewBucket \in F
  <2>1. NewBucket \in Buckets(R) /\ FilledFrom(<<>>, answers, NewBucket) BY NewBucketFilled
  <2>2. <<>> \in Seq(R) OBVIOUS
  <2> QED BY <2>1, <2>2, Zenon DEF FilledBuckets
<1>10. bucket \in F BY <1>7, <1>8, <1>9 DEF BucketFor
<1> HIDE DEF bucket
<1>11. added \in F
  <2>1. PICK own \in Seq(R) : FilledFrom(own, answers, bucket) BY <1>10 DEF FilledBuckets
  <2>2. bucket \in Buckets(R) BY <1>10 DEF FilledBuckets
  <2> DEFINE made == AddRow(bucket, r, PricedAt(answers, r))
  <2>3. made \in Buckets(R) /\ FilledFrom(Append(own, r), answers, made) BY <2>1, <2>2, RowAdded
  <2>4. Append(own, r) \in Seq(R) BY AppendProperties
  <2>5. added = made BY <1>5 DEF p
  <2> HIDE DEF made, added
  <2> QED BY <2>3, <2>4, <2>5, Zenon DEF FilledBuckets
<1>12. buckets = [k \in D \cup {r.user} |-> IF k = r.user THEN added ELSE acc.buckets[k]] BY <1>8, Zenon DEF Put
<1>13. added = AddRow(BucketFor(acc, r), r, PricedAt(answers, r)) BY <1>5 DEF p, bucket
<1> HIDE DEF added, buckets, F, C, U
<1>14. buckets \in [D \cup {r.user} -> F] BY <1>7, <1>11, <1>12
<1>15. D \cup {r.user} \in SUBSET U BY <1>3
<1>16. buckets \in UNION {[E -> F] : E \in SUBSET U} BY <1>14, <1>15
<1>17. to \in Groupings(R, answers) BY <1>5, <1>6, <1>16 DEF Groupings, F, C, U
<1>18. to.buckets = buckets BY <1>6
<1>19. GroupedBy(R, answers, acc, r, to) BY <1>8, <1>10, <1>12, <1>13, <1>17, <1>18, Zenon DEF GroupedBy, bucket, F
<1> QED BY <1>19 DEF to

\* Nothing grouped is a grouping, of nothing.
LEMMA NothingIsGrouping ==
  ASSUME NEW R, NEW answers
  PROVE  NothingGrouped \in Groupings(R, answers) /\ DOMAIN NothingGrouped.buckets = {}
<1> DEFINE none == <<>>
           ctx == [cache |-> none, etherAsked |-> FALSE, ether |-> 0]
<1>1. NothingGrouped = [buckets |-> none, ctx |-> ctx] BY DEF NothingGrouped
<1>2. DOMAIN none = {} /\ \A S : none \in [{} -> S]
  <2>1. none = [x \in {} |-> 0] BY SMT
  <2> QED BY <2>1
<1> HIDE DEF none
<1>3. \A T, S : none \in UNION {[D -> S] : D \in SUBSET T}
  <2> SUFFICES ASSUME NEW T, NEW S PROVE none \in UNION {[D -> S] : D \in SUBSET T} OBVIOUS
  <2>1. {} \in SUBSET T OBVIOUS
  <2> QED BY <1>2, <2>1
<1>4. ctx \in Contexts(AssetsOf(R)) BY <1>3 DEF Contexts
<1>5. AskedOf(answers, ctx) BY <1>2 DEF AskedOf
<1>6. ctx \in AskedContexts(R, answers) BY <1>4, <1>5 DEF AskedContexts
<1> HIDE DEF ctx
<1>7. [buckets |-> none, ctx |-> ctx] \in Groupings(R, answers) BY <1>3, <1>6 DEF Groupings
<1>8. NothingGrouped.buckets = none BY <1>1
<1> QED BY <1>1, <1>2, <1>7, <1>8

GroupStep(R, answers) == [r \in R |-> [acc \in Groupings(R, answers) |-> Grouped(acc, r, answers)]]

\* Rows are grouped one by one.
LEMMA RowsGroupedFold ==
  ASSUME NEW R, NEW rows \in Seq(R), AreRows(R), NEW answers, AreAnswers(answers), RightlyPriced(R, answers)
  PROVE  IsFold(GroupStep(R, answers), NothingGrouped, rows, groupUserReserves(rows, answers))
<1> DEFINE X == Groupings(R, answers)
           base == NothingGrouped
           n == Len(rows)
           step == GroupStep(R, answers)
           next(s, r) == Grouped(s, r, answers)
           answer(f) == f = [k \in 0..n |-> IF k = 0 THEN base ELSE next(f[k - 1], rows[k])]
           w == CHOOSE f : answer(f)
<1>0. n \in Nat /\ \A i \in 1..n : rows[i] \in R BY LenProperties, ElementOfSeq
<1>1. \A r \in R : \A s \in X : step[r][s] = next(s, r) /\ step[r][s] \in X
  <2> SUFFICES ASSUME NEW r \in R, NEW s \in X PROVE step[r][s] = next(s, r) /\ step[r][s] \in X OBVIOUS
  <2>1. step[r][s] = next(s, r) BY DEF GroupStep
  <2>2. GroupedBy(R, answers, s, r, Grouped(s, r, answers)) BY RowGrouped
  <2>3. next(s, r) \in X BY <2>2 DEF GroupedBy
  <2> QED BY <2>1, <2>3
<1>2. groupUserReserves(rows, answers) = w[n] BY Zenon DEF groupUserReserves
<1> HIDE DEF step, next, n
<1>3. base \in X BY NothingIsGrouping
<1> HIDE DEF base, X
<1>4. PICK f : f \in [0..n -> X] /\ f[0] = base /\ \A k \in 1..n : f[k] = step[rows[k]][f[k - 1]]
  <2>1. StepsWithin(step, R, X) BY <1>1, Zenon DEF StepsWithin
  <2>2. \E f : f \in [0..Len(rows) -> X] /\ f[0] = base /\ \A k \in 1..Len(rows) : f[k] = step[rows[k]][f[k - 1]]
    BY <1>3, <2>1, FoldExists
  <2> QED BY <2>2 DEF n
<1>5. \A k \in 1..n : f[k] = next(f[k - 1], rows[k])
  <2> SUFFICES ASSUME NEW k \in 1..n PROVE f[k] = next(f[k - 1], rows[k]) OBVIOUS
  <2>1. k - 1 \in 0..n BY <1>0
  <2>2. f[k - 1] \in X BY <1>4, <2>1
  <2> QED BY <1>0, <1>1, <1>4, <2>2
<1>6. answer(f)
  <2>1. \A i \in 0..n : i = 0 \/ i \in 1..n BY <1>0
  <2> QED BY <1>4, <1>5, <2>1
<1>7. answer(w) BY <1>6, Zenon
<1> HIDE DEF w
<1>8. w[0] = base /\ \A k \in 1..n : w[k] = next(w[k - 1], rows[k])
  <2>1. w[0] = base BY <1>0, <1>7
  <2>2. ASSUME NEW k \in 1..n PROVE w[k] = next(w[k - 1], rows[k])
    <3>1. k \in 0..n /\ k # 0 BY <1>0
    <3> QED BY <1>7, <3>1, Zenon
  <2> QED BY <2>1, <2>2
<1> HIDE DEF answer
<1> DEFINE Good == [k \in 0..n |-> {f[k]}]
<1>9. \A k \in 1..n : w[k - 1] \in Good[k - 1] => w[k] \in Good[k]
  <2> SUFFICES ASSUME NEW k \in 1..n, w[k - 1] \in Good[k - 1] PROVE w[k] \in Good[k] OBVIOUS
  <2>1. k - 1 \in 0..n /\ k \in 0..n BY <1>0
  <2>2. w[k - 1] = f[k - 1] BY <2>1
  <2>3. w[k] = f[k] BY <1>5, <1>8, <2>2
  <2> QED BY <2>1, <2>3
<1>10. w[0] \in Good[0] BY <1>0, <1>4, <1>8
<1> HIDE DEF Good
<1>11. \A k \in 0..n : w[k] \in Good[k] BY <1>0, <1>9, <1>10, Carried
<1>12. w[n] = f[n] BY <1>0, <1>11 DEF Good
<1>13. \E v : v[0] = base /\ w[n] = v[n] /\ \A k \in 1..n : v[k] = step[rows[k]][v[k - 1]] BY <1>4, <1>12
<1> QED BY <1>2, <1>13, Zenon DEF IsFold, n, step, base

\* Rows grouped: a bucket for each account they are of, filled from its own rows.
GroupedFrom(R, s, answers, acc) ==
  /\ acc \in Groupings(R, answers)
  /\ DOMAIN acc.buckets = {s[i].user : i \in 1..Len(s)}
  /\ \A x \in DOMAIN acc.buckets : FilledFrom(OfUsers(s, {x}), answers, acc.buckets[x])

\* One row more keeps that so.
LEMMA GroupedStep ==
  ASSUME NEW R, AreRows(R), NEW answers, AreAnswers(answers), RightlyPriced(R, answers), NEW s \in Seq(R), NEW r \in R,
         NEW acc, GroupedFrom(R, s, answers, acc), NEW to, GroupedBy(R, answers, acc, r, to)
  PROVE  GroupedFrom(R, Append(s, r), answers, to)
<1> DEFINE n == Len(s)
           t == Append(s, r)
           x == r.user
           bucket == BucketFor(acc, r)
           added == AddRow(bucket, r, PricedAt(answers, r))
           D == DOMAIN acc.buckets
           own(u, y) == OfUsers(u, {y})
<1>1. /\ acc \in Groupings(R, answers) /\ D = {s[i].user : i \in 1..n}
      /\ \A y \in D : FilledFrom(own(s, y), answers, acc.buckets[y])
  BY DEF GroupedFrom
<1>2. /\ to \in Groupings(R, answers) /\ bucket \in FilledBuckets(R, answers)
      /\ to.buckets = [k \in D \cup {x} |-> IF k = x THEN added ELSE acc.buckets[k]]
  BY Zenon DEF GroupedBy
<1>3. t \in Seq(R) /\ n \in Nat /\ Len(t) = n + 1 /\ t[n + 1] = r /\ \A j \in 1..n : t[j] = s[j]
  BY LenProperties, AppendProperties
<1>4. OwnRows(s, x, own(s, x)) BY RowsAreOwn
<1>5. \A y : own(t, y) = WithRow(own(s, y), r, {y}) BY RowsAre
<1>6. own(s, x) \in Seq(R) BY RowsAre
<1>7. bucket \in Buckets(R) BY <1>2 DEF FilledBuckets
<1>8. FilledFrom(own(s, x), answers, bucket)
  <2>1. CASE x \in D BY <1>1, <2>1 DEF BucketFor
  <2>2. CASE x \notin D
    <3>1. bucket = NewBucket BY <2>2 DEF BucketFor
    <3>2. ~\E i \in 1..n : s[i].user = x BY <1>1, <2>2
    <3>3. own(s, x) = <<>> BY <1>4, <3>2 DEF OwnRows
    <3>4. FilledFrom(<<>>, answers, NewBucket) BY NewBucketFilled
    <3> HIDE DEF own, bucket
    <3> QED BY <3>1, <3>3, <3>4
  <2> QED BY <2>1, <2>2
<1> DEFINE mine == own(s, x)
<1>9. FilledFrom(Append(mine, r), answers, added)
  <2> HIDE DEF mine, bucket
  <2>1. mine \in Seq(R) /\ FilledFrom(mine, answers, bucket) BY <1>6, <1>8 DEF mine
  <2> QED BY <1>7, <2>1, RowAdded
<1> HIDE DEF bucket, added, t, n
<1>10. own(t, x) = Append(mine, r) BY <1>5 DEF WithRow
<1>11. DOMAIN to.buckets = D \cup {x} BY <1>2
<1> HIDE DEF D
<1>12. DOMAIN to.buckets = {t[i].user : i \in 1..(n + 1)}
  <2>1. n + 1 \in 1..(n + 1) /\ (\A j \in 1..n : j \in 1..(n + 1)) /\ \A j \in 1..(n + 1) : j \in 1..n \/ j = n + 1 BY <1>3
  <2>2. {t[i].user : i \in 1..(n + 1)} = {s[i].user : i \in 1..n} \cup {x}
    <3> DEFINE new == {t[i].user : i \in 1..(n + 1)}
               old == {s[i].user : i \in 1..n}
    <3>1. ASSUME NEW y \in new PROVE y \in old \cup {x}
      <4>1. PICK i \in 1..(n + 1) : y = t[i].user OBVIOUS
      <4>2. CASE i = n + 1 BY <1>3, <4>1, <4>2
      <4>3. CASE i \in 1..n
        <5>1. t[i] = s[i] BY <1>3, <4>3
        <5>2. y = s[i].user BY <4>1, <5>1
        <5> QED BY <4>3, <5>2
      <4> QED BY <2>1, <4>2, <4>3
    <3>2. ASSUME NEW y \in old PROVE y \in new
      <4>1. PICK i \in 1..n : y = s[i].user OBVIOUS
      <4>2. t[i] = s[i] /\ i \in 1..(n + 1) BY <1>3, <2>1
      <4>3. y = t[i].user BY <4>1, <4>2
      <4> QED BY <4>2, <4>3
    <3>3. x \in new
      <4>1. t[n + 1].user = x BY <1>3
      <4> QED BY <2>1, <4>1
    <3> HIDE DEF new, old
    <3> QED BY <3>1, <3>2, <3>3 DEF new, old
  <2> QED BY <1>1, <1>11, <2>2
<1>13. ASSUME NEW y \in DOMAIN to.buckets PROVE FilledFrom(own(t, y), answers, to.buckets[y])
  <2>1. CASE y = x
    <3>1. to.buckets[y] = added BY <1>2, <1>11, <2>1
    <3> HIDE DEF own, mine
    <3> QED BY <1>9, <1>10, <2>1, <3>1
  <2>2. CASE y # x
    <3>1. y \in D BY <1>11, <2>2
    <3>2. to.buckets[y] = acc.buckets[y] BY <1>2, <2>2, <3>1
    <3>3. own(t, y) = own(s, y) BY <1>5, <2>2 DEF WithRow
    <3>4. FilledFrom(own(s, y), answers, acc.buckets[y]) BY <1>1, <3>1
    <3> HIDE DEF own
    <3> QED BY <3>2, <3>3, <3>4
  <2> QED BY <2>1, <2>2
<1>14. GroupedFrom(R, t, answers, to) BY <1>2, <1>3, <1>12, <1>13, Zenon DEF GroupedFrom, n
<1> QED BY <1>14 DEF t

\* Rows are grouped rightly, whatever the oracle answers.
THEOREM RowsGrouped ==
  ASSUME NEW R, AreRows(R), NEW answers, AreAnswers(answers), RightlyPriced(R, answers), NEW s \in Seq(R)
  PROVE  GroupedFrom(R, s, answers, groupUserReserves(s, answers))
<1> DEFINE step == GroupStep(R, answers)
           grouped(u) == groupUserReserves(u, answers)
           X == Groupings(R, answers)
           S == {u \in Seq(R) : GroupedFrom(R, u, answers, grouped(u))}
           none == <<>>
<1>1. none \in Seq(R) OBVIOUS
<1>2. \A u \in Seq(R) : IsFold(step, NothingGrouped, u, grouped(u)) BY RowsGroupedFold
<1>3. none \in S
  <2>1. IsFold(step, NothingGrouped, <<>>, grouped(none)) BY <1>1, <1>2
  <2> HIDE DEF grouped, step
  <2>2. grouped(none) = NothingGrouped BY <2>1, FoldOfNone
  <2>3. NothingGrouped \in X /\ DOMAIN NothingGrouped.buckets = {} BY NothingIsGrouping
  <2>4. Len(none) = 0 /\ 1..0 = {} OBVIOUS
  <2> HIDE DEF none
  <2>5. {none[i].user : i \in 1..0} = {} BY <2>4
  <2>6. GroupedFrom(R, none, answers, NothingGrouped) BY <2>3, <2>4, <2>5 DEF GroupedFrom, X
  <2> QED BY <1>1, <2>2, <2>6
<1>4. \A u \in Seq(R) : u \in S => \A r \in R : Append(u, r) \in S
  <2> SUFFICES ASSUME NEW u \in Seq(R), u \in S, NEW r \in R PROVE Append(u, r) \in S OBVIOUS
  <2> DEFINE one == grouped(u)
             two == grouped(Append(u, r))
  <2>1. Append(u, r) \in Seq(R) BY AppendProperties
  <2>2. IsFold(step, NothingGrouped, u, one) /\ IsFold(step, NothingGrouped, Append(u, r), two) BY <1>2, <2>1
  <2>3. GroupedFrom(R, u, answers, one) OBVIOUS
  <2> HIDE DEF one, two, step
  <2>4. two = step[r][one] BY <2>2, FoldOfOneMore
  <2>5. one \in X BY <2>3 DEF GroupedFrom
  <2>6. two = Grouped(one, r, answers) BY <2>4, <2>5 DEF step, GroupStep
  <2>7. GroupedBy(R, answers, one, r, two) BY <2>5, <2>6, RowGrouped
  <2>8. GroupedFrom(R, Append(u, r), answers, two) BY <2>3, <2>7, GroupedStep
  <2> QED BY <2>1, <2>8 DEF two
<1> HIDE DEF S
<1>5. s \in S BY <1>1, <1>3, <1>4, AllSequences DEF none
<1> QED BY <1>5 DEF S
-----------------------------------------------------------------------------
(* The candidates of an account. *)

Basis == 10000
Ceilinged == 99999
Fallback(hfThreshold) == Between(1, IF hfThreshold - 1 < 9500 THEN hfThreshold - 1 ELSE 9500, Ceilinged)

\* The health factor of an account that owes and holds so much.
Derived(owed, held) ==
  IF owed = 0 THEN NoHf ELSE IF held > 0 /\ (Basis * held) \div owed = 0 THEN 1 ELSE (Basis * held) \div owed

\* Its health factor, where the subgraph gives h, and all its prices are known or not.
OwnHealth(owed, held, h, known, hfThreshold) ==
  LET first == IF h \notin {NoHf, 0} THEN h ELSE Derived(owed, held)
  IN IF first \in {NoHf, 0} /\ ~known THEN Fallback(hfThreshold) ELSE first

\* That is the one of its bucket.
LEMMA HealthOfBucket ==
  ASSUME NEW bucket, NEW hfThreshold
  PROVE  healthFactorOf(bucket, hfThreshold) =
           OwnHealth(bucket.debt, bucket.adjusted, bucket.hf, bucket.missing = {}, hfThreshold)
  BY SMT DEF healthFactorOf, OwnHealth, Derived, Fallback, Basis, Ceilinged

\* An account that owes something is below the threshold by what it holds, or not.
LEMMA DerivedBelow ==
  ASSUME NEW owed \in Nat, NEW held \in Nat, NEW hfThreshold \in Nat, hfThreshold > 1
  PROVE  /\ owed = 0 => Derived(owed, held) = NoHf
         /\ owed # 0 => /\ Derived(owed, held) \in Nat
                        /\ Derived(owed, held) < hfThreshold <=> Basis * held < hfThreshold * owed
                        /\ Derived(owed, held) = 0 <=> held = 0
<1> DEFINE x == Basis * held
           q == x \div owed
<1>0. Basis \in Nat /\ Basis > 0 BY SMT DEF Basis
<1>1. x \in Nat /\ (x = 0 <=> held = 0)
  <2>1. x \in Nat BY <1>0
  <2>2. held = 0 => x = 0 BY <1>0
  <2>3. held # 0 => x # 0 BY SMT DEF Basis
  <2> QED BY <2>1, <2>2, <2>3
<1>2. Derived(owed, held) = IF owed = 0 THEN NoHf ELSE IF held > 0 /\ q = 0 THEN 1 ELSE q BY Zenon DEF Derived
<1> HIDE DEF x
<1>3. CASE owed = 0 BY <1>2, <1>3
<1>4. CASE owed # 0
  <2>1. q \in Nat /\ q * owed <= x /\ x < (q + 1) * owed BY <1>1, <1>4, Quotient
  <2> HIDE DEF q
  <2>2. q < hfThreshold <=> x < hfThreshold * owed
    <3>1. ASSUME q < hfThreshold PROVE x < hfThreshold * owed
      <4>1. q + 1 <= hfThreshold BY <2>1, <3>1
      <4>2. (q + 1) * owed <= hfThreshold * owed BY <2>1, <4>1, Monotone
      <4> DEFINE a == (q + 1) * owed
                 b == hfThreshold * owed
      <4>3. a \in Nat /\ b \in Nat BY <2>1
      <4>4. x < a /\ a <= b BY <2>1, <4>2
      <4> HIDE DEF a, b
      <4>5. x < b BY <1>1, <4>3, <4>4
      <4> QED BY <4>5 DEF b
    <3>2. ASSUME ~(q < hfThreshold) PROVE ~(x < hfThreshold * owed)
      <4>1. hfThreshold <= q BY <2>1, <3>2
      <4>2. hfThreshold * owed <= q * owed BY <2>1, <4>1, Monotone
      <4> DEFINE a == q * owed
                 b == hfThreshold * owed
      <4>3. a \in Nat /\ b \in Nat BY <2>1
      <4>4. a <= x /\ b <= a BY <2>1, <4>2
      <4> HIDE DEF a, b
      <4>5. ~(x < b) BY <1>1, <4>3, <4>4
      <4> QED BY <4>5 DEF b
    <3> QED BY <3>1, <3>2
  <2>3. held = 0 => q = 0
    <3> SUFFICES ASSUME held = 0 PROVE q = 0 OBVIOUS
    <3>1. x = 0 BY <1>1
    <3>2. 0 \div owed = 0 BY <1>4
    <3> QED BY <3>1, <3>2 DEF q
  <2>4. Derived(owed, held) = IF held > 0 /\ q = 0 THEN 1 ELSE q BY <1>2, <1>4
  <2> DEFINE d == Derived(owed, held)
             short == x < hfThreshold * owed
  <2>5. q < hfThreshold <=> short BY <2>2
  <2>6. d = IF held > 0 /\ q = 0 THEN 1 ELSE q BY <2>4
  <2> HIDE DEF d, short
  <2>7. d \in Nat /\ (d < hfThreshold <=> short) /\ (d = 0 <=> held = 0) BY <2>1, <2>3, <2>5, <2>6
  <2> QED BY <1>4, <2>7 DEF d, short, x
<1> QED BY <1>3, <1>4

\* What is taken for the health factor of an account about whom nothing is known is below
\* the threshold.
LEMMA FallbackBelow ==
  ASSUME NEW hfThreshold \in Nat, hfThreshold > 1
  PROVE  Fallback(hfThreshold) \in Nat /\ Fallback(hfThreshold) > 0 /\ Fallback(hfThreshold) < hfThreshold
  BY SMT DEF Fallback, Between, Ceilinged

\* Candidates from rows at a health factor.
FromRows(x, own, hf, hfThreshold) ==
  IF hf \in {NoHf, 0} \/ hf >= hfThreshold THEN {}
  ELSE {c \in [user : {x}, hf : {hf},
               debt : {r.asset : r \in {r \in {r \in ToSet(own) : r.asset # NoAddress} : r.debt > 0}},
               coll : {r.asset : r \in {r \in {r \in ToSet(own) : r.asset # NoAddress} : r.asCollateral /\ r.collateral > 0}}] :
          c.debt # c.coll}

\* All prices that matter of these rows are known.
AllKnown(own, answers) ==
  \A i \in 1..Len(own) : PricedAt(answers, own[i]) # 0 \/ (own[i].debt = 0 /\ ~Uses(own[i]))

\* Those are the ones built from their bucket.
LEMMA BuiltFromRows ==
  ASSUME NEW x, NEW own, own # <<>>, NEW answers, NEW bucket, FilledFrom(own, answers, bucket), NEW h,
         \A i \in 1..Len(own) : own[i].hf = h, NEW hfThreshold
  PROVE  buildCandidatesFromBucket(x, bucket, hfThreshold) =
           FromRows(x, own, OwnHealth(OwedIn(own, answers, 0), HeldIn(own, answers, 0), h, AllKnown(own, answers), hfThreshold),
                    hfThreshold)
<1> DEFINE known == AllKnown(own, answers)
           hf == healthFactorOf(bucket, hfThreshold)
           health == OwnHealth(OwedIn(own, answers, 0), HeldIn(own, answers, 0), h, known, hfThreshold)
<1>1. bucket.rows = own /\ bucket.debt = OwedIn(own, answers, 0) /\ bucket.adjusted = HeldIn(own, answers, 0)
  BY DEF FilledFrom
<1>2. (bucket.missing = {}) <=> known BY DEF FilledFrom, AllKnown
<1>3. bucket.hf = h BY DEF FilledFrom
<1> HIDE DEF known
<1>4. hf = health
  <2>1. hf = OwnHealth(bucket.debt, bucket.adjusted, bucket.hf, bucket.missing = {}, hfThreshold) BY HealthOfBucket
  <2> DEFINE one == bucket.missing = {}
             first == IF h \notin {NoHf, 0} THEN h ELSE Derived(OwedIn(own, answers, 0), HeldIn(own, answers, 0))
  <2>2. hf = IF first \in {NoHf, 0} /\ ~one THEN Fallback(hfThreshold) ELSE first
    BY <1>1, <1>3, <2>1, Zenon DEF OwnHealth
  <2>3. health = IF first \in {NoHf, 0} /\ ~known THEN Fallback(hfThreshold) ELSE first BY Zenon DEF OwnHealth
  <2> HIDE DEF hf, health, first, one
  <2>4. one <=> known BY <1>2 DEF one
  <2> QED BY <2>2, <2>3, <2>4
<1>5. buildCandidatesFromBucket(x, bucket, hfThreshold) = FromRows(x, bucket.rows, hf, hfThreshold)
  BY Zenon DEF buildCandidatesFromBucket, FromRows
<1> HIDE DEF hf, health
<1> QED BY <1>1, <1>4, <1>5, Zenon DEF known, health

\* They are the account's, at its health factor, which is below the threshold, and each
\* debt is there with each other asset held, or none is.
LEMMA FromRowsAre ==
  ASSUME NEW x, NEW own, NEW hf \in Nat \cup {NoHf}, NEW hfThreshold \in Nat
  PROVE  LET found == FromRows(x, own, hf, hfThreshold)
             good == hf \notin {NoHf, 0} /\ hf < hfThreshold
         IN /\ \A c \in found : c.user = x /\ c.hf = hf /\ good
            /\ {<<c.debt, c.coll>> : c \in found} = IF good THEN Apart(own) ELSE {}
            /\ found = {} <=> ~good \/ Apart(own) = {}
<1> DEFINE found == FromRows(x, own, hf, hfThreshold)
           good == hf \notin {NoHf, 0} /\ hf < hfThreshold
           known == {r \in ToSet(own) : r.asset # NoAddress}
           debts == {r.asset : r \in {r \in known : r.debt > 0}}
           colls == {r.asset : r \in {r \in known : r.asCollateral /\ r.collateral > 0}}
           all == {c \in [user : {x}, hf : {hf}, debt : debts, coll : colls] : c.debt # c.coll}
           pairs == {p \in debts \X colls : p[1] # p[2]}
<1>1. NoHf \notin Int BY IndexersAssumption
<1>2. found = IF hf \in {NoHf, 0} \/ hf >= hfThreshold THEN {} ELSE all BY Zenon DEF FromRows
<1>3. found = IF good THEN all ELSE {}
  <2> HIDE DEF all, found
  <2>1. hf \in {NoHf, 0} \/ hf >= hfThreshold <=> ~good BY <1>1
  <2> HIDE DEF good
  <2> QED BY <1>2, <2>1
<1>4. Apart(own) = pairs
  <2>1. {r \in known : r.collateral > 0 /\ r.asCollateral} = {r \in known : r.asCollateral /\ r.collateral > 0}
    <3> HIDE DEF known
    <3> QED OBVIOUS
  <2>2. Apart(own) = {p \in {d.asset : d \in {r \in known : r.debt > 0}}
                            \X {c.asset : c \in {r \in known : r.collateral > 0 /\ r.asCollateral}} : p[1] # p[2]}
    BY Zenon DEF Apart
  <2> QED BY <2>1, <2>2, Zenon
<1> HIDE DEF debts, colls, found, good
<1>5. {<<c.debt, c.coll>> : c \in all} = pairs
  <2>1. ASSUME NEW c \in all PROVE <<c.debt, c.coll>> \in pairs OBVIOUS
  <2>2. ASSUME NEW p \in pairs PROVE \E c \in all : p = <<c.debt, c.coll>>
    <3> DEFINE c == [user |-> x, hf |-> hf, debt |-> p[1], coll |-> p[2]]
    <3>1. c \in all /\ p = <<c.debt, c.coll>> OBVIOUS
    <3> QED BY <3>1
  <2> HIDE DEF all, pairs
  <2> QED BY <2>1, <2>2
<1>6. \A c \in all : c.user = x /\ c.hf = hf OBVIOUS
<1> HIDE DEF all, pairs
<1>7. all = {} <=> pairs = {} BY <1>5
<1>8. \A c \in found : c.user = x /\ c.hf = hf /\ good BY <1>3, <1>6
<1>9. {<<c.debt, c.coll>> : c \in found} = IF good THEN Apart(own) ELSE {} BY <1>3, <1>4, <1>5
<1>10. found = {} <=> ~good \/ Apart(own) = {} BY <1>3, <1>4, <1>7
<1> QED BY <1>8, <1>9, <1>10 DEF found, good

\* Of an account's rows, the health factors are the same, if any.
SameHealth(own, h) == h \in Nat \cup {NoHf} /\ h # 0 /\ \A i \in 1..Len(own) : own[i].hf = h

\* An account's prices: nothing or some.
AllPrices(R, answers) == PricesFor(R, answers, 0) /\ PricesFor(R, answers, 1) /\ PricesFor(R, answers, 2)

\* An account is listed rightly by what its rows say.
THEOREM ListedRightly ==
  ASSUME NEW R, AreRows(R), NEW answers, AreAnswers(answers), RightlyPriced(R, answers), AllPrices(R, answers),
         NEW x, NEW own \in Seq(R), own # <<>>, NEW h, SameHealth(own, h), NEW hfThreshold \in Nat, hfThreshold > 1,
         NEW bucket, FilledFrom(own, answers, bucket)
  PROVE  RightlyListed(own, buildCandidatesFromBucket(x, bucket, hfThreshold), answers, hfThreshold)
<1> DEFINE n == Len(own)
           known == AllKnown(own, answers)
           owed(p) == OwedIn(own, answers, p)
           held(p) == HeldIn(own, answers, p)
           derived == Derived(owed(0), held(0))
           hf == OwnHealth(owed(0), held(0), h, known, hfThreshold)
           found == buildCandidatesFromBucket(x, bucket, hfThreshold)
           good == hf \notin {NoHf, 0} /\ hf < hfThreshold
           short(p) == Basis * held(p) < hfThreshold * owed(p)
<1>1. n \in Nat /\ n > 0 /\ DOMAIN own = 1..n /\ \A i \in 1..n : own[i] \in R
  <2>1. n \in Nat /\ DOMAIN own = 1..n BY LenProperties
  <2>2. n # 0 BY EmptySeq
  <2>3. \A i \in 1..n : own[i] \in R BY ElementOfSeq
  <2> QED BY <2>1, <2>2, <2>3
<1>2. own[1].hf = h /\ h \in Nat \cup {NoHf} /\ h # 0 BY <1>1 DEF SameHealth
<1>3. found = FromRows(x, own, hf, hfThreshold)
  <2>1. \A i \in 1..Len(own) : own[i].hf = h BY DEF SameHealth
  <2> QED BY <2>1, BuiltFromRows
<1>4. \A p \in 0..2 : owed(p) \in Nat /\ held(p) \in Nat
  <2> SUFFICES ASSUME NEW p \in 0..2 PROVE owed(p) \in Nat /\ held(p) \in Nat OBVIOUS
  <2>1. PricesFor(R, answers, p)
    <3>1. p = 0 \/ p = 1 \/ p = 2 OBVIOUS
    <3> QED BY <3>1 DEF AllPrices
  <2> QED BY <2>1, OwedAre, HeldAre
<1>5. \A p \in 1..2 : ValuedAt(own, answers, p)
  <2> SUFFICES ASSUME NEW p \in 1..2 PROVE ValuedAt(own, answers, p) OBVIOUS
  <2>1. PricesFor(R, answers, p) /\ PricesFor(R, answers, 0)
    <3>1. p = 1 \/ p = 2 OBVIOUS
    <3> QED BY <3>1 DEF AllPrices
  <2>2. p \in Nat OBVIOUS
  <2> QED BY <2>1, <2>2, RowsValued
<1>6. \A i \in 1..n : PriceOr(answers, own[i], 0) = PricedAt(answers, own[i]) /\ PricedAt(answers, own[i]) \in Nat
  BY <1>1 DEF RightlyPriced, PricesFor, AllPrices
<1>7. NoHf \notin Int BY IndexersAssumption
<1>8. 0 \in 0..2 /\ \A p \in 1..2 : p \in 0..2 OBVIOUS
<1>9. /\ owed(0) = 0 => derived = NoHf
      /\ owed(0) # 0 => derived \in Nat /\ (derived < hfThreshold <=> short(0)) /\ (derived = 0 <=> held(0) = 0)
  <2> DEFINE a == owed(0)
             b == held(0)
  <2>1. a \in Nat /\ b \in Nat BY <1>4, <1>8
  <2> HIDE DEF a, b
  <2>2. /\ a = 0 => Derived(a, b) = NoHf
        /\ a # 0 => /\ Derived(a, b) \in Nat
                    /\ Derived(a, b) < hfThreshold <=> Basis * b < hfThreshold * a
                    /\ Derived(a, b) = 0 <=> b = 0
    BY <2>1, DerivedBelow
  <2> QED BY <2>2 DEF a, b
<1> DEFINE fallback == Fallback(hfThreshold)
<1>10. fallback \in Nat /\ fallback > 0 /\ fallback < hfThreshold BY FallbackBelow
<1> HIDE DEF derived, fallback
<1> DEFINE first == IF h \notin {NoHf, 0} THEN h ELSE derived
<1>11. hf = IF first \in {NoHf, 0} /\ ~known THEN fallback ELSE first BY Zenon DEF OwnHealth, derived, fallback
<1>12. derived \in Nat \cup {NoHf} BY <1>9
<1> HIDE DEF hf, known, short, owed, held
<1>13. hf \in Nat \cup {NoHf} BY <1>2, <1>10, <1>11, <1>12
<1>14. /\ \A c \in found : c.hf = hf /\ good
       /\ {<<c.debt, c.coll>> : c \in found} = IF good THEN Apart(own) ELSE {}
       /\ found = {} <=> ~good \/ Apart(own) = {}
  <2> DEFINE made == FromRows(x, own, hf, hfThreshold)
  <2>1. /\ \A c \in made : c.user = x /\ c.hf = hf /\ good
        /\ {<<c.debt, c.coll>> : c \in made} = IF good THEN Apart(own) ELSE {}
        /\ made = {} <=> ~good \/ Apart(own) = {}
    BY <1>13, FromRowsAre
  <2> HIDE DEF found, made, good
  <2>2. found = made BY <1>3 DEF made
  <2> QED BY <2>1, <2>2
<1> HIDE DEF found
<1> DEFINE unknown == own[1].hf = NoHf
           priced == \A i \in DOMAIN own : PriceOr(answers, own[i], 0) > 0
           debtsPriced == \A i \in DOMAIN own : own[i].debt > 0 => PriceOr(answers, own[i], 0) > 0
<1>15. {<<c.debt, c.coll>> : c \in found} \in {{}, Apart(own)}
  <2> HIDE DEF good
  <2> QED BY <1>14
<1>16. \A c \in found : c.hf < hfThreshold BY <1>14
<1>17. unknown => first = derived BY <1>2
<1>18. ~unknown => hf = h /\ (good <=> h < hfThreshold) BY <1>2, <1>7, <1>11
<1>19. ~unknown /\ Apart(own) # {} => (found # {} <=> own[1].hf < hfThreshold)
  <2> HIDE DEF good, unknown
  <2> QED BY <1>2, <1>14, <1>18
<1>20. ASSUME priced, unknown, held(0) > 0 PROVE found = {} <=> ~short(0) \/ Apart(own) = {}
  <2>1. known BY <1>1, <1>6, <1>20 DEF known, AllKnown
  <2>2. hf = derived BY <1>11, <1>17, <1>20, <2>1
  <2>3. good <=> short(0)
    <3>1. CASE owed(0) = 0
      <4>1. ~good BY <1>9, <2>2, <3>1
      <4>2. ~short(0)
        <5> DEFINE z == Basis * held(0)
        <5>1. Basis \in Nat /\ held(0) \in Nat BY <1>4, <1>8, SMT DEF Basis
        <5>2. z \in Nat BY <5>1
        <5>3. hfThreshold * owed(0) = 0 BY <3>1
        <5>4. short(0) <=> z < hfThreshold * owed(0) BY DEF short
        <5> HIDE DEF z
        <5> QED BY <5>2, <5>3, <5>4
      <4> QED BY <4>1, <4>2
    <3>2. CASE owed(0) # 0
      <4>1. derived \in Nat /\ (derived < hfThreshold <=> short(0)) /\ derived # 0 BY <1>4, <1>8, <1>9, <1>20, <3>2
      <4>2. derived # NoHf BY <1>7, <4>1
      <4> QED BY <2>2, <4>1, <4>2
    <3> QED BY <3>1, <3>2
  <2> HIDE DEF good
  <2> QED BY <1>14, <2>3
<1>21. ASSUME debtsPriced, unknown, NEW p \in 1..2, short(p), held(p) > 0, Apart(own) # {} PROVE found # {}
  <2>1. /\ held(0) <= held(p)
        /\ (\A i \in 1..n : PriceOr(answers, own[i], 0) # 0 \/ ~Uses(own[i])) => held(p) = held(0)
        /\ (\A i \in 1..n : PriceOr(answers, own[i], 0) # 0 \/ own[i].debt = 0) => owed(p) = owed(0)
    BY <1>5, Zenon DEF ValuedAt, held, owed
  <2>2. owed(p) = owed(0)
    <3>1. \A i \in 1..n : own[i].debt \in Nat BY <1>1 DEF AreRows
    <3>2. \A i \in 1..n : PriceOr(answers, own[i], 0) # 0 \/ own[i].debt = 0 BY <1>1, <1>6, <1>21, <3>1
    <3> QED BY <2>1, <3>2
  <2>3. held(0) \in Nat /\ held(p) \in Nat /\ owed(0) \in Nat /\ Basis \in Nat BY <1>4, <1>8, SMT DEF Basis
  <2>4. short(0)
    <3> DEFINE a == Basis * held(0)
               b == Basis * held(p)
               c == hfThreshold * owed(0)
    <3>1. held(0) * Basis <= held(p) * Basis BY <2>1, <2>3, Monotone
    <3>2. a = held(0) * Basis /\ b = held(p) * Basis BY <2>3
    <3>3. a \in Nat /\ b \in Nat /\ c \in Nat BY <2>3
    <3>4. a <= b BY <3>1, <3>2
    <3>5. b < c BY <1>21, <2>2 DEF short
    <3> HIDE DEF a, b, c
    <3>6. a < c BY <3>3, <3>4, <3>5
    <3> QED BY <3>6 DEF short, a, c
  <2>5. owed(0) # 0
    <3> SUFFICES ASSUME owed(0) = 0 PROVE FALSE OBVIOUS
    <3> DEFINE z == Basis * held(0)
    <3>1. z \in Nat BY <2>3
    <3>2. hfThreshold * owed(0) = 0 OBVIOUS
    <3>3. z < hfThreshold * owed(0) BY <2>4 DEF short
    <3> HIDE DEF z
    <3> QED BY <3>1, <3>2, <3>3
  <2>6. derived \in Nat /\ derived < hfThreshold /\ (derived = 0 <=> held(0) = 0) BY <1>9, <2>4, <2>5
  <2>7. derived # NoHf BY <1>7, <2>6
  <2>8. good
    <3>1. CASE derived # 0
      <4>1. hf = derived BY <1>11, <1>17, <1>21, <2>7, <3>1
      <4> QED BY <2>6, <2>7, <3>1, <4>1
    <3>2. CASE derived = 0
      <4>1. held(0) = 0 /\ held(p) # held(0) BY <1>21, <2>3, <2>6, <3>2
      <4>2. PICK i \in 1..n : PriceOr(answers, own[i], 0) = 0 /\ Uses(own[i]) BY <2>1, <4>1
      <4>3. ~known BY <1>6, <4>2 DEF known, AllKnown
      <4>4. hf = fallback BY <1>11, <1>17, <1>21, <3>2, <4>3
      <4>5. fallback # NoHf BY <1>7, <1>10
      <4> QED BY <1>10, <4>4, <4>5
    <3> QED BY <3>1, <3>2
  <2> HIDE DEF good
  <2> QED BY <1>14, <1>21, <2>8
<1>22. RightlyListed(own, found, answers, hfThreshold)
  <2> HIDE DEF good, priced, debtsPriced, unknown
  <2>1. priced /\ unknown /\ held(0) > 0 => (found = {} <=> ~short(0) \/ Apart(own) = {}) BY <1>20
  <2>2. debtsPriced /\ unknown /\ (\E p \in 1..2 : short(p) /\ held(p) > 0) /\ Apart(own) # {} => found # {} BY <1>21
  <2> QED BY <1>15, <1>16, <1>19, <2>1, <2>2, SMT DEF RightlyListed, priced, unknown, debtsPriced, short, held, owed, Basis
<1> QED BY <1>22 DEF found

\* AccountsSound, of the rows, the scan, the answers and the settings asked about.
AccountsAsAsked(rows, scan, answers, settings, found, alone) ==
  LET scanned == Scanned(scan, settings.first)
      foundOf(user) == {c \in found : c.user = user}
  IN /\ \A user \in scanned : RightlyListed(OfUsers(rows, {user}), foundOf(user), answers, settings.hfThreshold)
     /\ \A c \in found : c.user \in scanned
     /\ "u" \in scanned => alone = foundOf("u")

\* Who is scanned has rows, and they say the same of his health, if anything.
KnownAccounts(rows, scanned) ==
  \A x \in scanned : OfUsers(rows, {x}) # <<>> /\ \E h : SameHealth(OfUsers(rows, {x}), h)

\* Candidates are of the account they are built for.
LEMMA BuiltForUser ==
  ASSUME NEW x, NEW bucket, NEW hfThreshold
  PROVE  \A c \in buildCandidatesFromBucket(x, bucket, hfThreshold) : c.user = x
<1> DEFINE hf == healthFactorOf(bucket, hfThreshold)
           known == {row \in ToSet(bucket.rows) : row.asset # NoAddress}
           debts == {row.asset : row \in {row \in known : row.debt > 0}}
           colls == {row.asset : row \in {row \in known : row.asCollateral /\ row.collateral > 0}}
           all == {c \in [user : {x}, hf : {hf}, debt : debts, coll : colls] : c.debt # c.coll}
           built == buildCandidatesFromBucket(x, bucket, hfThreshold)
<1>1. built = IF hf \in {NoHf, 0} \/ hf >= hfThreshold THEN {} ELSE all BY Zenon DEF buildCandidatesFromBucket
<1> HIDE DEF built, hf, debts, colls
<1>2. \A c \in all : c.user = x OBVIOUS
<1> HIDE DEF all
<1>3. \A c \in built : c.user = x BY <1>1, <1>2
<1> QED BY <1>3 DEF built

\* What a poll finds, whatever the rows, the scan, the prices and the settings: an account
\* that is scanned is listed as its rows say, no other is, and the look at one finds the same.
THEOREM AccountsFound ==
  ASSUME NEW R, AreRows(R), NEW answers, AreAnswers(answers), RightlyPriced(R, answers), AllPrices(R, answers),
         NEW rows \in Seq(R), Len(rows) <= RowLimit, NEW U, NEW scan \in Seq(U), NEW settings, settings.first \in Nat,
         settings.hfThreshold \in Nat, settings.hfThreshold > 1, KnownAccounts(rows, Scanned(scan, settings.first))
  PROVE  AccountsAsAsked(rows, scan, answers, settings, pollChainCandidatesOnce(rows, scan, answers, settings),
                         fetchBorrowerCandidates(rows, "u", answers, settings))
<1> DEFINE scanned == Scanned(scan, settings.first)
           threshold == settings.hfThreshold
           own(x) == OfUsers(rows, {x})
           fetched == fetchCandidateReserves(rows, scan, settings.first)
           acc == groupUserReserves(fetched, answers)
           grouped == acc.buckets
           built(x, b) == buildCandidatesFromBucket(x, b, threshold)
           found == pollChainCandidatesOnce(rows, scan, answers, settings)
           alone == fetchBorrowerCandidates(rows, "u", answers, settings)
           foundOf(x) == {c \in found : c.user = x}
<1>1. \A x : fetched \in Seq(R) /\ OfUsers(fetched, {x}) = IF x \in scanned THEN own(x) ELSE <<>>
  <2> SUFFICES ASSUME NEW x PROVE fetched \in Seq(R) /\ OfUsers(fetched, {x}) = IF x \in scanned THEN own(x) ELSE <<>>
    OBVIOUS
  <2>1. settings.first \in Nat OBVIOUS
  <2> QED BY <2>1, FetchedBy
<1>2. found = UNION {built(x, grouped[x]) : x \in DOMAIN grouped} BY Zenon DEF pollChainCandidatesOnce
<1> HIDE DEF fetched, found
<1>3. fetched \in Seq(R) BY <1>1
<1>4. GroupedFrom(R, fetched, answers, acc) BY <1>3, RowsGrouped
<1>5. /\ DOMAIN grouped = {fetched[i].user : i \in 1..Len(fetched)}
      /\ \A x \in DOMAIN grouped : FilledFrom(OfUsers(fetched, {x}), answers, grouped[x])
  BY <1>4 DEF GroupedFrom
<1> HIDE DEF acc
<1>6. \A x \in scanned : own(x) # <<>> /\ \E h : SameHealth(own(x), h) BY DEF KnownAccounts
<1>7. \A x : x \in DOMAIN grouped <=> x \in scanned
  <2> SUFFICES ASSUME NEW x PROVE x \in DOMAIN grouped <=> x \in scanned OBVIOUS
  <2>1. OwnRows(fetched, x, OfUsers(fetched, {x})) BY <1>3, RowsAreOwn
  <2>2. OfUsers(fetched, {x}) # <<>> <=> \E i \in 1..Len(fetched) : fetched[i].user = x BY <2>1 DEF OwnRows
  <2>3. x \in DOMAIN grouped <=> OfUsers(fetched, {x}) # <<>> BY <1>5, <2>2
  <2> HIDE DEF own, grouped
  <2> QED BY <1>1, <1>6, <2>3
<1> HIDE DEF grouped
<1>8. \A x \in scanned : FilledFrom(own(x), answers, grouped[x])
  <2> SUFFICES ASSUME NEW x \in scanned PROVE FilledFrom(own(x), answers, grouped[x]) OBVIOUS
  <2>1. x \in DOMAIN grouped BY <1>7
  <2>2. OfUsers(fetched, {x}) = own(x) BY <1>1
  <2> HIDE DEF own
  <2>3. FilledFrom(OfUsers(fetched, {x}), answers, grouped[x]) BY <1>5, <2>1 DEF grouped
  <2> QED BY <2>2, <2>3
<1>9. \A x : \A c \in built(x, grouped[x]) : c.user = x BY BuiltForUser
<1> HIDE DEF built
<1>10. \A x \in scanned : foundOf(x) = built(x, grouped[x])
  <2> SUFFICES ASSUME NEW x \in scanned PROVE foundOf(x) = built(x, grouped[x]) OBVIOUS
  <2>1. x \in DOMAIN grouped BY <1>7
  <2>2. ASSUME NEW c \in built(x, grouped[x]) PROVE c \in foundOf(x) BY <1>2, <1>9, <2>1
  <2>3. ASSUME NEW c \in foundOf(x) PROVE c \in built(x, grouped[x])
    <3>1. c \in found /\ c.user = x OBVIOUS
    <3>2. PICK y \in DOMAIN grouped : c \in built(y, grouped[y]) BY <1>2, <3>1
    <3>3. y = x BY <1>9, <3>1, <3>2
    <3> QED BY <3>2, <3>3
  <2> HIDE DEF foundOf
  <2> QED BY <2>2, <2>3
<1>11. \A c \in found : c.user \in scanned
  <2> SUFFICES ASSUME NEW c \in found PROVE c.user \in scanned OBVIOUS
  <2>1. PICK y \in DOMAIN grouped : c \in built(y, grouped[y]) BY <1>2
  <2>2. c.user = y BY <1>9, <2>1
  <2> QED BY <1>7, <2>2
<1>12. \A x \in scanned : RightlyListed(own(x), foundOf(x), answers, threshold)
  <2> SUFFICES ASSUME NEW x \in scanned PROVE RightlyListed(own(x), foundOf(x), answers, threshold) OBVIOUS
  <2> DEFINE o == own(x)
             b == grouped[x]
  <2>1. o \in Seq(R) BY RowsAre
  <2>2. o # <<>> /\ FilledFrom(o, answers, b) BY <1>6, <1>8
  <2>3. PICK h : SameHealth(o, h) BY <1>6
  <2>4. foundOf(x) = built(x, b) BY <1>10
  <2>5. threshold \in Nat /\ threshold > 1 OBVIOUS
  <2> HIDE DEF o, b, threshold, foundOf
  <2>6. RightlyListed(o, buildCandidatesFromBucket(x, b, threshold), answers, threshold)
    BY <2>1, <2>2, <2>3, <2>5, ListedRightly
  <2>7. built(x, b) = buildCandidatesFromBucket(x, b, threshold) BY DEF built
  <2>8. RightlyListed(o, foundOf(x), answers, threshold) BY <2>4, <2>6, <2>7
  <2> QED BY <2>8 DEF o
<1>13. "u" \in scanned => alone = foundOf("u")
  <2> SUFFICES ASSUME "u" \in scanned PROVE alone = foundOf("u") OBVIOUS
  <2> DEFINE o == own("u")
             one == groupUserReserves(o, answers)
             a == one.buckets["u"]
             b == grouped["u"]
  <2>1. o \in Seq(R) /\ OfUsers(o, {"u"}) = o
    <3>1. o \in Seq(R) BY RowsAre
    <3>2. OfUsers(OfUsers(rows, {"u"}), {"u"}) = IF "u" \in {"u"} THEN OfUsers(rows, {"u"}) ELSE <<>> BY RowsOfRows
    <3> QED BY <3>1, <3>2
  <2>2. o # <<>> /\ FilledFrom(o, answers, b) BY <1>6, <1>8
  <2>3. PICK h : SameHealth(o, h) BY <1>6
  <2>4. alone = built("u", a) BY <2>2, Zenon DEF fetchBorrowerCandidates, built
  <2> HIDE DEF o, b, threshold, foundOf, alone
  <2>5. FilledFrom(o, answers, a)
    <3>1. GroupedFrom(R, o, answers, one) BY <2>1, RowsGrouped
    <3>2. /\ DOMAIN one.buckets = {o[i].user : i \in 1..Len(o)}
          /\ \A x \in DOMAIN one.buckets : FilledFrom(OfUsers(o, {x}), answers, one.buckets[x])
      BY <3>1 DEF GroupedFrom
    <3>3. OwnRows(o, "u", OfUsers(o, {"u"})) BY <2>1, RowsAreOwn
    <3>4. \E i \in 1..Len(o) : o[i].user = "u" BY <2>1, <2>2, <3>3 DEF OwnRows
    <3>5. "u" \in DOMAIN one.buckets BY <3>2, <3>4
    <3> HIDE DEF one
    <3>6. FilledFrom(OfUsers(o, {"u"}), answers, one.buckets["u"]) BY <3>2, <3>5
    <3> QED BY <2>1, <3>6
  <2> HIDE DEF a
  <2>6. \A i \in 1..Len(o) : o[i].hf = h BY <2>3 DEF SameHealth
  <2> DEFINE made == FromRows("u", o, OwnHealth(OwedIn(o, answers, 0), HeldIn(o, answers, 0), h, AllKnown(o, answers), threshold),
                              threshold)
  <2>7. buildCandidatesFromBucket("u", a, threshold) = made BY <2>2, <2>5, <2>6, BuiltFromRows
  <2>8. buildCandidatesFromBucket("u", b, threshold) = made BY <2>2, <2>6, BuiltFromRows
  <2> HIDE DEF made
  <2>9. built("u", a) = built("u", b) BY <2>7, <2>8 DEF built
  <2>10. foundOf("u") = built("u", b) BY <1>10 DEF b
  <2> QED BY <2>4, <2>9, <2>10
<1> HIDE DEF alone
<1>14. AccountsAsAsked(rows, scan, answers, settings, found, alone)
  <2> HIDE DEF scanned, threshold
  <2>1. \A x \in scanned : RightlyListed(OfUsers(rows, {x}), {c \in found : c.user = x}, answers, threshold) BY <1>12
  <2>2. "u" \in scanned => alone = {c \in found : c.user = "u"} BY <1>13
  <2> QED BY <1>11, <2>1, <2>2, Zenon DEF AccountsAsAsked, scanned, threshold
<1> QED BY <1>14 DEF found, alone
-----------------------------------------------------------------------------
(* The accounts as asked about. *)

\* Half of a whole number's double, and a quarter of two more than four times as much.
LEMMA HalfAndQuarter ==
  ASSUME NEW s \in Nat
  PROVE  (2 * s) \div 2 = s /\ (2 * 2 * s + 2) \div (2 * 2) = s
<1>1. (2 * s) \div 2 = s BY SMT
<1>2. (4 * s + 2) \div 4 = s BY SMT
<1>3. 2 * 2 * s + 2 = 4 * s + 2 /\ 2 * 2 = 4 BY SMT
<1> QED BY <1>1, <1>2, <1>3

\* Where every answer is two, what is computed by them is the oracle's price, rounded or not.
LEMMA TwosPriced ==
  ASSUME NEW answers, \A a \in DOMAIN answers : answers[a] = 2, NEW r, r.price \in Nat
  PROVE  PriceOr(answers, r, 0) = PricedAt(answers, r) /\ \A m \in Nat : PriceOr(answers, r, m) \in Nat
<1> DEFINE asked == r.asset \in DOMAIN answers /\ Ether \in DOMAIN answers
           usd == AnswerFor(answers, r.asset)
           eth == AnswerFor(answers, Ether)
           oracle == OraclePrice(answers, r.asset)
<1>1. Scale \in Nat BY IndexersAssumption
<1>2. asked => answers[r.asset] = 2 /\ answers[Ether] = 2 /\ usd = 2 /\ eth = 2 BY Zenon DEF AnswerFor
<1>3. ~asked => usd = 0 \/ eth = 0 BY Zenon DEF AnswerFor
<1>4. oracle = IF usd = 0 \/ eth = 0 THEN 0 ELSE (2 * usd * Scale + eth) \div (2 * eth) BY Zenon DEF OraclePrice
<1>5. \A m : PriceOr(answers, r, m) =
        IF r.price > 0 THEN r.price ELSE IF asked THEN (answers[r.asset] * Scale) \div answers[Ether] ELSE m
  BY Zenon DEF PriceOr
<1>6. PricedAt(answers, r) = IF r.price > 0 THEN r.price ELSE oracle BY Zenon DEF PricedAt
<1> HIDE DEF usd, eth, oracle
<1>7. CASE asked
  <2>1. oracle = (2 * 2 * Scale + 2) \div (2 * 2)
    <3>1. usd = 2 /\ eth = 2 BY <1>2, <1>7
    <3> QED BY <1>4, <3>1, SMT
  <2>2. oracle = Scale BY <1>1, <2>1, HalfAndQuarter
  <2>3. (answers[r.asset] * Scale) \div answers[Ether] = Scale
    <3>1. answers[r.asset] = 2 /\ answers[Ether] = 2 BY <1>2, <1>7
    <3>2. (2 * Scale) \div 2 = Scale BY <1>1, HalfAndQuarter
    <3> QED BY <3>1, <3>2
  <2> QED BY <1>1, <1>5, <1>6, <1>7, <2>2, <2>3
<1>8. CASE ~asked
  <2>1. oracle = 0 BY <1>3, <1>4, <1>8
  <2> QED BY <1>5, <1>6, <1>8, <2>1
<1> QED BY <1>7, <1>8

\* Two rows of u at a health factor, and one of v without between them.
TwoAndOne(rows, hf) ==
  /\ Len(rows) = 3
  /\ rows[1].user = "u" /\ rows[2].user = "v" /\ rows[3].user = "u"
  /\ rows[1].hf = hf /\ rows[2].hf = NoHf /\ rows[3].hf = hf
  /\ AreRows({rows[1], rows[2], rows[3]}) /\ rows \in Seq({rows[1], rows[2], rows[3]})

\* A row of v that is put between them.
Others(r) == [r EXCEPT !.user = "v", !.hf = NoHf, !.debt = 4, !.asset = "A"]

\* A row of u at this health factor that has whole amounts, and what it is changed to.
RightRow(r, hf) ==
  /\ AreRows({r}) /\ r.user = "u" /\ r.hf = hf
  /\ AreRows({Others(r)}) /\ Others(r).user = "v" /\ Others(r).hf = NoHf

\* A row with these fields is one.
LEMMA RowFields ==
  ASSUME NEW hf \in Nat \cup {NoHf}, NEW asset, NEW debt \in Nat, NEW collateral \in Nat, NEW price \in Nat,
         NEW uses \in BOOLEAN, NEW threshold \in Nat
  PROVE  RightRow([user |-> "u", hf |-> hf, asset |-> asset, debt |-> debt, collateral |-> collateral,
                   asCollateral |-> uses, price |-> price, threshold |-> threshold], hf)
<1> DEFINE r == [user |-> "u", hf |-> hf, asset |-> asset, debt |-> debt, collateral |-> collateral,
                 asCollateral |-> uses, price |-> price, threshold |-> threshold]
           other == [user |-> "v", hf |-> NoHf, asset |-> "A", debt |-> 4, collateral |-> collateral,
                     asCollateral |-> uses, price |-> price, threshold |-> threshold]
<1>1. Others(r) = other
  <2>1. r = [user |-> "u", hf |-> hf, asset |-> asset, debt |-> debt, collateral |-> collateral,
             asCollateral |-> uses, price |-> price, threshold |-> threshold]
    OBVIOUS
  <2> HIDE DEF r
  <2> DEFINE w == "v"
             e == 4
             k == "A"
  <2>2. Others(r) = [r EXCEPT !.user = w, !.hf = NoHf, !.debt = e, !.asset = k] BY Zenon DEF Others
  <2> HIDE DEF w, e, k
  <2>3. Others(r) = [user |-> w, hf |-> NoHf, asset |-> k, debt |-> e, collateral |-> collateral,
                     asCollateral |-> uses, price |-> price, threshold |-> threshold]
    BY <2>1, <2>2
  <2> QED BY <2>3 DEF w, e, k
<1>2. AreRows({r}) /\ r.user = "u" /\ r.hf = hf BY DEF AreRows
<1>3. AreRows({other}) /\ other.user = "v" /\ other.hf = NoHf BY DEF AreRows
<1> HIDE DEF other, r
<1>4. RightRow(r, hf) BY <1>1, <1>2, <1>3 DEF RightRow
<1> QED BY <1>4 DEF r

\* So are the rows asked about.
LEMMA RowsAsked ==
  ASSUME NEW hf \in Nat \cup {NoHf}, NEW own \in RowsOf("u", hf)
  PROVE  TwoAndOne(withOther(own), hf)
<1> DEFINE row(asset, debt, collateral, price) ==
             [user |-> "u", hf |-> hf, asset |-> asset, debt |-> debt, collateral |-> collateral,
              asCollateral |-> collateral # 3, price |-> price, threshold |-> 8000]
           kinds(asset) == {row(asset, d, c, p) : d \in {0, 4, 8}, c \in {0, 3, 9}, p \in {0, 1}}
           rows == withOther(own)
<1>1. \E a \in kinds("A"), b \in kinds("B") \cup kinds(NoAddress) : own = <<a, b>> BY SMT DEF RowsOf
<1>2. \A asset, d, c, p : d \in Nat /\ c \in Nat /\ p \in Nat => RightRow(row(asset, d, c, p), hf)
  <2> SUFFICES ASSUME NEW asset, NEW d \in Nat, NEW c \in Nat, NEW p \in Nat PROVE RightRow(row(asset, d, c, p), hf) BY SMT
  <2> DEFINE uses == c # 3
             threshold == 8000
  <2>1. uses \in BOOLEAN /\ threshold \in Nat BY SMT
  <2>2. row(asset, d, c, p) = [user |-> "u", hf |-> hf, asset |-> asset, debt |-> d, collateral |-> c,
                               asCollateral |-> uses, price |-> p, threshold |-> threshold]
    BY SMT
  <2> HIDE DEF row, uses, threshold
  <2>3. RightRow([user |-> "u", hf |-> hf, asset |-> asset, debt |-> d, collateral |-> c,
                  asCollateral |-> uses, price |-> p, threshold |-> threshold], hf)
    BY <2>1, RowFields
  <2> QED BY <2>2, <2>3
<1>3. \A asset : \A r \in kinds(asset) : \E d, c, p \in Nat : r = row(asset, d, c, p) BY SMT
<1> HIDE DEF row
<1>4. \A asset : \A r \in kinds(asset) : RightRow(r, hf) BY <1>2, <1>3
<1> HIDE DEF kinds
<1>5. PICK a \in kinds("A"), b \in kinds("B") \cup kinds(NoAddress) : own = <<a, b>> BY <1>1
<1> DEFINE v == Others(a)
<1>6. rows = <<a, v, b>> BY <1>5 DEF withOther, Others
<1>7. RightRow(a, hf) /\ RightRow(b, hf) BY <1>4
<1>8. AreRows({a}) /\ a.user = "u" /\ a.hf = hf BY <1>7 DEF RightRow
<1>9. AreRows({v}) /\ v.user = "v" /\ v.hf = NoHf BY <1>7 DEF RightRow
<1>10. AreRows({b}) /\ b.user = "u" /\ b.hf = hf BY <1>7 DEF RightRow
<1> HIDE DEF v, rows
<1>11. Len(rows) = 3 /\ rows[1] = a /\ rows[2] = v /\ rows[3] = b BY <1>6
<1>12. {rows[1], rows[2], rows[3]} = {a, v, b} BY <1>11
<1>13. rows \in Seq({a, v, b}) BY <1>6
<1>14. AreRows({a, v, b})
  <2>1. \A S, T : AreRows(S) /\ AreRows(T) => AreRows(S \cup T) BY Zenon DEF AreRows
  <2>2. {a, v, b} = {a} \cup ({v} \cup {b}) OBVIOUS
  <2>3. AreRows({v} \cup {b}) BY <1>9, <1>10, <2>1
  <2>4. AreRows({a} \cup ({v} \cup {b})) BY <1>8, <2>1, <2>3
  <2> QED BY <2>2, <2>4
<1>15. TwoAndOne(rows, hf) BY <1>8, <1>9, <1>10, <1>11, <1>12, <1>13, <1>14, Zenon DEF TwoAndOne
<1> QED BY <1>15 DEF rows

\* Who is scanned is of the scan.
LEMMA ScannedOf ==
  ASSUME NEW U, NEW scan \in Seq(U), NEW first
  PROVE  Scanned(scan, first) \subseteq U
<1> SUFFICES ASSUME NEW x \in Scanned(scan, first) PROVE x \in U OBVIOUS
<1> DEFINE met(i) == Cardinality({scan[j] : j \in 1..i})
<1>1. PICK i \in DOMAIN scan : met(i) <= first /\ x = scan[i] BY Zenon DEF Scanned
<1>2. DOMAIN scan = 1..Len(scan) BY LenProperties
<1>3. scan[i] \in U BY <1>2, ElementOfSeq
<1> QED BY <1>1, <1>3

\* The accounts of those rows have rows that agree on their health.
LEMMA AskedKnown ==
  ASSUME NEW hf \in Nat \cup {NoHf}, hf # 0, NEW rows, TwoAndOne(rows, hf), NEW scanned, scanned \subseteq {"u", "v"}
  PROVE  KnownAccounts(rows, scanned)
<1> SUFFICES ASSUME NEW x \in {"u", "v"}
             PROVE  OfUsers(rows, {x}) # <<>> /\ \E h : SameHealth(OfUsers(rows, {x}), h)
  BY Zenon DEF KnownAccounts
<1> DEFINE own == OfUsers(rows, {x})
           R == {rows[1], rows[2], rows[3]}
           h == IF x = "u" THEN hf ELSE NoHf
<1>1. /\ rows \in Seq(R) /\ Len(rows) = 3
      /\ rows[1].user = "u" /\ rows[2].user = "v" /\ rows[3].user = "u"
      /\ rows[1].hf = hf /\ rows[2].hf = NoHf /\ rows[3].hf = hf
  BY DEF TwoAndOne
<1>2. OwnRows(rows, x, own)
  <2> HIDE DEF R, own
  <2> QED BY <1>1, RowsAreOwn DEF own
<1> HIDE DEF own, R
<1>3. \A j \in 1..Len(rows) : rows[j].user = x => rows[j].hf = h
  <2> SUFFICES ASSUME NEW j \in 1..Len(rows), rows[j].user = x PROVE rows[j].hf = h OBVIOUS
  <2>1. j = 1 \/ j = 2 \/ j = 3 BY <1>1
  <2>2. x = "u" \/ x = "v" OBVIOUS
  <2>3. "u" # "v" OBVIOUS
  <2> QED BY <1>1, <2>1, <2>2, <2>3
<1>4. h \in Nat \cup {NoHf} /\ h # 0
  <2>1. NoHf # 0 BY IndexersAssumption
  <2> QED BY <2>1
<1> HIDE DEF h
<1>5. \A i \in 1..Len(own) : own[i].hf = h
  <2> SUFFICES ASSUME NEW i \in 1..Len(own) PROVE own[i].hf = h OBVIOUS
  <2>1. own[i].user = x /\ \E j \in 1..Len(rows) : rows[j] = own[i] BY <1>2 DEF OwnRows
  <2>2. PICK j \in 1..Len(rows) : rows[j] = own[i] BY <2>1
  <2> QED BY <1>3, <2>1, <2>2
<1>6. SameHealth(own, h) BY <1>4, <1>5 DEF SameHealth
<1>7. own # <<>>
  <2>1. \E i \in 1..Len(rows) : rows[i].user = x
    <3>1. x = "u" \/ x = "v" OBVIOUS
    <3>2. 1 \in 1..Len(rows) /\ 2 \in 1..Len(rows) BY <1>1
    <3> QED BY <1>1, <3>1, <3>2
  <2> QED BY <1>2, <2>1 DEF OwnRows
<1> QED BY <1>6, <1>7 DEF own

\* Every answer is two.
OnlyTwos(answers) == \A a \in DOMAIN answers : answers[a] = 2

\* What is found of them is right, where the oracle answers alike.
LEMMA AskedFound ==
  ASSUME NEW hf \in Nat \cup {NoHf}, hf # 0, NEW rows, TwoAndOne(rows, hf),
         NEW answers, OnlyTwos(answers), NEW scan \in Seq({"u", "v"}),
         NEW settings, settings.first \in Nat, settings.hfThreshold \in Nat, settings.hfThreshold > 1
  PROVE  AccountsAsAsked(rows, scan, answers, settings, pollChainCandidatesOnce(rows, scan, answers, settings),
                         fetchBorrowerCandidates(rows, "u", answers, settings))
<1> DEFINE R == {rows[1], rows[2], rows[3]}
           U == {"u", "v"}
<1>1. rows \in Seq(R) /\ Len(rows) <= RowLimit /\ AreRows(R)
  <2>1. RowLimit \in Nat /\ RowLimit >= 3 BY IndexersAssumption, RowsAssumption
  <2> QED BY <2>1 DEF TwoAndOne
<1>2. KnownAccounts(rows, Scanned(scan, settings.first)) BY AskedKnown, ScannedOf
<1> HIDE DEF R, U
<1>3. \A r \in R : r.price \in Nat BY <1>1 DEF AreRows
<1>4. \A r \in R : PriceOr(answers, r, 0) = PricedAt(answers, r) /\ \A m \in Nat : PriceOr(answers, r, m) \in Nat
  BY <1>3, TwosPriced DEF OnlyTwos
<1>5. RightlyPriced(R, answers) BY <1>4 DEF RightlyPriced
<1>6. AllPrices(R, answers)
  <2>1. 0 \in Nat /\ 1 \in Nat /\ 2 \in Nat OBVIOUS
  <2> QED BY <1>4, <2>1, Zenon DEF AllPrices, PricesFor
<1>7. AreAnswers(answers)
  <2>1. 2 \in Nat OBVIOUS
  <2> QED BY <2>1 DEF AreAnswers, OnlyTwos
<1>8. scan \in Seq(U) BY DEF U
<1> QED BY <1>1, <1>2, <1>5, <1>6, <1>7, <1>8, AccountsFound

\* It does where accounts are asked about.
LEMMA AnswersAreTwo == \A answers \in {<<>>, [A |-> 2, Eth |-> 2], [A |-> 2]} : OnlyTwos(answers)
<1>1. OnlyTwos(<<>>) BY DEF OnlyTwos
<1>2. OnlyTwos([A |-> 2]) BY DEF OnlyTwos
<1>3. OnlyTwos([A |-> 2, Eth |-> 2]) BY DEF OnlyTwos
<1> QED BY <1>1, <1>2, <1>3

\* Whatever is asked of accounts, the answer is right.
LEMMA AccountsAnswered == AskAccounts => decision'.about = "accounts" /\ AccountsSound'
<1> SUFFICES ASSUME AskAccounts PROVE decision'.about = "accounts" /\ AccountsSound' OBVIOUS
<1>0. NoHf # 0 BY IndexersAssumption
<1> DEFINE hfs == {NoHf, 9000}
           oracles == {<<>>, [A |-> 2, Eth |-> 2], [A |-> 2]}
           thresholds == {8500, 9800}
           scans == {<<"u", "v">>, <<"v", "v", "u">>}
<1>1. \E hf \in hfs, answers \in oracles, hfThreshold \in thresholds, scan \in scans, first \in {1, 2} :
        \E own \in RowsOf("u", hf) :
          AnswerAccounts(withOther(own), scan, answers, [first |-> first, hfThreshold |-> hfThreshold])
  BY SMT DEF AskAccounts
<1>2. \A hf \in hfs : hf \in Nat \cup {NoHf} /\ hf # 0 BY <1>0, SMT
<1>3. \A answers \in oracles : OnlyTwos(answers) BY AnswersAreTwo
<1>4. \A t \in thresholds : t \in Nat /\ t > 1 BY SMT
<1>5. \A scan \in scans : scan \in Seq({"u", "v"})
  <2> DEFINE U == {"u", "v"}
  <2>1. "u" \in U /\ "v" \in U OBVIOUS
  <2>2. \A S : \A a, b \in S : <<a, b>> \in Seq(S) OBVIOUS
  <2>3. \A S : \A a, b \in S : <<b, b, a>> \in Seq(S) OBVIOUS
  <2> HIDE DEF U
  <2>4. <<"u", "v">> \in Seq(U) BY <2>1, <2>2
  <2>5. <<"v", "v", "u">> \in Seq(U) BY <2>1, <2>3
  <2>6. \A scan \in scans : scan \in Seq(U) BY <2>4, <2>5, Zenon
  <2> QED BY <2>6 DEF U
<1> HIDE DEF hfs, oracles, thresholds, scans
<1>6. PICK hf \in hfs, answers \in oracles, hfThreshold \in thresholds, scan \in scans, first \in {1, 2} :
        \E own \in RowsOf("u", hf) :
          AnswerAccounts(withOther(own), scan, answers, [first |-> first, hfThreshold |-> hfThreshold])
  BY <1>1
<1>7. PICK own \in RowsOf("u", hf) :
         AnswerAccounts(withOther(own), scan, answers, [first |-> first, hfThreshold |-> hfThreshold])
  BY <1>6
<1> DEFINE rows == withOther(own)
           settings == [first |-> first, hfThreshold |-> hfThreshold]
           found == pollChainCandidatesOnce(rows, scan, answers, settings)
           alone == fetchBorrowerCandidates(rows, "u", answers, settings)
<1>8. decision' = [about |-> "accounts", rows |-> rows, scan |-> scan, answers |-> answers, settings |-> settings,
                   found |-> found, alone |-> alone]
  BY <1>7, Zenon DEF AnswerAccounts, Decide
<1>9. TwoAndOne(rows, hf) BY <1>2, RowsAsked
<1>10. settings.first \in Nat /\ settings.hfThreshold \in Nat /\ settings.hfThreshold > 1 BY <1>4
<1> HIDE DEF rows, settings, found, alone
<1>11. AccountsAsAsked(rows, scan, answers, settings, found, alone)
  BY <1>2, <1>3, <1>5, <1>9, <1>10, AskedFound DEF found, alone
<1>12. /\ decision'.about = "accounts" /\ decision'.rows = rows /\ decision'.scan = scan /\ decision'.answers = answers
       /\ decision'.settings = settings /\ decision'.found = found /\ decision'.alone = alone
  BY <1>8
<1>13. AccountsAsAsked(decision'.rows, decision'.scan, decision'.answers, decision'.settings, decision'.found, decision'.alone)
  BY <1>11, <1>12
<1>14. AccountsSound' BY <1>13, Zenon DEF AccountsSound, AccountsAsAsked, About
<1> QED BY <1>12, <1>14
-----------------------------------------------------------------------------
(* The indexers and the predictors together. *)

DiscoveryTopics == {"accounts", "boosts", "stream", "compound", "offer", "feed", "scan"}

\* A question on one topic leaves the promises about the others alone.
OnlyOfTheirTopics ==
  /\ decision'.about # "accounts" => AccountsSound'
  /\ decision'.about # "boosts" => BoostSound'
  /\ decision'.about # "stream" => StreamSound'
  /\ decision'.about # "compound" => CompoundSound'
  /\ decision'.about # "offer" => OfferSound'
  /\ decision'.about # "feed" => FeedSound'
  /\ decision'.about # "scan" => ScanSound'

\* Accounts are listed as their rows say, boosts run out, a stream repeats nothing within
\* its window, a Compound candidate is the account's largest and first, offers are attached
\* by leave and in time, precommits and scans ahead are due, whatever the indexers and the
\* predictors are asked.
THEOREM DiscoveryIsSound == Spec => []DiscoverySound
<1>1. Init => DiscoverySound
  BY DEF Init, DecisionInit, DiscoverySound, AccountsSound, BoostSound, StreamSound, CompoundSound, OfferSound, FeedSound, ScanSound, About
<1>2. DiscoverySound /\ [Next]_vars => DiscoverySound'
  <2> SUFFICES ASSUME DiscoverySound, [Next]_vars PROVE DiscoverySound' OBVIOUS
  <2>1. CASE UNCHANGED decision
    <3>1. decision' = decision BY <2>1
    <3>2. (BoostSound => BoostSound') /\ (OfferSound => OfferSound') BY <3>1 DEF BoostSound, OfferSound, About
    <3>3. StreamSound => StreamSound' BY <3>1 DEF StreamSound, About
    <3>4. CompoundSound => CompoundSound' BY <3>1 DEF CompoundSound, About
    <3>5. FeedSound => FeedSound' BY <3>1 DEF FeedSound, About
    <3>6. ScanSound => ScanSound' BY <3>1 DEF ScanSound, About
    <3>7. AccountsSound => AccountsSound' BY <3>1 DEF AccountsSound, About
    <3> QED BY <3>2, <3>3, <3>4, <3>5, <3>6, <3>7 DEF DiscoverySound
  <2>2. OnlyOfTheirTopics
    <3>1. decision'.about # "accounts" => AccountsSound' BY DEF AccountsSound, About
    <3>2. decision'.about # "boosts" => BoostSound' BY DEF BoostSound, About
    <3>3. decision'.about # "stream" => StreamSound' BY DEF StreamSound, About
    <3>4. decision'.about # "compound" => CompoundSound' BY DEF CompoundSound, About
    <3>5. decision'.about # "offer" => OfferSound' BY DEF OfferSound, About
    <3>6. decision'.about # "feed" => FeedSound' BY DEF FeedSound, About
    <3>7. decision'.about # "scan" => ScanSound' BY DEF ScanSound, About
    <3> QED BY <3>1, <3>2, <3>3, <3>4, <3>5, <3>6, <3>7 DEF OnlyOfTheirTopics
  <2>3. CASE decision' = None
    <3>1. AccountsSound' BY <2>3 DEF AccountsSound, About
    <3>2. BoostSound' BY <2>3 DEF BoostSound, About
    <3>3. StreamSound' BY <2>3 DEF StreamSound, About
    <3>4. CompoundSound' BY <2>3 DEF CompoundSound, About
    <3>5. OfferSound' BY <2>3 DEF OfferSound, About
    <3>6. FeedSound' BY <2>3 DEF FeedSound, About
    <3>7. ScanSound' BY <2>3 DEF ScanSound, About
    <3> QED BY <3>1, <3>2, <3>3, <3>4, <3>5, <3>6, <3>7 DEF DiscoverySound
  <2>4. CASE decision'.about \notin DiscoveryTopics BY <2>2, <2>4 DEF DiscoverySound, OnlyOfTheirTopics, DiscoveryTopics
  <2>5. AskAccounts => DiscoverySound' BY <2>2, AccountsAnswered DEF DiscoverySound, OnlyOfTheirTopics
  <2>6. AskBoosts => DiscoverySound' BY <2>2, BoostsAnswered DEF DiscoverySound, OnlyOfTheirTopics
  <2>7. AskStream => DiscoverySound' BY <2>2, StreamAnswered DEF DiscoverySound, OnlyOfTheirTopics
  <2>8. AskCompound => DiscoverySound' BY <2>2, CompoundAnswered DEF DiscoverySound, OnlyOfTheirTopics
  <2>9. AskOffer => DiscoverySound' BY <2>2, OfferAnswered DEF DiscoverySound, OnlyOfTheirTopics
  <2>10. AskFeed => DiscoverySound' BY <2>2, FeedAnswered DEF DiscoverySound, OnlyOfTheirTopics
  <2>11. AskScan => DiscoverySound' BY <2>2, ScansAnswered DEF DiscoverySound, OnlyOfTheirTopics
  <2>12. FabricTopics \cap DiscoveryTopics = {} /\ LiquidationTopics \cap DiscoveryTopics = {}
         /\ ScoresTopics \cap DiscoveryTopics = {} /\ PricesTopics \cap DiscoveryTopics = {}
         /\ ExecutionTopics \cap DiscoveryTopics = {}
    BY DEF FabricTopics, LiquidationTopics, ScoresTopics, PricesTopics, DiscoveryTopics, ExecutionTopics
  <2>13. IndexersDecide => DiscoverySound' BY <2>5, <2>6, <2>7, <2>8, <2>9, <2>10, <2>11 DEF IndexersDecide
  <2> QED BY <2>1, <2>3, <2>4, <2>12, <2>13, StepTopics, FabricAnswers, LiquidationAnswers, ScoresAnswers, PricesAnswers,
             ExecutionAnswers, Zenon
<1> QED BY <1>1, <1>2, PTL DEF Spec
=============================================================================
