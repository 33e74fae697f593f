-------------------------------- MODULE Predictor --------------------------------
(***************************************************************************)
(* realtime/oracle_predictor.ts and realtime/predictive_scanner.ts: when a feed *)
(* is expected to move, and which accounts fall fast enough to be handled ahead  *)
(* of time.  Times are in ticks, health factors in thousandths, averages in       *)
(* tenths of a tick.                                                         *)
(***************************************************************************)
EXTENDS Integers, Sequences, SequencesExt

CONSTANTS NoStats, MinSamples, HfMargin, MinGapBps,     \* PRECOMMIT_*
          HfFloor, HfCeiling, MinDrop, MinSlope, Cooldown   \* PREDICTIVE_*

ASSUME PredictorAssumption ==
  /\ {MinSamples, HfMargin, MinGapBps, HfFloor, HfCeiling, MinDrop, MinSlope, Cooldown} \subseteq Int
  /\ NoStats \notin [last : Int, ema : Nat, samples : Nat]
-----------------------------------------------------------------------------
(* Feeds. *)

\* An update moves `last` to its own time, also when that is an older one; the interval is
\* then taken for none.  (samples is capped at 256, far above any MinSamples.)
recordFeedUpdate(stats, updatedAt) ==
  IF stats = NoStats THEN [last |-> updatedAt, ema |-> 0, samples |-> 0]
  ELSE LET interval == IF updatedAt > stats.last THEN 10 * (updatedAt - stats.last) ELSE 0
       IN [last |-> updatedAt, samples |-> stats.samples + 1,
           ema |-> IF stats.ema = 0 THEN interval ELSE (2 * interval + 8 * stats.ema) \div 10]

\* The feed is about due: four fifths of its mean interval have passed.
shouldPrecommit(stats, now, gapBps, healthFactor, hfMax) ==
  /\ gapBps >= MinGapBps
  /\ stats # NoStats
  /\ stats.samples >= MinSamples
  /\ stats.ema > 0
  /\ now > stats.last
  /\ 100 * (now - stats.last) >= 8 * stats.ema
  /\ healthFactor >= hfMax
  /\ healthFactor <= hfMax + HfMargin
-----------------------------------------------------------------------------
(* Accounts.  The scanner's state: [history, cooldown, queued]. *)

NoScans == [history |-> <<>>, cooldown |-> <<>>, queued |-> <<>>]
Remember(f, key, value) == [k \in DOMAIN f \cup {key} |-> IF k = key THEN value ELSE f[k]]

\* One candidate of a tick: outside the band it is not even remembered; one that falls far
\* and fast since it was last seen is handled, once in a cooldown.
Scan(state, candidate, now) ==
  LET id == candidate.user
      falls == /\ id \in DOMAIN state.history
               /\ LET last == state.history[id]
                  IN /\ last.hf - candidate.hf > MinDrop
                     /\ now > last.at
                     /\ last.hf - candidate.hf >= MinSlope * (now - last.at)
      cool == id \in DOMAIN state.cooldown /\ now - state.cooldown[id] < Cooldown
      history == Remember(state.history, id, [hf |-> candidate.hf, at |-> now])
  IN IF candidate.hf <= HfFloor \/ candidate.hf > HfCeiling THEN state
     ELSE IF falls /\ ~cool
     THEN [history |-> history, cooldown |-> Remember(state.cooldown, id, now),
           queued |-> Append(state.queued, [user |-> id, at |-> now])]
     ELSE [state EXCEPT !.history = history]

tick(state, candidates, now) ==
  LET after[n \in 0..Len(candidates)] == IF n = 0 THEN state ELSE Scan(after[n - 1], candidates[n], now)
  IN after[Len(candidates)]
=============================================================================
