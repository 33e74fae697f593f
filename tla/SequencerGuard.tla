--------------------------- MODULE SequencerGuard ---------------------------
(***************************************************************************)
(* offchain/infra/sequencer.ts: checkSequencerStatus, which the orchestrator  *)
(* and the pipeline runner await before the simulation and before the send.   *)
(* Reads of one feed are shared by the calls that overlap and their outcome   *)
(* is cached, 15 s when it is ok and 5 s when it is not.  A chain without a   *)
(* feed is always answered ok and keeps no state.                            *)
(***************************************************************************)
EXTENDS Naturals

CONSTANTS Checks,   \* overlapping calls for one chain's feed
          NoStatus   \* an entry, or a call, that has no status

GuardStatuses == {"ok", "status-down", "stale", "grace", "feed-read-failed"}

ASSUME GuardAssumption == NoStatus \notin GuardStatuses

VARIABLES sequencer,   \* what the feed would report now
          value,       \* the cache entry: its status,
          fresh,       \* expires > now,
          pending,     \* and its read: "none", "sent" or what it came back with
          waiting,     \* the calls that share the read
          answer,      \* what a call has been told
          seenOk       \* some read has come back ok

entryVars == <<value, fresh, pending>>
guardVars == <<sequencer, entryVars, waiting, answer, seenOk>>

\* answer = 1 (an unknown answer is treated alike); answer = 0 but too old (an
\* updatedAt of zero is treated alike); answer = 0 and too recent; answer = 0.
Reports == [down |-> "status-down", silent |-> "stale", recovering |-> "grace", up |-> "ok"]

GuardTypeOK ==
  /\ sequencer \in DOMAIN Reports
  /\ value \in GuardStatuses \cup {NoStatus}
  /\ fresh \in BOOLEAN /\ (fresh => value # NoStatus)
  /\ pending \in {"none", "sent"} \cup GuardStatuses
  /\ waiting \subseteq Checks
  /\ answer \in [Checks -> GuardStatuses \cup {NoStatus}]
  /\ seenOk \in BOOLEAN

GuardInit ==
  /\ sequencer \in DOMAIN Reports
  /\ value = NoStatus /\ fresh = FALSE /\ pending = "none"
  /\ waiting = {}
  /\ answer = [c \in Checks |-> NoStatus]
  /\ seenOk = FALSE
-----------------------------------------------------------------------------
Free(c) == c \notin waiting /\ answer[c] = NoStatus

\* Mutant of Call: any entry is taken for one with a read under way.
CallJoinsAnyEntry(c) ==
  /\ Free(c)
  /\ \/ /\ fresh /\ pending = "none"
        /\ answer' = [answer EXCEPT ![c] = value]
        /\ UNCHANGED <<pending, waiting>>
     \/ /\ ~(fresh /\ pending = "none")
        /\ waiting' = waiting \cup {c}
        /\ pending' = IF value = NoStatus THEN "sent" ELSE pending
        /\ UNCHANGED answer
  /\ UNCHANGED <<sequencer, value, fresh, seenOk>>

\* checkSequencerStatus: a fresh status, else the read under way, else a new read.
Call(c) ==
  /\ Free(c)
  /\ \/ /\ fresh /\ pending = "none" /\ value # NoStatus
        /\ answer' = [answer EXCEPT ![c] = value]
        /\ UNCHANGED <<pending, waiting>>
     \/ /\ ~(fresh /\ pending = "none" /\ value # NoStatus)
        /\ waiting' = waiting \cup {c}
        /\ pending' = IF pending = "none" THEN "sent" ELSE pending
        /\ UNCHANGED answer
  /\ UNCHANGED <<sequencer, value, fresh, seenOk>>

\* The node answers with the feed's round, or the read fails.
ReadReturns ==
  /\ pending = "sent"
  /\ pending' \in {Reports[sequencer], "feed-read-failed"}
  /\ UNCHANGED <<sequencer, value, fresh, waiting, answer, seenOk>>

\* What the entry holds from now on: a status that is not ok never replaces one
\* that is there.
Kept(status) == IF status = "ok" \/ value = NoStatus THEN status ELSE value

\* Mutant of ReadSettles: the last status that is not ok wins.
ReadSettlesLast ==
  /\ pending \in GuardStatuses
  /\ value' = pending
  /\ fresh' = TRUE
  /\ pending' = "none"
  /\ answer' = [c \in Checks |-> IF c \in waiting THEN value' ELSE answer[c]]
  /\ waiting' = {}
  /\ seenOk' = (seenOk \/ pending = "ok")
  /\ UNCHANGED sequencer

\* The read's then-callback: the entry is replaced, and everyone who shares the
\* read is told what the entry holds, not what the read returned.
ReadSettles ==
  /\ pending \in GuardStatuses
  /\ value' = Kept(pending)
  /\ fresh' = TRUE
  /\ pending' = "none"
  /\ answer' = [c \in Checks |-> IF c \in waiting THEN value' ELSE answer[c]]
  /\ waiting' = {}
  /\ seenOk' = (seenOk \/ pending = "ok")
  /\ UNCHANGED sequencer

\* The entry's TTL passes.
StatusExpires ==
  /\ fresh
  /\ fresh' = FALSE
  /\ UNCHANGED <<sequencer, value, pending, waiting, answer, seenOk>>

\* The caller goes on with its answer, and may call again.
Proceed(c) ==
  /\ answer[c] # NoStatus
  /\ answer' = [answer EXCEPT ![c] = NoStatus]
  /\ UNCHANGED <<sequencer, entryVars, waiting, seenOk>>

SequencerChanges ==
  /\ sequencer' \in DOMAIN Reports \ {sequencer}
  /\ UNCHANGED <<entryVars, waiting, answer, seenOk>>

GuardNext ==
  \/ \E c \in Checks : Call(c) \/ Proceed(c)
  \/ ReadReturns \/ ReadSettles \/ StatusExpires \/ SequencerChanges

GuardSpec == GuardInit /\ [][GuardNext]_guardVars

\* An RPC read settles (viem's http transport times out) and so does its callback.
GuardFairSpec == GuardSpec /\ WF_guardVars(ReadReturns) /\ WF_guardVars(ReadSettles)
-----------------------------------------------------------------------------
\* The entry says ok exactly when some read has ever come back ok: a first outage
\* blocks, and one good read ends the blocking for as long as the process runs
\* (sequencer.ts 111-120).
OkIffEverOk == value # NoStatus => (value = "ok" <=> seenOk)

\* A call that shares a read is answered by it (56-58, 122-124).
CallersAnswered == \A c \in Checks : c \in waiting ~> answer[c] # NoStatus

\* EXPANSION_PROJECT_REQUIREMENTS.md:260, "Never liquidate during sequencer
\* downtime": a read that reports the sequencer down lets none of its calls through.
DownStopsCalls ==
  [][pending = "status-down" /\ pending' = "none"
       => \A c \in waiting : answer'[c] # "ok"]_guardVars
=============================================================================
