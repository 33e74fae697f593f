------------------------------ MODULE NonceLock ------------------------------
(***************************************************************************)
(* withNonceLock of offchain/infra/nonce_lock.ts: the lock of one account.    *)
(* With a Redis client the lock is a key with a TTL, set if absent, polled    *)
(* for, and released by a GET and then a DEL; without one it is an entry of   *)
(* a map of this process.                                                   *)
(*                                                                         *)
(* A call is one withNonceLock(); its token is the call itself.  The key may   *)
(* expire at any moment, so a call can be in its section without the key:     *)
(* late holds those whose key expired, robbed those whose key another call    *)
(* deleted.  Neither set is state of the program.                            *)
(***************************************************************************)
EXTENDS FiniteSets

CONSTANTS Calls,      \* the calls of withNonceLock for one chain and account
          Processes,  \* the processes that make them
          home,       \* the process of each call
          Free        \* no such key, no entry in the map

ASSUME LockAssumption == home \in [Calls -> Processes] /\ Free \notin Calls

VARIABLES redis,       \* a Redis client is configured
          lockKey,     \* the token under nonce-lock:<chain>:<address>
          localLocks,  \* the entry of each process
          loc,         \* where each call is
          late, robbed

lockVars == <<redis, lockKey, localLocks, loc, late, robbed>>

Section == {"inside", "releasing", "deleting"}
InSection(c) == loc[c] \in Section
Locations == {"before", "waiting", "gone"} \cup Section

LockTypeOK ==
  /\ redis \in BOOLEAN
  /\ lockKey \in Calls \cup {Free}
  /\ localLocks \in [Processes -> Calls \cup {Free}]
  /\ loc \in [Calls -> Locations]
  /\ late \subseteq Calls
  /\ robbed \subseteq Calls

LockInit ==
  /\ redis \in BOOLEAN
  /\ lockKey = Free
  /\ localLocks = [p \in Processes |-> Free]
  /\ loc = [c \in Calls |-> "before"]
  /\ late = {}
  /\ robbed = {}

MoveTo(c, l) == loc' = [loc EXCEPT ![c] = l]

Acquire(c) ==
  /\ loc[c] = "before"
  /\ MoveTo(c, "waiting")
  /\ UNCHANGED <<redis, lockKey, localLocks, late, robbed>>

\* Mutant of AcquireLocal: the entry is not looked at.
AcquireLocalUnchecked(c) ==
  /\ ~redis
  /\ loc[c] = "waiting"
  /\ localLocks' = [localLocks EXCEPT ![home[c]] = c]
  /\ MoveTo(c, "inside")
  /\ UNCHANGED <<redis, lockKey, late, robbed>>

\* acquireLocalLock: the map has no entry, now or when the one awaited is released.
AcquireLocal(c) ==
  /\ ~redis
  /\ loc[c] = "waiting"
  /\ localLocks[home[c]] = Free
  /\ localLocks' = [localLocks EXCEPT ![home[c]] = c]
  /\ MoveTo(c, "inside")
  /\ UNCHANGED <<redis, lockKey, late, robbed>>

\* Mutant of TrySet: SET without NX.
TrySetAlways(c) ==
  /\ redis
  /\ loc[c] = "waiting"
  /\ lockKey' = c
  /\ MoveTo(c, "inside")
  /\ UNCHANGED <<redis, localLocks, late, robbed>>

\* SET lockKey token PX NX succeeds; while it answers null the call polls on.
TrySet(c) ==
  /\ redis
  /\ loc[c] = "waiting"
  /\ lockKey = Free
  /\ lockKey' = c
  /\ MoveTo(c, "inside")
  /\ UNCHANGED <<redis, localLocks, late, robbed>>

\* The SET rejects, before or after Redis has executed it: the call throws.
SetFails(c) ==
  /\ redis
  /\ loc[c] = "waiting"
  /\ lockKey' \in {lockKey} \cup (IF lockKey = Free THEN {c} ELSE {})
  /\ MoveTo(c, "gone")
  /\ UNCHANGED <<redis, localLocks, late, robbed>>

\* fn settles, in either way.
FnSettles(c) ==
  /\ loc[c] = "inside"
  /\ MoveTo(c, "releasing")
  /\ UNCHANGED <<redis, lockKey, localLocks, late, robbed>>

ReleaseLocal(c) ==
  /\ ~redis
  /\ loc[c] = "releasing"
  /\ localLocks' = [localLocks EXCEPT ![home[c]] = Free]
  /\ MoveTo(c, "gone")
  /\ UNCHANGED <<redis, lockKey, late, robbed>>

\* GET lockKey: only its own token is deleted; an error is logged and no more.
GetToken(c) ==
  /\ redis
  /\ loc[c] = "releasing"
  /\ \/ lockKey = c /\ MoveTo(c, "deleting")
     \/ MoveTo(c, "gone")
  /\ UNCHANGED <<redis, lockKey, localLocks, late, robbed>>

\* DEL lockKey takes whatever token is there by now; or it fails.
DelKey(c) ==
  /\ redis
  /\ loc[c] = "deleting"
  /\ \/ lockKey' = Free /\ robbed' = robbed \cup ({lockKey} \ {Free, c})
     \/ UNCHANGED <<lockKey, robbed>>
  /\ MoveTo(c, "gone")
  /\ UNCHANGED <<redis, localLocks, late>>

\* Mutant of Expire: no TTL, so a key whose call is over stays.
ExpireOnlyHeld ==
  /\ lockKey \in Calls /\ InSection(lockKey)
  /\ late' = late \cup {c \in {lockKey} : InSection(c)}
  /\ lockKey' = Free
  /\ UNCHANGED <<redis, localLocks, loc, robbed>>

\* LOCK_TTL_MS has passed since the SET.
Expire ==
  /\ lockKey # Free
  /\ late' = late \cup {c \in {lockKey} : InSection(c)}
  /\ lockKey' = Free
  /\ UNCHANGED <<redis, localLocks, loc, robbed>>

\* The process ends; its map goes with it, its key stays until it expires.
Crash(p) ==
  /\ loc' = [c \in Calls |-> IF home[c] = p THEN "gone" ELSE loc[c]]
  /\ localLocks' = [localLocks EXCEPT ![p] = Free]
  /\ UNCHANGED <<redis, lockKey, late, robbed>>

LockStep(c) == AcquireLocal(c) \/ TrySet(c) \/ ReleaseLocal(c) \/ GetToken(c) \/ DelKey(c)
-----------------------------------------------------------------------------
\* Calls in their section whose key, if there is one, was neither lost nor deleted.
Sound == {c \in Calls : InSection(c) /\ c \notin late \cup robbed}

\* Two calls compete if they look at the same lock.
lockScope == [c \in Calls |-> IF redis THEN Free ELSE home[c]]

Mutex == INSTANCE NonceMutex WITH scope <- lockScope, owners <- Sound
=============================================================================
