---------------------------- MODULE SendersProofs ----------------------------
(***************************************************************************)
(* What is proved of the nonce lock and the senders, for any calls, processes *)
(* and liquidations: that the calls on time exclude each other, and who may    *)
(* share a nonce.                                                            *)
(***************************************************************************)
EXTENDS Senders, FiniteSetTheorems, TLAPS

\* A step leaves the lock alone or is one of its own.
LockMoves ==
  \/ UNCHANGED lockVars
  \/ \E c \in Calls : Acquire(c) \/ LockStep(c) \/ SetFails(c) \/ FnSettles(c)
  \/ Expire
  \/ \E p \in Processes : Crash(p)

LEMMA NextMovesLock == [Next]_vars => LockMoves
BY DEF Next, vars, BundleStep, Prepare, EstimateGas, EnterSection, ReadNonce, WriteBundle, AwaitReceipt,
  LeaveSection, LockThrows, LiquidationStep, FillNonce, WriteLiquidation, Mine, KeyExpires,
  ProcessDies, LockMoves, LockStep
-----------------------------------------------------------------------------
(* Exclusion. *)

\* With Redis whoever is on time in its section has its token under the key; without,
\* whoever is in its section has the entry of its process, and nobody is late.
Holds(c) ==
  IF redis THEN lockKey = c
  ELSE localLocks[home[c]] = c /\ loc[c] # "deleting"

LockInv ==
  /\ redis \in BOOLEAN
  /\ localLocks \in [Processes -> Calls \cup {Free}]
  /\ loc \in [Calls -> Locations]
  /\ ~redis => lockKey = Free /\ late = {} /\ robbed = {}
  /\ \A c \in Sound : Holds(c)

LEMMA LockInvInit == LockInit => LockInv
BY DEF LockInit, LockInv, Locations, Sound, InSection, Section

LEMMA LockInvStep == LockInv /\ LockMoves => LockInv'
<1> SUFFICES ASSUME LockInv, LockMoves PROVE LockInv'
  OBVIOUS
<1> USE LockAssumption
<1>1. CASE UNCHANGED lockVars
  BY <1>1 DEF LockInv, lockVars, Sound, InSection, Section, Holds, Locations
<1>2. ASSUME NEW c \in Calls, Acquire(c) PROVE LockInv'
  BY <1>2 DEF LockInv, Acquire, MoveTo, Sound, InSection, Section, Holds, Locations
<1>3. ASSUME NEW c \in Calls, AcquireLocal(c) PROVE LockInv'
  BY <1>3 DEF LockInv, AcquireLocal, MoveTo, Sound, InSection, Section, Holds, Locations
<1>4. ASSUME NEW c \in Calls, TrySet(c) PROVE LockInv'
  BY <1>4 DEF LockInv, TrySet, MoveTo, Sound, InSection, Section, Holds, Locations
<1>5. ASSUME NEW c \in Calls, SetFails(c) PROVE LockInv'
  BY <1>5 DEF LockInv, SetFails, MoveTo, Sound, InSection, Section, Holds, Locations
<1>6. ASSUME NEW c \in Calls, FnSettles(c) PROVE LockInv'
  BY <1>6 DEF LockInv, FnSettles, MoveTo, Sound, InSection, Section, Holds, Locations
<1>7. ASSUME NEW c \in Calls, ReleaseLocal(c) PROVE LockInv'
  BY <1>7 DEF LockInv, ReleaseLocal, MoveTo, Sound, InSection, Section, Holds, Locations
<1>8. ASSUME NEW c \in Calls, GetToken(c) PROVE LockInv'
  BY <1>8 DEF LockInv, GetToken, MoveTo, Sound, InSection, Section, Holds, Locations
<1>9. ASSUME NEW c \in Calls, DelKey(c) PROVE LockInv'
  BY <1>9 DEF LockInv, DelKey, MoveTo, Sound, InSection, Section, Holds, Locations
<1>10. CASE Expire
  BY <1>10 DEF LockInv, Expire, Sound, InSection, Section, Holds, Locations
<1>11. ASSUME NEW p \in Processes, Crash(p) PROVE LockInv'
  BY <1>11 DEF LockInv, Crash, Sound, InSection, Section, Holds, Locations
<1> QED BY <1>1, <1>2, <1>3, <1>4, <1>5, <1>6, <1>7, <1>8, <1>9, <1>10, <1>11 DEF LockMoves, LockStep

LEMMA LockInvHolds == Spec => []LockInv
<1>1. Init => LockInv
  BY LockInvInit DEF Init
<1>2. LockInv /\ [Next]_vars => LockInv'
  BY NextMovesLock, LockInvStep
<1> QED BY <1>1, <1>2, PTL DEF Spec

\* Two calls on time that look at the same lock are one.
LEMMA Exclusive ==
  ASSUME LockInv, NEW c \in Sound, NEW d \in Sound, lockScope[c] = lockScope[d]
  PROVE  c = d
BY DEF LockInv, Holds, lockScope, Sound

\* What a step does to those on time: it lets one in where nobody is, or none.
LEMMA SoundStep ==
  ASSUME LockInv, LockMoves
  PROVE  /\ lockScope' = lockScope
         /\ \/ Sound' \subseteq Sound
            \/ \E c \in Calls : /\ \A d \in Sound : lockScope[d] # lockScope[c]
                                /\ Sound' = Sound \cup {c}
<1> USE LockAssumption
<1>1. lockScope' = lockScope
  BY DEF LockMoves, lockVars, Acquire, LockStep, AcquireLocal, TrySet, ReleaseLocal, GetToken, DelKey,
    SetFails, FnSettles, Expire, Crash, lockScope
<1>2. ASSUME NEW c \in Calls, AcquireLocal(c)
      PROVE  (\A d \in Sound : lockScope[d] # lockScope[c]) /\ Sound' = Sound \cup {c}
  <2>1. \A d \in Sound : home[d] # home[c]
    BY <1>2 DEF AcquireLocal, LockInv, Holds, Sound
  <2>2. Sound' = Sound \cup {c}
    BY <1>2 DEF AcquireLocal, LockInv, MoveTo, Sound, InSection, Section
  <2> QED BY <1>2, <2>1, <2>2 DEF AcquireLocal, lockScope, Sound
<1>3. ASSUME NEW c \in Calls, TrySet(c)
      PROVE  \/ Sound' \subseteq Sound
             \/ (\A d \in Sound : lockScope[d] # lockScope[c]) /\ Sound' = Sound \cup {c}
  <2>1. Sound = {}
    BY <1>3 DEF TrySet, LockInv, Holds, Sound
  <2>2. Sound' \subseteq Sound \cup {c}
    BY <1>3 DEF TrySet, LockInv, MoveTo, Sound, InSection, Section
  <2> QED BY <2>1, <2>2
<1>4. ASSUME NEW c \in Calls, Acquire(c) \/ SetFails(c) \/ FnSettles(c) \/ ReleaseLocal(c) \/ GetToken(c)
      PROVE  Sound' \subseteq Sound
  BY <1>4 DEF Acquire, SetFails, FnSettles, ReleaseLocal, GetToken, MoveTo, LockInv, Sound, InSection, Section
<1>5. ASSUME NEW c \in Calls, DelKey(c) PROVE Sound' \subseteq Sound
  BY <1>5 DEF DelKey, MoveTo, LockInv, Sound, InSection, Section
<1>6. UNCHANGED lockVars \/ Expire \/ (\E p \in Processes : Crash(p)) => Sound' \subseteq Sound
  <2>1. UNCHANGED lockVars => Sound' \subseteq Sound
    BY DEF lockVars, Sound, InSection, Section
  <2>2. Expire => Sound' \subseteq Sound
    BY DEF Expire, Sound, InSection, Section
  <2>3. ASSUME NEW p \in Processes, Crash(p) PROVE Sound' \subseteq Sound
    BY <2>3 DEF Crash, LockInv, Sound, InSection, Section
  <2> QED BY <2>1, <2>2, <2>3
<1>7. CASE \E c \in Calls : Acquire(c) \/ LockStep(c) \/ SetFails(c) \/ FnSettles(c)
  <2>1. PICK c \in Calls : Acquire(c) \/ LockStep(c) \/ SetFails(c) \/ FnSettles(c)
    BY <1>7
  <2>2. CASE AcquireLocal(c)
    BY <1>1, <1>2, <2>2
  <2>3. CASE TrySet(c)
    BY <1>1, <1>3, <2>3
  <2> QED BY <1>1, <1>4, <1>5, <2>1, <2>2, <2>3 DEF LockStep
<1> QED BY <1>1, <1>6, <1>7 DEF LockMoves

\* The calls of nonce_lock.ts that are in their section and on time are the owners of
\* a mutex, for any number of calls and processes, with Redis and without.
THEOREM SoundIsExclusiveCorrect == Spec => SoundIsExclusive
<1>1. Init => Mutex!Init
  BY DEF Init, LockInit, Mutex!Init, Sound, InSection, Section
<1>2. LockInv /\ [Next]_vars => [Mutex!Next]_<<lockScope, Sound>>
  <2> SUFFICES ASSUME LockInv, [Next]_vars PROVE [Mutex!Next]_<<lockScope, Sound>>
    OBVIOUS
  <2>1. /\ lockScope' = lockScope
        /\ \/ Sound' \subseteq Sound
           \/ \E c \in Calls : /\ \A d \in Sound : lockScope[d] # lockScope[c]
                               /\ Sound' = Sound \cup {c}
    BY NextMovesLock, SoundStep
  <2> QED BY <2>1 DEF Mutex!Next, Mutex!Leave, Mutex!Enter
<1> QED BY <1>1, <1>2, LockInvHolds, PTL DEF Spec, SoundIsExclusive, Mutex!Spec
-----------------------------------------------------------------------------
(* Nonces. *)

\* The first free nonce is a number: of one more numbers than T has transactions one
\* is free, and of the free ones one has no free one between the count and itself.
LEMMA NextNonceIsNat ==
  ASSUME mined \in Nat, NEW T \in SUBSET Txs, IsFiniteSet(T), nonce \in [Txs -> Nat]
  PROVE  NextNonce(T) \in Nat
<1> DEFINE used == {nonce[t] : t \in T}
           range == mined..(mined + Cardinality(T))
           free == range \ used
           below(n) == mined..(n - 1)
<1>1. Cardinality(T) \in Nat
  BY FS_CardinalityType
<1>2. IsFiniteSet(used) /\ Cardinality(used) <= Cardinality(T)
  <2>1. [t \in T |-> nonce[t]] \in Surjection(T, used)
    BY DEF Surjection
  <2> QED BY <2>1, FS_Surjection
<1>3. IsFiniteSet(range) /\ Cardinality(range) = Cardinality(T) + 1
  BY <1>1, FS_Interval
<1>4. free # {}
  <2> SUFFICES ASSUME range \subseteq used PROVE FALSE
    OBVIOUS
  <2>1. Cardinality(range) <= Cardinality(used)
    BY <1>2, FS_Subset
  <2>2. Cardinality(used) \in Nat
    BY <1>2, FS_CardinalityType
  <2> QED BY <1>1, <1>2, <1>3, <2>1, <2>2
<1>5. PICK n \in free : \A m \in free : <<below(m), below(n)>> \notin StrictSubsetOrdering(range)
  <2> DEFINE S == {below(m) : m \in free}
  <2>1. \A m \in free : below(m) \in SUBSET range
    BY <1>1
  <2>2. S \subseteq FiniteSubsetsOf(range) /\ S # {}
    <3>1. FiniteSubsetsOf(range) = SUBSET range
      BY <1>3, FS_FiniteSubsetsOfFinite
    <3>2. S \subseteq SUBSET range
      <4> HIDE DEF below, free, range
      <4> QED BY <2>1
    <3>3. S # {}
      <4> HIDE DEF below, free
      <4> QED BY <1>4
    <3> HIDE DEF S, range
    <3> QED BY <3>1, <3>2, <3>3
  <2>3. \E x \in S : \A y \in S : <<y, x>> \notin StrictSubsetOrdering(range)
    <3> HIDE DEF S
    <3> QED BY <2>2, FS_StrictSubsetOrderingWellFounded, WFMin
  <2> QED BY <2>3
<1>6. below(n) \subseteq used
  <2> SUFFICES ASSUME NEW m \in below(n), m \notin used PROVE FALSE
    OBVIOUS
  <2>1. m \in free /\ n \in Int /\ m < n
    BY <1>1
  <2>2. below(m) \subseteq below(n) /\ below(m) # below(n) /\ below(n) \subseteq range
    BY <1>1, <2>1
  <2>3. <<below(m), below(n)>> \in StrictSubsetOrdering(range)
    BY <2>2 DEF StrictSubsetOrdering
  <2> QED BY <1>5, <2>1, <2>3
<1>7. NextNonce(T) \in range
  BY <1>6 DEF NextNonce
<1> QED BY <1>1, <1>7

Troubled == late \cup robbed \cup abandoned

\* The accepted bundles that are neither late, robbed nor left unmined.
Clean == (Calls \cap sent) \ Troubled

NonceTypes ==
  /\ mined \in Nat
  /\ nonce \in [Txs -> Nat]
  /\ DOMAIN step = Txs
  /\ sent \subseteq Txs /\ pool \subseteq Txs /\ IsFiniteSet(pool)

\* A bundle is in its section from its nonce to its receipt, and is accepted on the way.
StepsAgree ==
  /\ \A c \in Calls : step[c] \in {"nonce", "write", "receipt"} => loc[c] = "inside"
  /\ \A c \in Calls \cap sent : step[c] \in {"receipt", "end"}

\* Each of them waits for its receipt in its section or has its nonce behind the account's
\* count; no two of one lock share a nonce.
NoncesApart ==
  /\ \A c \in Clean : step[c] = "receipt" \/ nonce[c] < mined
  /\ \A c, d \in Clean : c # d /\ lockScope[c] = lockScope[d] => nonce[c] # nonce[d]

\* A key that was taken by another call's DEL was taken by one that was late.
RobbedAfterLate == robbed # {} => late # {}

NonceInv == NonceTypes /\ StepsAgree /\ NoncesApart /\ RobbedAfterLate

LEMMA NonceInvInit == Init => NonceInv
<1> SUFFICES ASSUME Init PROVE NonceInv
  OBVIOUS
<1>1. nonce \in [Txs -> Nat] /\ mined \in Nat
  BY DEF Init
<1>2. DOMAIN step = Txs /\ sent = {} /\ pool = {} /\ robbed = {}
  BY DEF Init, LockInit
<1>3. \A c \in Calls : step[c] \notin {"nonce", "write", "receipt"}
  BY DEF Init, Txs
<1>4. NonceTypes
  BY <1>1, <1>2, FS_EmptySet DEF NonceTypes
<1> QED BY <1>2, <1>3, <1>4 DEF NonceInv, StepsAgree, NoncesApart, RobbedAfterLate, Clean

LEMMA RobbedStep == LockInv /\ LockMoves /\ RobbedAfterLate => RobbedAfterLate'
<1> SUFFICES ASSUME LockInv, LockMoves, RobbedAfterLate PROVE RobbedAfterLate'
  OBVIOUS
<1>1. ASSUME NEW c \in Calls, DelKey(c) PROVE RobbedAfterLate'
  <2>1. CASE late = {}
    <3>1. c \in Sound
      BY <1>1, <2>1 DEF DelKey, RobbedAfterLate, Sound, InSection, Section
    <3> QED BY <1>1, <2>1, <3>1 DEF DelKey, LockInv, Holds, RobbedAfterLate
  <2>2. CASE late # {}
    BY <1>1, <2>2 DEF DelKey, RobbedAfterLate
  <2> QED BY <2>1, <2>2
<1>2. late \subseteq late' /\ (robbed' = robbed \/ \E c \in Calls : DelKey(c))
  BY DEF LockMoves, lockVars, Acquire, LockStep, AcquireLocal, TrySet, ReleaseLocal, GetToken, DelKey,
    SetFails, FnSettles, Expire, Crash
<1> QED BY <1>1, <1>2 DEF RobbedAfterLate

\* Whatever leaves the nonces of accepted bundles and the account's count keeps them
\* apart, as long as a bundle leaves its section only mined or in trouble.
LEMMA ApartKept ==
  ASSUME NonceInv, lockScope' = lockScope, mined' \in Nat, mined <= mined',
         Clean' \subseteq Clean, \A c \in Clean : nonce'[c] = nonce[c],
         \A c \in Clean' : step'[c] = step[c] \/ nonce[c] < mined'
  PROVE  NoncesApart'
<1>1. \A c \in Clean : nonce[c] \in Nat
  BY DEF Clean, NonceInv, NonceTypes
<1> QED BY <1>1 DEF NoncesApart, NonceInv, NonceTypes

LEMMA TroubleStays == LockMoves => late \subseteq late' /\ robbed \subseteq robbed'
BY DEF LockMoves, lockVars, Acquire, LockStep, AcquireLocal, TrySet, ReleaseLocal, GetToken, DelKey,
  SetFails, FnSettles, Expire, Crash

\* The node takes a transaction.
LEMMA AcceptTypes ==
  ASSUME NonceTypes, NEW t \in Txs, Accept(t), mined' = mined, DOMAIN step' = Txs
  PROVE  NonceTypes'
<1>1. IsFiniteSet({u \in pool : nonce[u] # nonce[t]})
  BY FS_Subset DEF NonceTypes
<1>2. IsFiniteSet(pool')
  BY <1>1, FS_AddElement DEF Accept
<1> QED BY <1>2 DEF Accept, NonceTypes

\* Only a bundle in its section on time can be accepted, with a nonce not yet mined:
\* no other clean one of its scope is there, and those that left have lower nonces.
LEMMA WriteStep ==
  ASSUME LockInv, NonceInv, LockMoves, lockScope' = lockScope, NEW c \in Calls, WriteBundle(c)
  PROVE  NonceTypes' /\ StepsAgree' /\ NoncesApart'
<1>1. c \in Txs /\ c \notin sent /\ loc[c] = "inside" /\ mined' = mined
  BY DEF NonceInv, StepsAgree, WriteBundle, Txs
<1>2. DOMAIN step' = Txs
  BY DEF WriteBundle, Step, NonceInv, NonceTypes
<1>3. NonceTypes'
  <2>1. CASE Accept(c)
    BY <1>1, <1>2, <2>1, AcceptTypes DEF NonceInv
  <2>2. CASE Refuse(c)
    BY <1>1, <1>2, <2>2 DEF Refuse, NonceInv, NonceTypes
  <2> QED BY <2>1, <2>2 DEF WriteBundle
<1>4. StepsAgree'
  <2>1. \A d \in Calls \ {c} : step'[d] = step[d] /\ loc'[d] = loc[d] /\ (d \in sent' => d \in sent)
    <3>1. \A d \in Calls \ {c} : step'[d] = step[d]
      BY DEF WriteBundle, Step, NonceInv, NonceTypes, Txs
    <3>2. \A d \in Calls \ {c} : loc'[d] = loc[d]
      BY DEF WriteBundle, FnSettles, MoveTo, lockVars, LockInv
    <3>3. \A d \in Calls \ {c} : d \in sent' => d \in sent
      BY DEF WriteBundle, Accept, Refuse
    <3> QED BY <3>1, <3>2, <3>3
  <2>2. step'[c] \in {"receipt", "end"} /\ (step'[c] = "receipt" => loc'[c] = "inside")
    BY <1>1 DEF WriteBundle, Step, lockVars, NonceInv, NonceTypes
  <2> QED BY <2>1, <2>2 DEF StepsAgree, NonceInv
<1>5. late' = late /\ robbed' = robbed
  BY DEF WriteBundle, FnSettles, lockVars
<1>6. CASE c \notin Clean'
  <2>1. Clean' \subseteq Clean
    BY <1>5, <1>6 DEF Clean, Troubled, WriteBundle, Accept, Refuse
  <2>2. \A d \in Clean : nonce'[d] = nonce[d] /\ step'[d] = step[d]
    BY <1>1 DEF Clean, WriteBundle, Accept, Refuse, Step, NonceInv, NonceTypes, Txs
  <2> QED BY <1>1, <1>3, <1>4, <2>1, <2>2, ApartKept DEF NonceTypes
<1>7. CASE c \in Clean'
  <2>1. /\ nonce' = nonce /\ nonce[c] >= mined
        /\ step'[c] = "receipt" /\ Clean' \subseteq Clean \cup {c}
        /\ UNCHANGED lockVars
    <3>1. Accept(c) /\ Step(c, "receipt") /\ UNCHANGED <<lockVars, abandoned>>
      BY <1>1, <1>7 DEF WriteBundle, Refuse, Clean, Troubled
    <3> QED BY <1>1, <1>5, <3>1 DEF Accept, Step, Clean, Troubled, NonceInv, NonceTypes
  <2>2. c \in Sound
    BY <1>1, <1>5, <1>7 DEF Clean, Troubled, Sound, InSection, Section
  <2>3. ASSUME NEW d \in Clean, lockScope[d] = lockScope[c] PROVE nonce[d] < mined
    <3>1. d # c
      BY <1>1 DEF Clean
    <3>2. CASE step[d] = "receipt"
      <4>1. d \in Sound
        BY <3>2 DEF Clean, Troubled, Sound, InSection, Section, NonceInv, StepsAgree
      <4> QED BY <2>2, <2>3, <3>1, <4>1, Exclusive
    <3> QED BY <3>2 DEF NonceInv, NoncesApart
  <2>4. \A d \in Clean : step'[d] = step[d]
    BY <1>1 DEF Clean, WriteBundle, Step, NonceInv, NonceTypes
  <2>5. \A d \in Clean \cup {c} : nonce[d] \in Nat
    BY <1>1 DEF Clean, NonceInv, NonceTypes
  <2>6. \A d \in Clean : lockScope[d] = lockScope[c] => nonce[d] # nonce[c]
    BY <2>1, <2>3, <2>5 DEF NonceInv, NonceTypes
  <2> QED BY <1>1, <1>3, <1>4, <2>1, <2>4, <2>6 DEF NoncesApart, NonceInv
<1> QED BY <1>3, <1>4, <1>6, <1>7

\* The other steps of a bundle and those that no bundle takes.
LEMMA BundleMoves ==
  ASSUME LockInv, NonceInv, LockMoves, lockScope' = lockScope, NEW c \in Calls,
         Prepare(c) \/ EnterSection(c) \/ LockThrows(c) \/ AwaitReceipt(c) \/ LeaveSection(c)
  PROVE  NonceTypes' /\ StepsAgree' /\ NoncesApart'
<1>1. UNCHANGED <<nonce, pool, sent, mined>> /\ abandoned \subseteq abandoned'
  BY DEF Prepare, EnterSection, LockThrows, AwaitReceipt, LeaveSection, sendVars
<1>2. /\ DOMAIN step' = Txs
      /\ \A d \in Txs \ {c} : step'[d] = step[d]
      /\ step'[c] \in {step[c], "lock", "nonce", "end"}
  BY DEF Prepare, EstimateGas, EnterSection, LockThrows, AwaitReceipt, LeaveSection, sendVars, Step,
    NonceInv, NonceTypes, Txs
<1>3. \A d \in Calls \ {c} : loc'[d] = loc[d]
  BY DEF Prepare, EstimateGas, Acquire, EnterSection, AcquireLocal, TrySet, LockThrows, SetFails, AwaitReceipt,
    FnSettles, LeaveSection, ReleaseLocal, GetToken, DelKey, MoveTo, lockVars, LockInv
<1>4. NonceTypes'
  BY <1>1, <1>2 DEF NonceInv, NonceTypes
<1>5. /\ step'[c] \in {"nonce", "write", "receipt"} => loc'[c] = "inside"
      /\ c \in sent => step'[c] \in {"receipt", "end"}
  <2>1. CASE Prepare(c) \/ LockThrows(c) \/ AwaitReceipt(c)
    BY <2>1 DEF Prepare, EstimateGas, LockThrows, AwaitReceipt, Step, NonceInv, NonceTypes, StepsAgree, Txs
  <2>2. CASE EnterSection(c)
    BY <2>2 DEF EnterSection, AcquireLocal, TrySet, MoveTo, Step, NonceInv, NonceTypes, StepsAgree, LockInv, Txs
  <2>3. CASE LeaveSection(c)
    BY <2>3 DEF LeaveSection, ReleaseLocal, GetToken, DelKey, sendVars, NonceInv, StepsAgree
  <2> QED BY <2>1, <2>2, <2>3
<1>6. StepsAgree'
  BY <1>1, <1>2, <1>3, <1>5 DEF StepsAgree, NonceInv, Txs
<1>7. Clean' \subseteq Clean
  BY <1>1, TroubleStays DEF Clean, Troubled
<1>8. \A d \in Clean' : step'[d] = step[d] \/ nonce[d] < mined'
  <2>1. c \in Clean' => step'[c] = step[c] \/ nonce[c] < mined
    BY <1>1, <1>7 DEF Clean, Troubled, Prepare, EnterSection, LockThrows, AwaitReceipt, LeaveSection, sendVars,
      NonceInv, StepsAgree
  <2> QED BY <1>1, <1>2, <2>1 DEF Clean, Txs
<1>9. mined \in Nat
  BY DEF NonceInv, NonceTypes
<1> QED BY <1>1, <1>4, <1>6, <1>7, <1>8, <1>9, ApartKept

\* The nonce is read by a bundle that has not been accepted.
LEMMA ReadStep ==
  ASSUME LockInv, NonceInv, LockMoves, lockScope' = lockScope, NEW c \in Calls, ReadNonce(c)
  PROVE  NonceTypes' /\ StepsAgree' /\ NoncesApart'
<1>1. c \in Txs /\ c \notin sent /\ loc[c] = "inside"
  BY DEF NonceInv, StepsAgree, ReadNonce, Txs
<1>2. NextNonce(PublicPool) \in Nat
  <2>1. PublicPool \in SUBSET Txs /\ IsFiniteSet(PublicPool)
    BY FS_EmptySet DEF PublicPool, NonceInv, NonceTypes
  <2> QED BY <2>1, NextNonceIsNat DEF NonceInv, NonceTypes
<1>3. UNCHANGED <<pool, sent, mined, abandoned>>
  BY DEF ReadNonce
<1>4. NonceTypes'
  BY <1>1, <1>2, <1>3 DEF ReadNonce, Step, NonceInv, NonceTypes
<1>5. \A d \in Txs \ {c} : step'[d] = step[d] /\ nonce'[d] = nonce[d]
  BY DEF ReadNonce, Step, NonceInv, NonceTypes
<1>6. \A d \in Calls \ {c} : loc'[d] = loc[d]
  BY DEF ReadNonce, FnSettles, MoveTo, lockVars, LockInv
<1>7. step'[c] \in {"write", "end"} /\ (step'[c] = "write" => loc'[c] = "inside")
  BY <1>1 DEF ReadNonce, Step, lockVars, NonceInv, NonceTypes
<1>8. StepsAgree'
  BY <1>1, <1>3, <1>5, <1>6, <1>7 DEF StepsAgree, NonceInv, Txs
<1>9. Clean' \subseteq Clean
  BY <1>3, TroubleStays DEF Clean, Troubled
<1>10. \A d \in Clean : step'[d] = step[d] /\ nonce'[d] = nonce[d]
  BY <1>1, <1>5 DEF Clean, Txs
<1>11. mined \in Nat
  BY DEF NonceInv, NonceTypes
<1> QED BY <1>3, <1>4, <1>8, <1>9, <1>10, <1>11, ApartKept

LEMMA LiquidationMoves ==
  ASSUME LockInv, NonceInv, LockMoves, lockScope' = lockScope, NEW t \in Liquidations, LiquidationStep(t)
  PROVE  NonceTypes' /\ StepsAgree' /\ NoncesApart'
<1> USE SendersAssumption
<1>1. t \in Txs /\ t \notin Calls
  BY DEF Txs
<1>2. UNCHANGED <<lockVars, mined, abandoned>>
  BY DEF LiquidationStep, FillNonce, WriteLiquidation
<1>3. DOMAIN step' = Txs /\ \A d \in Calls : step'[d] = step[d]
  BY <1>1 DEF LiquidationStep, FillNonce, WriteLiquidation, Step, NonceInv, NonceTypes, Txs
<1>4. \A d \in Calls : nonce'[d] = nonce[d] /\ (d \in sent' <=> d \in sent)
  BY <1>1 DEF LiquidationStep, FillNonce, WriteLiquidation, Accept, Refuse, NonceInv, NonceTypes, Txs
<1>5. NonceTypes'
  <2>1. CASE FillNonce(t)
    <3>1. \A known \in {PublicPool, pool} : NextNonce(known) \in Nat
      <4>1. \A known \in {PublicPool, pool} : known \in SUBSET Txs /\ IsFiniteSet(known)
        BY FS_EmptySet DEF PublicPool, NonceInv, NonceTypes
      <4> QED BY <4>1, NextNonceIsNat DEF NonceInv, NonceTypes
    <3> QED BY <1>1, <1>3, <2>1, <3>1 DEF FillNonce, NonceInv, NonceTypes
  <2>2. CASE Accept(t)
    BY <1>1, <1>2, <1>3, <2>2, AcceptTypes DEF NonceInv
  <2>3. CASE Refuse(t)
    BY <1>1, <1>2, <1>3, <2>3 DEF Refuse, NonceInv, NonceTypes
  <2> QED BY <2>1, <2>2, <2>3 DEF LiquidationStep, WriteLiquidation
<1>6. StepsAgree'
  BY <1>2, <1>3, <1>4 DEF StepsAgree, NonceInv, lockVars
<1>7. Clean' = Clean
  BY <1>2, <1>4 DEF Clean, Troubled, lockVars
<1>8. \A d \in Clean : step'[d] = step[d] /\ nonce'[d] = nonce[d]
  BY <1>3, <1>4 DEF Clean
<1>9. mined \in Nat
  BY DEF NonceInv, NonceTypes
<1> QED BY <1>2, <1>5, <1>6, <1>7, <1>8, <1>9, ApartKept

\* A block is mined, a key expires, a process dies.
LEMMA EnvironmentMoves ==
  ASSUME LockInv, NonceInv, LockMoves, lockScope' = lockScope,
         UNCHANGED vars \/ Mine \/ KeyExpires \/ \E p \in Processes : ProcessDies(p)
  PROVE  NonceTypes' /\ StepsAgree' /\ NoncesApart'
<1>1. UNCHANGED <<nonce, sent>> /\ abandoned \subseteq abandoned'
  BY DEF vars, sendVars, Mine, KeyExpires, ProcessDies
<1>2. /\ mined' \in Nat /\ mined <= mined' /\ DOMAIN step' = Txs
      /\ pool' \subseteq pool
  BY DEF vars, sendVars, Mine, KeyExpires, ProcessDies, NonceInv, NonceTypes
<1>3. NonceTypes'
  BY <1>1, <1>2, FS_Subset DEF NonceInv, NonceTypes
<1>4. \A c \in Calls :
        \/ step'[c] = step[c] /\ loc'[c] = loc[c]
        \/ step'[c] = "end" /\ (step[c] = "receipt" => c \in abandoned')
  <2>1. CASE UNCHANGED vars \/ Mine \/ KeyExpires
    BY <2>1 DEF vars, sendVars, lockVars, Mine, KeyExpires, Expire
  <2>2. ASSUME NEW p \in Processes, ProcessDies(p), NEW c \in Calls
        PROVE  \/ step'[c] = step[c] /\ loc'[c] = loc[c]
               \/ step'[c] = "end" /\ (step[c] = "receipt" => c \in abandoned')
    BY <2>2 DEF ProcessDies, Crash, NonceInv, StepsAgree, Txs
  <2> QED BY <2>1, <2>2
<1>5. StepsAgree'
  BY <1>1, <1>4 DEF StepsAgree, NonceInv
<1>6. Clean' \subseteq Clean
  BY <1>1, TroubleStays DEF Clean, Troubled
<1>7. \A c \in Clean' : step'[c] = step[c] \/ nonce[c] < mined'
  <2> SUFFICES ASSUME NEW c \in Clean', step'[c] # step[c] PROVE nonce[c] < mined'
    OBVIOUS
  <2>1. c \in Clean /\ c \in Calls /\ step[c] # "receipt"
    BY <1>4, <1>6 DEF Clean, Troubled
  <2>2. nonce[c] < mined /\ nonce[c] \in Nat /\ mined \in Nat
    BY <2>1 DEF Clean, NonceInv, NoncesApart, NonceTypes
  <2> QED BY <1>2, <2>2
<1> QED BY <1>1, <1>2, <1>3, <1>5, <1>6, <1>7, ApartKept

LEMMA NonceInvStep == LockInv /\ NonceInv /\ [Next]_vars => NonceInv'
<1> SUFFICES ASSUME LockInv, NonceInv, [Next]_vars PROVE NonceInv'
  OBVIOUS
<1>1. LockMoves
  BY NextMovesLock
<1>2. lockScope' = lockScope
  BY <1>1, SoundStep
<1>3. RobbedAfterLate'
  BY <1>1, RobbedStep DEF NonceInv
<1>4. ASSUME NEW c \in Calls, BundleStep(c) \/ LockThrows(c)
      PROVE  NonceTypes' /\ StepsAgree' /\ NoncesApart'
  BY <1>1, <1>2, <1>4, BundleMoves, ReadStep, WriteStep DEF BundleStep
<1>5. ASSUME NEW t \in Liquidations, LiquidationStep(t)
      PROVE  NonceTypes' /\ StepsAgree' /\ NoncesApart'
  BY <1>1, <1>2, <1>5, LiquidationMoves
<1>6. CASE UNCHANGED vars \/ Mine \/ KeyExpires \/ \E p \in Processes : ProcessDies(p)
  BY <1>1, <1>2, <1>3, <1>6, EnvironmentMoves DEF NonceInv
<1> QED BY <1>3, <1>4, <1>5, <1>6 DEF Next, NonceInv

\* Of two accepted bundles with one nonce and one lock, preliq_sender.ts 95-134, one was
\* late, robbed or left unmined, for any number of bundles, liquidations and processes.
THEOREM NonceDisciplineCorrect == Spec => []NonceDiscipline
<1>1. NonceInv => NonceDiscipline
  BY DEF NonceInv, NoncesApart, RobbedAfterLate, Clean, Troubled, NonceDiscipline
<1> QED BY <1>1, NonceInvInit, NonceInvStep, LockInvHolds, PTL DEF Spec
=============================================================================
