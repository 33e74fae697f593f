------------------------------- MODULE Senders -------------------------------
(***************************************************************************)
(* The transactions of one account: pre-liquidation bundles                  *)
(* (executor/preliq_executor.ts, preliq_sender.ts), which read the nonce,      *)
(* broadcast and await the receipt under the nonce lock, and liquidations      *)
(* (executor/send_tx.ts), which take no lock and await no receipt.            *)
(*                                                                         *)
(* The nonce is read from the public RPC.  A transaction given to a private    *)
(* relay is not in the public node's pending count until it is mined.         *)
(***************************************************************************)
EXTENDS NonceLock, Naturals

CONSTANTS Liquidations,  \* the calls of sendLiquidation
          Mixes          \* bound: the sets of calls that are made together

Txs == Calls \cup Liquidations

ASSUME SendersAssumption ==
  Mixes \subseteq SUBSET Txs /\ Calls \cap Liquidations = {}

VARIABLES privateRpc,  \* chain.privtx is configured
          step,        \* where each transaction is
          nonce,       \* the nonce it has read, while it has one
          pool,        \* accepted and not mined
          sent,        \* ever accepted
          mined,       \* the account's transaction count
          abandoned    \* bundles left by their call, accepted but not mined

sendVars == <<privateRpc, step, nonce, pool, sent, mined, abandoned>>
vars == <<lockVars, sendVars>>

TypeOK ==
  /\ LockTypeOK
  /\ privateRpc \in BOOLEAN
  /\ step \in [Txs -> {"start", "lock", "nonce", "write", "receipt", "end"}]
  /\ nonce \in [Txs -> Nat]
  /\ pool \subseteq sent /\ sent \subseteq Txs /\ abandoned \subseteq sent
  /\ mined \in Nat

Init ==
  /\ LockInit
  /\ privateRpc \in BOOLEAN
  /\ \E made \in Mixes : step = [t \in Txs |-> IF t \in made THEN "start" ELSE "end"]
  /\ nonce = [t \in Txs |-> 0]
  /\ pool = {} /\ sent = {} /\ abandoned = {}
  /\ mined = 0
-----------------------------------------------------------------------------
(* The node. *)

\* The first nonce from the account's count that no transaction of T has.
NextNonce(T) ==
  LET used == {nonce[t] : t \in T}
  IN CHOOSE n \in mined..(mined + Cardinality(T)) :
       n \notin used /\ (mined..(n - 1)) \subseteq used

PublicPool == IF privateRpc THEN {} ELSE pool

Step(t, s) == step' = [step EXCEPT ![t] = s]

\* The node takes t, in place of one with its nonce if there is one.
Accept(t) ==
  /\ nonce[t] >= mined
  /\ pool' = {u \in pool : nonce[u] # nonce[t]} \cup {t}
  /\ sent' = sent \cup {t}
  /\ UNCHANGED nonce

\* The write throws: the nonce it would have used goes with its call.
Refuse(t) ==
  /\ nonce' = [nonce EXCEPT ![t] = 0]
  /\ UNCHANGED <<pool, sent>>

Mine ==
  /\ \E t \in pool : nonce[t] = mined
  /\ pool' = {t \in pool : nonce[t] # mined}
  /\ mined' = mined + 1
  /\ UNCHANGED <<lockVars, privateRpc, step, nonce, sent, abandoned>>
-----------------------------------------------------------------------------
(* executePreLiquidation and sendPreLiqBundle.  A call that throws does so with  *)
(* HealthFactorNotBelowThreshold or with another error; both leave by one path.  *)

\* estimateContractGas answers before the lock is asked for; it may revert.
EstimateGas(c) ==
  \/ Acquire(c) /\ Step(c, "lock")
  \/ Step(c, "end") /\ UNCHANGED lockVars

\* Nothing is sent without repay shares, a quote and a profit.
Prepare(c) ==
  /\ step[c] = "start"
  /\ EstimateGas(c) \/ (Step(c, "end") /\ UNCHANGED lockVars)
  /\ UNCHANGED <<privateRpc, nonce, pool, sent, mined, abandoned>>

EnterSection(c) ==
  /\ step[c] = "lock"
  /\ AcquireLocal(c) \/ TrySet(c)
  /\ Step(c, "nonce")
  /\ UNCHANGED <<privateRpc, nonce, pool, sent, mined, abandoned>>

LockThrows(c) ==
  /\ step[c] = "lock"
  /\ SetFails(c)
  /\ Step(c, "end")
  /\ UNCHANGED <<privateRpc, nonce, pool, sent, mined, abandoned>>

\* getTransactionCount, blockTag pending, on the public RPC.
ReadNonce(c) ==
  /\ step[c] = "nonce"
  /\ \/ /\ nonce' = [nonce EXCEPT ![c] = NextNonce(PublicPool)]
        /\ Step(c, "write")
        /\ UNCHANGED lockVars
     \/ FnSettles(c) /\ Step(c, "end") /\ UNCHANGED nonce
  /\ UNCHANGED <<privateRpc, pool, sent, mined, abandoned>>

\* writeContract: accepted; accepted but the answer is an error; or refused.
WriteBundle(c) ==
  /\ step[c] = "write"
  /\ \/ Accept(c) /\ Step(c, "receipt") /\ UNCHANGED <<lockVars, abandoned>>
     \/ Accept(c) /\ abandoned' = abandoned \cup {c} /\ FnSettles(c) /\ Step(c, "end")
     \/ Refuse(c) /\ FnSettles(c) /\ Step(c, "end") /\ UNCHANGED abandoned
  /\ UNCHANGED <<privateRpc, mined>>

\* Mutant of AwaitReceipt: the lock is released once the transaction is accepted.
AwaitReceiptNot(c) ==
  /\ step[c] = "receipt"
  /\ FnSettles(c) /\ Step(c, "end")
  /\ UNCHANGED <<privateRpc, nonce, pool, sent, mined, abandoned>>

\* waitForTransactionReceipt: its nonce is mined, by it or by one that replaced it;
\* or the 120 s are over or a read fails.
AwaitReceipt(c) ==
  /\ step[c] = "receipt"
  /\ FnSettles(c) /\ Step(c, "end")
  /\ \/ nonce[c] < mined /\ UNCHANGED abandoned
     \/ abandoned' = abandoned \cup {c}
  /\ UNCHANGED <<privateRpc, nonce, pool, sent, mined>>

LeaveSection(c) ==
  /\ ReleaseLocal(c) \/ GetToken(c) \/ DelKey(c)
  /\ UNCHANGED sendVars

KeyExpires == Expire /\ UNCHANGED sendVars

\* What a dead process had accepted and not yet seen mined is left behind.
ProcessDies(p) ==
  LET mine == {c \in Calls : home[c] = p /\ loc[c] # "gone" /\ step[c] # "start"}
  IN /\ mine # {}
     /\ Crash(p)
     /\ step' = [t \in Txs |-> IF t \in Calls /\ home[t] = p THEN "end" ELSE step[t]]
     /\ abandoned' = abandoned \cup {c \in mine : step[c] = "receipt"}
     /\ UNCHANGED <<privateRpc, nonce, pool, sent, mined>>
-----------------------------------------------------------------------------
(* sendLiquidation. *)

\* The gas is estimated; then the wallet client fills the nonce in from the RPC it
\* writes to, which may know of the relay's transactions.
FillNonce(t) ==
  /\ step[t] = "start"
  /\ \/ /\ \E known \in {PublicPool, pool} :
             nonce' = [nonce EXCEPT ![t] = NextNonce(known)]
        /\ Step(t, "write")
     \/ Step(t, "end") /\ UNCHANGED nonce
  /\ UNCHANGED <<lockVars, privateRpc, pool, sent, mined, abandoned>>

WriteLiquidation(t) ==
  /\ step[t] = "write"
  /\ Accept(t) \/ Refuse(t)
  /\ Step(t, "end")
  /\ UNCHANGED <<lockVars, privateRpc, mined, abandoned>>
-----------------------------------------------------------------------------
BundleStep(c) ==
  \/ Prepare(c) \/ EnterSection(c) \/ ReadNonce(c) \/ WriteBundle(c)
  \/ AwaitReceipt(c) \/ LeaveSection(c)

LiquidationStep(t) == FillNonce(t) \/ WriteLiquidation(t)

Next ==
  \/ \E c \in Calls : BundleStep(c) \/ LockThrows(c)
  \/ \E t \in Liquidations : LiquidationStep(t)
  \/ Mine \/ KeyExpires
  \/ \E p \in Processes : ProcessDies(p)

Spec == Init /\ [][Next]_vars

\* RPC calls are answered or time out, timers run and the key's TTL ends; blocks
\* and crashes are owed by nobody.
FairSpec ==
  /\ Spec
  /\ \A c \in Calls : WF_vars(BundleStep(c))
  /\ WF_vars(KeyExpires)
-----------------------------------------------------------------------------
\* Two bundles that share a nonce: one of them outlived its key, lost it to another
\* call's DEL, was left unmined by its call, or they had no lock in common; and the
\* release's GET and DEL take nobody's key while every holder is on time
\* (preliq_sender.ts 95-134, nonce_lock.ts 41-57).
NonceDiscipline ==
  /\ \A c, d \in Calls \cap sent :
       c # d /\ nonce[c] = nonce[d] /\ lockScope[c] = lockScope[d] =>
         {c, d} \cap (late \cup robbed \cup abandoned) # {}
  /\ robbed # {} => late # {}

\* At most one on-time call at a time is in its section.
SoundIsExclusive == Mutex!Spec

\* Every bundle call ends, whoever dies holding the lock or never hears of its SET.
CallsEnd == \A c \in Calls : (step[c] = "lock") ~> (loc[c] = "gone")

\* For TLC: three bundles, two of them of one process.
MCHome == [c \in {"b1", "b2", "b3"} |-> IF c = "b3" THEN "p2" ELSE "p1"]
=============================================================================
