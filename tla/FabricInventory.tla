--------------------------- MODULE FabricInventory ---------------------------
(***************************************************************************)
(* offchain/arb_fabric/inventory_manager.ts over one wallet and one token:   *)
(* a balance read from the chain is trusted for five seconds, lowered by      *)
(* recordFill as transactions are sent, and never reserved in between.  A     *)
(* read is stored when it comes back, over whatever recordFill did meanwhile. *)
(* Bridge intents are only appended to a file nobody reads back: of them      *)
(* remains that the append can throw.                                        *)
(***************************************************************************)
EXTENDS Naturals

CONSTANTS Workers, Balance,   \* what the wallet holds at first
          Unknown             \* no cached or read value

VARIABLES onChain,     \* balanceOf the wallet
          unmined,     \* sent transactions not mined yet, each of one unit
          cached,      \* the cache entry's balance
          fresh,       \* it is not older than 5 s
          readValue,   \* what a worker's balance read returned
          overlapped   \* history: some read did not see every fill

inventoryVars == <<onChain, unmined, cached, fresh, readValue, overlapped>>

InventoryTypeOK ==
  /\ onChain \in 0..Balance /\ unmined \in Nat
  /\ cached \in 0..Balance \cup {Unknown}
  /\ readValue \in [Workers -> 0..Balance \cup {Unknown}]
  /\ fresh \in BOOLEAN /\ overlapped \in BOOLEAN

InventoryInit ==
  /\ onChain = Balance /\ unmined = 0
  /\ cached = Unknown /\ fresh = FALSE
  /\ readValue = [w \in Workers |-> Unknown]
  /\ overlapped = FALSE

Trusted == cached # Unknown /\ fresh

\* The node answers balanceOf: unmined transactions are not in it.
BalanceAnswered(w) ==
  /\ readValue[w] = Unknown
  /\ readValue' = [readValue EXCEPT ![w] = onChain]
  /\ overlapped' = (overlapped \/ unmined > 0)
  /\ UNCHANGED <<onChain, unmined, cached, fresh>>

\* this.cache.set(key, { balance, fetchedAt: now, ... }) after the await.
StoreBalance(w) ==
  /\ cached' = readValue[w]
  /\ fresh' = TRUE
  /\ readValue' = [readValue EXCEPT ![w] = Unknown]
  /\ UNCHANGED <<onChain, unmined, overlapped>>

\* Mutant of RecordFill: the cached balance is left as it was.
RecordFillForgets ==
  /\ unmined' = unmined + 1
  /\ fresh' = (fresh \/ cached # Unknown)
  /\ overlapped' = (overlapped \/ \E w \in Workers : readValue[w] # Unknown)
  /\ UNCHANGED <<onChain, readValue, cached>>

\* The transaction is sent and recordFill(pair, token, 1) lowers the entry, to
\* zero at least, and renews it.
RecordFill ==
  /\ unmined' = unmined + 1
  /\ cached' = IF cached = Unknown \/ cached = 0 THEN cached ELSE cached - 1
  /\ fresh' = (fresh \/ cached # Unknown)
  /\ overlapped' = (overlapped \/ \E w \in Workers : readValue[w] # Unknown)
  /\ UNCHANGED <<onChain, readValue>>

\* Five seconds pass.
CacheAges ==
  /\ fresh
  /\ fresh' = FALSE
  /\ UNCHANGED <<onChain, unmined, cached, readValue, overlapped>>

\* A transaction is mined: it spends one unit, or reverts.
Mined ==
  /\ unmined > 0
  /\ unmined' = unmined - 1
  /\ onChain' \in {onChain} \cup {n \in 0..Balance : n = onChain - 1}
  /\ UNCHANGED <<cached, fresh, readValue, overlapped>>
=============================================================================
