------------------------------ MODULE NonceMutex ------------------------------
(***************************************************************************)
(* What a nonce lock promises: of the calls that compete for one account,    *)
(* at most one holds the lock at any time.  Calls compete within a scope.     *)
(***************************************************************************)
CONSTANTS Calls

VARIABLES scope,   \* where a call looks for its rivals; fixed
          owners   \* the calls that hold the lock of their scope

Init == owners = {}

Enter(c) ==
  /\ \A d \in owners : scope[d] # scope[c]
  /\ owners' = owners \cup {c}

Leave == owners' \subseteq owners

Next == UNCHANGED scope /\ (Leave \/ \E c \in Calls : Enter(c))

Spec == Init /\ [][Next]_<<scope, owners>>
=============================================================================
