---------------------------- MODULE PaymentLedger ----------------------------
(***************************************************************************)
(* What the payment store promises, with no file, no lease and no clock:   *)
(* an authorization buys at most one entitlement, the entitlement never    *)
(* changes and is never forgotten, and everybody who is told what an       *)
(* authorization bought is told the same thing.  GrantStore implements it. *)
(***************************************************************************)
CONSTANTS Auth,     \* payment authorizations, named by payment.ID
          Grant,    \* the entitlements an authorization can buy
          NoGrant   \* nothing bought yet: not in Grant

VARIABLES entitlement,  \* what each authorization has bought
          told          \* the answers given: <<authorization, entitlement>>

ledgerVars == <<entitlement, told>>

LedgerInit ==
  /\ entitlement = [a \in Auth |-> NoGrant]
  /\ told = {}

\* The first settlement of an authorization fixes what it buys.
Buy(a, g) ==
  /\ entitlement[a] = NoGrant
  /\ entitlement' = [entitlement EXCEPT ![a] = g]
  /\ told' \in {told, told \cup {<<a, g>>}}

\* Any later presentation is told what was bought, whoever settled it.
Tell(a) ==
  /\ entitlement[a] # NoGrant
  /\ told' = told \cup {<<a, entitlement[a]>>}
  /\ UNCHANGED entitlement

LedgerNext == \E a \in Auth : Tell(a) \/ \E g \in Grant : Buy(a, g)

LedgerSpec == LedgerInit /\ [][LedgerNext]_ledgerVars
==============================================================================
