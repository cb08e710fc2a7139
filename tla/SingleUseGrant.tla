--------------------------- MODULE SingleUseGrant ---------------------------
(***************************************************************************)
(* What the authorization ledger promises, without files, locks or calls:  *)
(* a grant is issued once for one request, consumed at most once, and its  *)
(* handler runs at most once, only after the grant was consumed and for    *)
(* exactly the request it was issued for.                                  *)
(***************************************************************************)
EXTENDS Sequences, Naturals

CONSTANTS Grants, Requests, NoRequest

VARIABLES
  issuedFor,   \* the request each grant was issued for, NoRequest before
  revoked,     \* grants somebody revoked
  consumed,    \* grants that were used up
  executed     \* handler executions in order: <<grant, request>>

absVars == <<issuedFor, revoked, consumed, executed>>

Init ==
  /\ issuedFor = [g \in Grants |-> NoRequest]
  /\ revoked = {}
  /\ consumed = {}
  /\ executed = << >>

Issue(g, r) ==
  /\ issuedFor[g] = NoRequest
  /\ issuedFor' = [issuedFor EXCEPT ![g] = r]
  /\ UNCHANGED <<revoked, consumed, executed>>

Revoke(g) ==
  /\ issuedFor[g] # NoRequest
  /\ revoked' = revoked \cup {g}
  /\ UNCHANGED <<issuedFor, consumed, executed>>

Consume(g) ==
  /\ issuedFor[g] # NoRequest
  /\ g \notin consumed
  /\ consumed' = consumed \cup {g}
  /\ UNCHANGED <<issuedFor, revoked, executed>>

Execute(g) ==
  /\ g \in consumed
  /\ \A i \in DOMAIN executed : executed[i][1] # g
  /\ executed' = Append(executed, <<g, issuedFor[g]>>)
  /\ UNCHANGED <<issuedFor, revoked, consumed>>

Next ==
  \E g \in Grants : \/ \E r \in Requests : Issue(g, r)
                    \/ Revoke(g)
                    \/ Consume(g)
                    \/ Execute(g)

Spec == Init /\ [][Next]_absVars
=============================================================================
