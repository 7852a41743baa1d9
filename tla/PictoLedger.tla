---------------------------- MODULE PictoLedger ----------------------------
(***************************************************************************)
(* What the picto store promises, with no process, clock or transaction:   *)
(* a grant has a limit, it issues that many numbered tickets at most and   *)
(* only while it is open, and a ticket lets one call through, once.        *)
(***************************************************************************)
EXTENDS Integers

CONSTANTS
  Ids,        \* grants
  MaxUses     \* largest limit a grant may be given

VARIABLES
  standing,   \* standing[g]: "absent", "pending", "open" or "closed"
  limit,      \* limit[g]: tickets the grant may issue
  issued,     \* issued[g]: tickets issued so far
  served      \* <<g, n>>: ticket n of g has let a call through

ledger == <<standing, limit, issued, served>>

Init ==
  /\ standing = [g \in Ids |-> "absent"]
  /\ limit = [g \in Ids |-> 0]
  /\ issued = [g \in Ids |-> 0]
  /\ served = {}

Mint(g) ==
  /\ standing[g] = "absent"
  /\ \E s \in {"pending", "open"}, n \in 1..MaxUses :
       /\ standing' = [standing EXCEPT ![g] = s]
       /\ limit' = [limit EXCEPT ![g] = n]
  /\ UNCHANGED <<issued, served>>

Confirm(g) ==
  /\ standing[g] = "pending"
  /\ standing' = [standing EXCEPT ![g] = "open"]
  /\ UNCHANGED <<limit, issued, served>>

\* Closing is final, whoever does it; several grants may close at once.
Close(G) ==
  /\ \A g \in G : standing[g] \in {"pending", "open"}
  /\ standing' = [g \in Ids |-> IF g \in G THEN "closed" ELSE standing[g]]
  /\ UNCHANGED <<limit, issued, served>>

\* The last ticket closes the grant.
Issue(g) ==
  /\ standing[g] = "open"
  /\ issued[g] < limit[g]
  /\ issued' = [issued EXCEPT ![g] = @ + 1]
  /\ standing' = [standing EXCEPT ![g] =
                    IF issued[g] + 1 = limit[g] THEN "closed" ELSE "open"]
  /\ UNCHANGED <<limit, served>>

\* A ticket may be lost, never served twice.
Serve(g, n) ==
  /\ n \in 1..issued[g]
  /\ <<g, n>> \notin served
  /\ served' = served \union {<<g, n>>}
  /\ UNCHANGED <<standing, limit, issued>>

Next ==
  \/ \E g \in Ids : Mint(g) \/ Confirm(g) \/ Issue(g)
  \/ \E G \in SUBSET Ids : Close(G)
  \/ \E g \in Ids, n \in 1..MaxUses : Serve(g, n)

Spec == Init /\ [][Next]_ledger
=============================================================================
