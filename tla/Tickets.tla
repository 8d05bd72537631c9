------------------------------ MODULE Tickets ------------------------------
(***************************************************************************)
(* What the login server promises the game server: a session is a ticket   *)
(* for one account.  It is issued once, admits at most one login, to the   *)
(* account it was issued for, and admits nobody once it has expired.       *)
(***************************************************************************)
CONSTANTS Sessions,   \* session numbers
          Ids,        \* account ids
          Gates,      \* logins at the game server that present a session
          None

VARIABLES ticket,     \* per session: none, valid, used or expired
          owner,      \* per session: the account it was issued for
          admitted    \* per gate: the account let in, and on which session

tvars == <<ticket, owner, admitted>>

NoTicket == [id |-> None, session |-> None]

Init ==
  /\ ticket = [s \in Sessions |-> "none"]
  /\ owner = [s \in Sessions |-> None]
  /\ admitted = [g \in Gates |-> NoTicket]

Issue(s, i) ==
  /\ ticket[s] = "none"
  /\ ticket' = [ticket EXCEPT ![s] = "valid"]
  /\ owner' = [owner EXCEPT ![s] = i]
  /\ UNCHANGED admitted

Redeem(s, g) ==
  /\ ticket[s] = "valid"
  /\ admitted[g] = NoTicket
  /\ ticket' = [ticket EXCEPT ![s] = "used"]
  /\ admitted' = [admitted EXCEPT ![g] = [id |-> owner[s], session |-> s]]
  /\ UNCHANGED owner

Expire(s) ==
  /\ ticket[s] \in {"valid", "used"}
  /\ ticket' = [ticket EXCEPT ![s] = "expired"]
  /\ UNCHANGED <<owner, admitted>>

Next ==
  \E s \in Sessions : \/ \E i \in Ids : Issue(s, i)
                      \/ \E g \in Gates : Redeem(s, g)
                      \/ Expire(s)

Spec == Init /\ [][Next]_tvars
=============================================================================
