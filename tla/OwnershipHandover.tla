-------------------------- MODULE OwnershipHandover --------------------------
(***************************************************************************)
(* What a transfer promises, without requests, rows, records or clocks:     *)
(* ownership of a repository moves only along offers.  There is one offer   *)
(* at a time; it is withdrawn, or it is committed to, and from then on all   *)
(* that can happen is that its destination becomes the owner.               *)
(* Module RepositoryTransfer implements this specification.                 *)
(***************************************************************************)
CONSTANTS Owners, Transfers, None

VARIABLES
  owner,  \* who owns the repository
  phase,  \* how far each offer has come
  dest    \* to whom it is made

handoverVars == <<owner, phase, dest>>

Underway == {t \in Transfers : phase[t] \in {"open", "committed"}}

Init ==
  /\ owner \in Owners
  /\ phase = [t \in Transfers |-> "none"]
  /\ dest = [t \in Transfers |-> None]

Offer(t, o) ==
  /\ phase[t] = "none" /\ Underway = {}
  /\ phase' = [phase EXCEPT ![t] = "open"]
  /\ dest' = [dest EXCEPT ![t] = o]
  /\ UNCHANGED owner

Advance(t, from, to) == phase[t] = from /\ phase' = [phase EXCEPT ![t] = to]

Withdraw(t) == Advance(t, "open", "withdrawn") /\ UNCHANGED <<owner, dest>>

Commit(t) == Advance(t, "open", "committed") /\ UNCHANGED <<owner, dest>>

HandOver(t) ==
  /\ Advance(t, "committed", "done")
  /\ owner' = dest[t] /\ UNCHANGED dest

Next ==
  \E t \in Transfers :
    \/ \E o \in Owners : Offer(t, o)
    \/ Withdraw(t) \/ Commit(t) \/ HandOver(t)

Spec == Init /\ [][Next]_handoverVars
=============================================================================
