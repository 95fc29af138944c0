---------------------------- MODULE WriteBehind ----------------------------
(***************************************************************************)
(* What the indexing pipeline promises about objects, without charts,      *)
(* threads or locks: an accepted object waits in memory, is written after  *)
(* every object accepted before it, at most once, and becomes durable with *)
(* a commit.  What is durable stays; a failed write loses one object or    *)
(* everything since the last commit; the end of a run loses what is not    *)
(* durable.                                                                *)
(***************************************************************************)
EXTENDS Naturals, Sequences

VARIABLES
  accepted, \* objects are numbered as they are offered: the last number
  pending,  \* accepted and not yet written
  stored,   \* written: what a search sees
  durable   \* what the next run will see

wbVars == <<accepted, pending, stored, durable>>

WBInit ==
  /\ accepted = 0
  /\ pending = <<>>
  /\ stored = <<>>
  /\ durable = <<>>

(* An object is offered; it may be one that is not to be stored. *)
Offer ==
  /\ accepted' = accepted + 1
  /\ UNCHANGED <<pending, stored, durable>>

(* Only the newest object can join, and only once. *)
Accept ==
  /\ \A i \in 1 .. Len(pending) : pending[i] < accepted
  /\ \A i \in 1 .. Len(stored) : stored[i] < accepted
  /\ pending' = Append(pending, accepted)
  /\ UNCHANGED <<accepted, stored, durable>>

Write(commits) ==
  /\ pending # <<>>
  /\ pending' = Tail(pending)
  /\ stored' = Append(stored, Head(pending))
  /\ durable' = IF commits THEN stored' ELSE durable
  /\ UNCHANGED accepted

CommitAll ==
  /\ durable' = stored
  /\ UNCHANGED <<accepted, pending, stored>>

(* A failure: of a write (its object is lost), of a transaction, of both. *)
Fail ==
  /\ \/ UNCHANGED pending
     \/ pending # <<>> /\ pending' = Tail(pending)
  /\ stored' \in {stored, durable}
  /\ UNCHANGED <<accepted, durable>>

EndOfRun ==
  /\ pending' = <<>>
  /\ stored' = durable
  /\ UNCHANGED <<accepted, durable>>

WBNext ==
  \/ Offer \/ Accept
  \/ \E commits \in BOOLEAN : Write(commits)
  \/ CommitAll \/ Fail \/ EndOfRun

WBSpec == WBInit /\ [][WBNext]_wbVars
=============================================================================
