-------------------------- MODULE WorkspaceHistory --------------------------
(***************************************************************************)
(* What a workspace promises its clients, with every file, lock and        *)
(* temporary directory left out: one linear history of revisions that only *)
(* ever grows, and a commit that succeeds only against the history its     *)
(* client read (optimistic concurrency).  WorkspaceStore implements this.  *)
(*                                                                         *)
(* A revision identity hashes the identity of its parent, so an identity   *)
(* stands for the whole history behind it; a history is that sequence.     *)
(***************************************************************************)
EXTENDS Naturals, Sequences

CONSTANTS
  Clients,    \* processes working on one workspace directory
  Entry       \* what one revision adds to its parent

VARIABLES
  history,    \* the revisions from the init root to the current one
  view        \* the history each client last read or wrote

vars == <<history, view>>

Init ==
  /\ history = <<>>
  /\ view = [c \in Clients |-> <<>>]

\* By one entry; what was there before stays as it was.
Grows ==
  /\ history' \in Seq(Entry)
  /\ Len(history') = Len(history) + 1
  /\ \A n \in 1..Len(history) : history'[n] = history[n]

(* The init root, written once when the workspace is created.              *)
Create ==
  /\ history = <<>>
  /\ Grows
  /\ UNCHANGED view

Read(c) ==
  /\ view' = [view EXCEPT ![c] = history]
  /\ UNCHANGED history

Forget(c) ==
  /\ view' = [view EXCEPT ![c] = <<>>]
  /\ UNCHANGED history

(* A commit extends exactly the history its client read.  A migration goes *)
(* on from what it just wrote; any other client is done with its handle.    *)
Commit(c) ==
  /\ history # <<>>
  /\ view[c] = history
  /\ Grows
  /\ view' \in {[view EXCEPT ![c] = <<>>], [view EXCEPT ![c] = history']}

Next == Create \/ \E c \in Clients : Read(c) \/ Forget(c) \/ Commit(c)

Spec == Init /\ [][Next]_vars
=============================================================================
