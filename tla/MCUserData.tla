----------------------------- MODULE MCUserData -----------------------------
(* Snapshots, RepoImport, Accounts and Notifications for TLC, side by side: a run
   picks one of them in its initial state and only that one takes steps.  They share
   the model values y and z, which keeps the symmetry group small. *)
EXTENDS Snapshots, RepoImport, Accounts, Notifications, TLC

CONSTANTS Parts, y1, y2, z1, z2

VARIABLE part

Init ==
    /\ part \in Parts
    /\ SnapInit /\ (part = "snapshots" \/ s3)
    /\ RepoInit /\ (part = "repos" \/ mounted = {})
    /\ AcctInit /\ NoteInit

Next ==
    \/ part = "snapshots" /\ SnapNext /\ UNCHANGED <<part, repoVars, acctVars, noteVars>>
    \/ part = "repos" /\ RepoNext /\ UNCHANGED <<part, snapVars, acctVars, noteVars>>
    \/ part = "accounts" /\ AcctNext /\ UNCHANGED <<part, snapVars, repoVars, noteVars>>
    \/ part = "notifications" /\ NoteNext /\ UNCHANGED <<part, snapVars, repoVars, acctVars>>

Spec == Init /\ [][Next]_<<part, snapVars, repoVars, acctVars, noteVars>>

\* No part tells apart the ids that stand for its rows, its jobs or its calls.
Symmetric == Permutations({y1, y2}) \cup Permutations({z1, z2})

=============================================================================
