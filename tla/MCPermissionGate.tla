-------------------------- MODULE MCPermissionGate --------------------------
(* A small instance of PermissionGate: one call of each kind. *)
EXTENDS PermissionGate, TLC

CONSTANTS write, terminal, read, editLeaf, editCore, runTests, readFile, banned

MCTools == {write, terminal, read}
MCCalls == {editLeaf, editCore, runTests, readFile, banned}

\* Two writes, one of them to a central file; a command the judge may clear; a
\* harmless read; a command a deny rule refuses.
MCToolOf == editLeaf :> write @@ editCore :> write @@ runTests :> terminal
            @@ readFile :> read @@ banned :> terminal

=============================================================================
