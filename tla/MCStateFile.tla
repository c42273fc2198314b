----------------------------- MODULE MCStateFile -----------------------------
(* Two writers and one unlocked reader on one state file. *)
EXTENDS StateFile, TLC

CONSTANTS poll, release, queue

MCProc == {poll, release, queue}
MCReader == {queue}
WriterSymmetry == Permutations({poll, release})
=============================================================================
