---------------------------- MODULE RemoteWork -----------------------------
(***************************************************************************)
(* What CPU 0's shell may expect of its letters to CPU 1: each one makes   *)
(* its work run there once, in the order of the commands.                  *)
(***************************************************************************)
EXTENDS Naturals, Sequences

CONSTANT Requests

VARIABLES asked, served

RemoteInit == asked = <<>> /\ served = <<>>

Ask(r) == asked' = Append(asked, r) /\ UNCHANGED served

Serve ==
  /\ Len(served) < Len(asked)
  /\ served' = Append(served, asked[Len(served) + 1])
  /\ UNCHANGED asked

RemoteNext == (\E r \in Requests : Ask(r)) \/ Serve

RemoteSafety == RemoteInit /\ [][RemoteNext]_<<asked, served>>
=============================================================================
