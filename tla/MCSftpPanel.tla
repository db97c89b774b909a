----------------------------- MODULE MCSftpPanel -----------------------------
(***************************************************************************)
(* SftpPanel with two hosts, a folder and a file.  Hosts and sockets are   *)
(* interchangeable: no action and no property names one of them.           *)
(***************************************************************************)
EXTENDS SftpPanel, TLC

Renamings == Permutations(Hosts) \cup Permutations(Sockets)
=============================================================================
