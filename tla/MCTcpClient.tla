--------------------------- MODULE MCTcpClient ---------------------------
(* Small instances of TcpClient for TLC. *)
EXTENDS TcpClient, TLC

SocketSymmetry == Permutations(Socks) \cup Permutations(Receivers)
=============================================================================
