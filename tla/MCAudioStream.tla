----------------------------- MODULE MCAudioStream -----------------------------
(***************************************************************************)
(* An instance of AudioStream with headers of two bits.                    *)
(***************************************************************************)
EXTENDS AudioStream

(* A late handshake packet, and a datagram whose bytes say something else. *)
MCStrays == {0, 3}
================================================================================
