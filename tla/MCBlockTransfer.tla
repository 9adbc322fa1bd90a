--------------------------- MODULE MCBlockTransfer ---------------------------
(* No data, whole and partial segments, leading zeros, and data that fits    *)
(* the receiver's buffer but not when filled up to whole segments.           *)
EXTENDS BlockTransfer

Count(n) == [i \in 1..n |-> i]
MCPayloads == {<<>>, Count(7), [i \in 1..8 |-> IF i = 8 THEN 5 ELSE 0], Count(21), Count(24)}
MCAddr == <<12288, 1>>

\* The test vector of block.rs: the checksum of "123456789".
ASSUME Crc16([i \in 1..9 |-> 48 + i]) = 12739

\* The payloads satisfy what the proof of VerifiedIsSent assumes of them.
ASSUME ChecksumTells
=============================================================================
