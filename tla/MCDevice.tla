------------------------------- MODULE MCDevice ------------------------------
(* The least and the greatest node-id, two errors with a bit of their own, a *)
(* history shorter than the emergencies, and fewer error objects than it.    *)
EXTENDS Device

MCIdentity == [sub \in 0..1 |-> [bit \in {0} |-> sub]]
MCErrors == {<<33072, 16>>, <<8192, 2>>}

\* TimeOfDay::encode and decode, at the limits of its 28 bits of milliseconds.
ASSUME \A ms \in {0, 255, 256, 86399999, 86400000, 268435455} : \A days \in {0, 255, 256, 65535} :
          DecodeTime(EncodeTime(ms, days)) = [milliseconds |-> ms, days |-> days]
=============================================================================
