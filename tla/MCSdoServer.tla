----------------------------- MODULE MCSdoServer -----------------------------
(* Well-formed requests of every kind, those our own client never sends      *)
(* included: unsized frames, wrong sizes, and segments out of the blue.      *)
EXTENDS SdoServerOpen

CONSTANTS name, flag, secret, ident, absent

MCObjects == {name, flag, secret, ident}
MCAddress == MCObjects \cup {absent}
MCDataType == {"VISIBLE_STRING", "UNSIGNED64", "BOOLEAN"}
MCFixedSize == [t \in MCDataType |->
    CASE t = "VISIBLE_STRING" -> 0 [] t = "UNSIGNED64" -> 8 [] t = "BOOLEAN" -> 1]
MCType == [o \in MCObjects |->
    CASE o = name   -> "VISIBLE_STRING"
      [] o = flag   -> "BOOLEAN"
      [] o \in {secret, ident} -> "UNSIGNED64"]
MCAccess == [o \in MCObjects |->
    CASE o = secret -> "Wo" [] o = ident -> "Const" [] OTHER -> "Rw"]

Fill(n, b) == [i \in 1..n |-> b]
MCInitialValue == [o \in MCObjects |->
    CASE o = name -> Fill(14, 1) [] o = flag -> <<0>> [] OTHER -> Fill(8, 1)]
MCPublished == {<<1>>, Fill(14, 1)}

MCRequests ==
    [cs : {"DownloadExpedited"}, addr : MCAddress, sized : {TRUE},
     data : {<<2>>, Fill(4, 2)}]
    \cup [cs : {"DownloadExpedited"}, addr : MCAddress, sized : {FALSE},
          data : {Fill(4, 2)}]
    \cup [cs : {"DownloadSegmented"}, addr : MCAddress, sized : BOOLEAN,
          size : {0, 8, 32, 33}]
    \cup [cs : {"UploadInitiate"}, addr : MCAddress]
    \cup [cs : {"UploadSegment"}, toggle : BOOLEAN]
    \cup [cs : {"Unknown"}, addr : {name}]
    \cup [cs : {"Segment"}, toggle : BOOLEAN, last : BOOLEAN,
          data : {<<>>, <<1>>, Fill(7, 1)}]
    \cup [cs : {"Abort"}, addr : {name}, code : {"General"}]
=============================================================================
