-------------------------- MODULE MCDeviceSession --------------------------
(***************************************************************************)
(* A small device for DeviceSession: one SAFE partition and one            *)
(* CATASTROPHIC one; a stock image, a patched one that stops short of the  *)
(* partition's end, and a bootloader.  On vbmeta no image at hand passes.  *)
(***************************************************************************)
EXTENDS SessionProps

CONSTANTS stock, patched, foreign

boot == [base |-> "boot", slot |-> "a"]
abl  == [base |-> "abl", slot |-> "a"]

vbmeta == [base |-> "vbmeta", slot |-> "a"]

MCPartitions == {boot, abl, vbmeta}
MCBlocks == {stock, patched, foreign, Zero, Junk}

StockImage   == [head |-> stock, tail |-> stock]
PatchedShort == [head |-> patched, tail |-> Absent]
PatchedFull  == [head |-> patched, tail |-> patched]
ForeignFull  == [head |-> foreign, tail |-> foreign]

MCFactory == [p \in MCPartitions |-> StockImage]
MCSources == {PatchedShort, PatchedFull, ForeignFull}
MCPasses == [p \in MCPartitions |->
               IF p = boot THEN {PatchedShort, PatchedFull} ELSE IF p = abl THEN {ForeignFull} ELSE {}]
MCBackups == {StockImage}

MCOverrides == [n \in {} |-> SAFE]
=============================================================================
