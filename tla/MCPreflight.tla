---------------------------- MODULE MCPreflight ----------------------------
(***************************************************************************)
(* A small device for Preflight: the partition a root writes, the one the  *)
(* write path is proven on, and a bootloader.                              *)
(***************************************************************************)
EXTENDS PreflightProps

CONSTANTS stock, patched

boot == [base |-> "boot", slot |-> "a"]
abl  == [base |-> "abl", slot |-> "a"]
misc == [base |-> "misc", slot |-> ""]

MCRoundtrip == misc
MCPartitions == {boot, misc}
BootloaderPartitions == {abl, misc}
MCBlocks == {stock, patched, Zero, Junk}

StockImage   == [head |-> stock, tail |-> stock]
PatchedShort == [head |-> patched, tail |-> Absent]

MCFactory == [p \in MCPartitions |-> StockImage]
BootloaderFactory == [p \in BootloaderPartitions |-> StockImage]
MCSources == {PatchedShort, StockImage}
MCPasses == [p \in MCPartitions |->
               IF p = boot THEN MCSources ELSE {StockImage}]
BootloaderPasses == [p \in BootloaderPartitions |->
               IF p = abl THEN MCSources ELSE {StockImage}]
MCBackups == {StockImage}
MCOverrides == [n \in {} |-> SAFE]
=============================================================================
