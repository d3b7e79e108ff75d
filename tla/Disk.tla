-------------------------------- MODULE Disk --------------------------------
(***************************************************************************)
(* What ata_read_sector and ata_write_sector promise their callers: a      *)
(* sector is read or written as a whole, at the address that was asked     *)
(* for, before the call returns.  A reset ends a call; the sector is then  *)
(* as it was before or as it was to be, never a mixture.                   *)
(***************************************************************************)
CONSTANTS Lbas,       \* addresses that callers use
          OnDisk,     \* those with a sector behind them
          Buffers,    \* contents of a sector
          Blank       \* a freshly formatted one

VARIABLES sectors,    \* OnDisk -> contents
          call        \* [op, lba, data, done], op "none" between calls

NoCall == [op |-> "none", lba |-> 0, data |-> Blank, done |-> FALSE]

Init == sectors = [l \in OnDisk |-> Blank] /\ call = NoCall

Begin ==
  /\ call = NoCall /\ UNCHANGED sectors
  /\ \E l \in Lbas :
       \/ call' = [op |-> "read", lba |-> l, data |-> Blank, done |-> FALSE]
       \/ \E d \in Buffers :
            call' = [op |-> "write", lba |-> l, data |-> d, done |-> FALSE]

Read ==
  /\ call.op = "read" /\ ~ call.done /\ call.lba \in OnDisk
  /\ call' = [op |-> "read", lba |-> call.lba, data |-> sectors[call.lba], done |-> TRUE]
  /\ UNCHANGED sectors

(* Nothing is promised of a write to an address without a sector. *)
Write ==
  /\ call.op = "write" /\ ~ call.done
  /\ call' = [op |-> "write", lba |-> call.lba, data |-> call.data, done |-> TRUE]
  /\ sectors' = [l \in OnDisk |-> IF l = call.lba THEN call.data ELSE sectors[l]]

Return == call.done /\ call' = NoCall /\ UNCHANGED sectors

Reset == call' = NoCall /\ UNCHANGED sectors

Next == Begin \/ Read \/ Write \/ Return \/ Reset

Spec == Init /\ [][Next]_<<sectors, call>>
=============================================================================
