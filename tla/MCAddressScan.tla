---------------------------- MODULE MCAddressScan ----------------------------
(***************************************************************************)
(* Tables for model-checking AddressScan: the server's entry, and one for  *)
(* each address of any set of them.  Clients without an identifier and     *)
(* failures of LocalAlloc leave such tables, with any last offered address *)
(* of the pool.  Octets have two values, so there are 16 DWORDs: the pool  *)
(* is 4 .. 10, DWORDs 2 to 5, and the server has 7, DWORD 14, inside it.   *)
(***************************************************************************)
EXTENDS AddressScan

AllTables ==
  {<<ServerEntry>> \o SetToSeq({Entry(v, EmptyId) : v \in used}) :
      used \in SUBSET (Pool \ {DWIPtoValue(ServerAddress)})}
=============================================================================
