--------------------------- MODULE MCDeviceAttach ---------------------------
EXTENDS DeviceAttach, TLC

CONSTANTS p1, p2, t1, t2

(* Two page tables, and an address that has none. *)
MCTableOf == (1 :> t1) @@ (2 :> t2)

(* A device of one page, of two, and one with its ranges elsewhere. *)
MCRanges == {<<<<1, p1>>>>, <<<<1, p1>>, <<2, p2>>>>, <<<<0, p1>>>>}

(* Devices of one page. *)
MCShortRanges == {<<<<1, p1>>>>, <<<<0, p1>>>>}

=============================================================================
