------------------------------ MODULE MCFlash -------------------------------
(***************************************************************************)
(* Two sectors of three words of one bit, a write buffer of three words;   *)
(* the guest writes to the last two words of the first sector and to the   *)
(* first of the second.  The data are named for their low byte.            *)
(* The NAND flash has two blocks of two pages of two half pages.           *)
(***************************************************************************)
EXTENDS FlashBoard

Codes == [ff |-> ARRAY, d50 |-> "clear_status", e8 |-> BUFFER,
          d40 |-> PROGRAM, d20 |-> ERASE, d60 |-> LOCK, d0 |-> "confirm",
          d01 |-> "none", d02 |-> "none"]
MCData == DOMAIN Codes
MCCount == [d \in MCData |-> CASE d = "d01" -> 2 [] d = "d02" -> 3 [] OTHER -> 4]
MCBitsOf == [d \in MCData |-> IF d = "d01" THEN {} ELSE Bits]

MCImage == [i \in 0 .. DeviceSize - 1 |-> <<15, 240, 255, 0>>[(i % 4) + 1]]
MCIDs == <<236, 118, 165, 192>>
=============================================================================
