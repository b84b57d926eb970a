----------------------------- MODULE MCBmcuFake -----------------------------
(* Small instances of BmcuFake.  "DONE" is the two-byte line <<D, E>>, the  *)
(* line buffer holds two or three bytes and a NUL, a poll takes two bytes   *)
(* at a time, and the FIFO holds two to four, so that lines straddle reads, *)
(* are cut by overflows and by the end of the buffer.                       *)
EXTENDS BmcuFakeRefines, TLC

MCByte == {"nul", "cr", "lf", "D", "E", "x"}
MCFewBytes == {"nul", "cr", "lf", "D", "E"}
MCDone == <<"D", "E">>
MCDoneLf == MCDone \o <<"lf">>
MCDoneCrLf == MCDone \o <<"cr", "lf">>
MCNoise == <<"x", "D", "lf">>
MCTaskLines == {MCDoneCrLf, MCNoise}
MCLong == <<"E", "E", "E", "lf">>
MCIrqLines == {MCDoneLf, MCLong}
=============================================================================
