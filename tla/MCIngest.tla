------------------------------- MODULE MCIngest -------------------------------
(***************************************************************************)
(* Three requests, two with one text; one of these two and the third are    *)
(* uploads.  Five tokens overlapping by one stand for 400 overlapping by    *)
(* 80.  Numerals are binary, so that the                                    *)
(* third document already has points in common with the first: 1 before 10 *)
(* and 11 before 0 both read 110.                                          *)
(***************************************************************************)
EXTENDS Ingest

CONSTANTS r1, r2, r3

MCTextOf == [r \in Requests |-> IF r = r3 THEN "short" ELSE "long"]
MCTexts == {"long", "short"}
MCTokenCount == [t \in MCTexts |-> IF t = "long" THEN 9 ELSE 3]

(* Eleven chunks and one, in decimal: 1 before 10 and 11 before 0. *)
WideTokenCount == [t \in MCTexts |-> IF t = "long" THEN 42 ELSE 3]
===============================================================================
