--------------------------- MODULE MCTestMachine ---------------------------
(* A client with one module and one registry name of its own beside the    *)
(* default ones, five blocks of memory and a pointer cache of four slots,   *)
(* so that both can run out.                                                *)
EXTENDS TestMachine

(* A module or test has both fixtures or none. *)
AllOrNone == {<<FALSE, FALSE>>, <<TRUE, TRUE>>}
=============================================================================
