------------------------------ MODULE FlashAgents ------------------------------
(***************************************************************************)
(* The flash agents (agents/), as far as the host can tell one from        *)
(* another, with pages of a few words.                                     *)
(***************************************************************************)
EXTENDS Flash

\* Pages are erased one by one and looked at; words are written one by one and
\* looked at.  These three differ in the registers they use, in how they find the
\* size of the flash, and one in where that lies.
Efr32bg2x ==
    [base |-> 0, starts |-> <<0, 2, 4, 6>>, chunk |-> 2, block |-> 1, aligned |-> 1,
     pad |-> "zero", empty |-> "nothing", sized |-> TRUE, rom |-> FALSE]
Nrf528xx == Efr32bg2x
Stm32f0xx == [Efr32bg2x EXCEPT !.base = 4]

\* Sectors of different sizes, one of which is erased in any case.
Stm32fxxx ==
    [Efr32bg2x EXCEPT !.starts = <<0, 1, 2, 5>>, !.empty = "page", !.sized = FALSE]

\* The boot ROM writes blocks, with what lies in the buffer behind the data.
Pico ==
    [Efr32bg2x EXCEPT !.starts = <<0, 4, 8>>, !.chunk = 4, !.block = 2, !.aligned = 2,
                      !.pad = "stale"]

\* The boot ROM, once it has run, writes whole pages.  (0 - 1) >> 12 pages is
\* more than it erases.
Lpc13xx ==
    [Efr32bg2x EXCEPT !.block = 2, !.aligned = 2, !.empty = "fails", !.sized = FALSE,
                      !.rom = TRUE]

\* A serial flash, written by blocks, from the start of a page.
Lpc43xxSpifi ==
    [Efr32bg2x EXCEPT !.starts = <<0, 4, 8>>, !.chunk = 4, !.block = 2, !.aligned = 4,
                      !.sized = FALSE]

\* The boot ROM writes any length from the start of a page.
Cc13xx == [Efr32bg2x EXCEPT !.aligned = 2, !.sized = FALSE]
================================================================================
