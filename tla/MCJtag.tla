------------------------------- MODULE MCJtag -------------------------------
(* Jtag on a small instance. *)
EXTENDS Jtag

\* The target alone, behind another TAP, and in front of one, as connect_ti
\* finds the DAP in front of the ICEPICK.
Pads(irpre, irpost, drpre, drpost) ==
    [r \in {"IR", "DR"} |-> IF r = "IR" THEN [pre |-> irpre, post |-> irpost]
                            ELSE [pre |-> drpre, post |-> drpost]]
MCChains == {NoPads, Pads(0, 6, 0, 1), Pads(4, 0, 1, 0)}
MCCJtagArgs == {<<2, 9>>, <<0, 1>>}
=============================================================================
