-------------------------------- MODULE MCTrace --------------------------------
EXTENDS Trace
Src(id, size, val) == [bytes |-> <<8 * id + size>> \o val, means |-> Source(id, val)]
Pro(data) == [bytes |-> data, means |-> Protocol(data)]
\* "a" and the end of a line; a value that only begins like one; zeros; a value
\* that looks like the end of a sync, from hardware; a short and two long
\* protocol packets, the second as long as they get.
MCPackets ==
    {Src(0, 1, <<97>>), Src(0, 1, <<10>>), Src(0, 2, <<10, 1>>), Src(0, 3, <<0, 0, 0, 0>>),
     [bytes |-> <<6, 0, 128>>, means |-> Source(256, <<0, 128>>)],
     Pro(<<112>>), Pro(<<192, 0>>),
     Pro(<<192, 128, 128, 128, 128, 128, 128>>)}
================================================================================
