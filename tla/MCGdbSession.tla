----------------------------- MODULE MCGdbSession -----------------------------
EXTENDS GdbSession
MCRings == {<<"t1", "t2">>}
MCBad == {{}, {"t2"}}
================================================================================
