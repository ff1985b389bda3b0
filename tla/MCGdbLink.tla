------------------------------- MODULE MCGdbLink -------------------------------
EXTENDS GdbLink, TLC
\* c; ?; QStartNoAckMode; qRcmd; g; and one that is too long, by one character.
MCGo == <<99>>
MCQuery == <<63>>
MCNoAck == <<81, 78>>
MCRcmd == <<113, 49>>
MCRegs == <<103>>
MCLong == <<77, 48, 48, 48, 58, 48, 48, 48, 49>>
MCCommands == {MCGo, MCQuery, MCNoAck, MCRcmd, MCRegs, MCLong}
MCOk == <<79, 75>>
MCStop == <<83, 48, 53>>
MCReplies ==
    (MCGo :> <<>>) @@ (MCQuery :> <<MCStop>>) @@ (<<Dollar>> :> <<MCStop>>)
    @@ (MCNoAck :> <<MCOk>>) @@ (MCRcmd :> << <<79, 104, 105>>, MCOk>>)
    @@ (MCRegs :> << <<48, 49, 48, 50, 48, 51>> >>) @@ (MCLong :> <<MCOk>>)
\* "$", ^C, a digit and a letter.  Not "#": see the README on checksums that are no digits.
MCNoise == {36, 3, 48, 120}
================================================================================
