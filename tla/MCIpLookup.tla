----------------------------- MODULE MCIpLookup ----------------------------
(* IpLookup for TLC.                                                       *)
EXTENDS IpLookup

FewResults == {<<TRUE>>, <<TRUE, TRUE, TRUE>>, <<TRUE, FALSE, TRUE>>, <<FALSE>>}
OneOrNone == {<<TRUE>>, <<>>}
=============================================================================
