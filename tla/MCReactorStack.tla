---------------------------- MODULE MCReactorStack ----------------------------
(***************************************************************************)
(* ReactorStack for TLC.  The reactor's clients are two sleepers; or two   *)
(* descriptors, the first with a reader and a writer, that reuse each      *)
(* other's key; or a sleeper and one descriptor, whose events and timers   *)
(* meet in one react().  Poller has three notifiers, so that one may be    *)
(* between its exchange and its write while two others call, and two       *)
(* threads that wait.                                                      *)
(***************************************************************************)
EXTENDS ReactorStack

CONSTANTS s1, s2, f1, f2, k1, k2, n1, n2, n3, w1, w2

MCSleeper    == {s1, s2}
MCFd         == {f1, f2}
MCKey        == {k1, k2}
MCDuration   == {1, 2}
MCWaiter     == {<<f1, "read">>, <<f1, "write">>, <<f2, "read">>}
MCClients    == {{s1, s2}, {f1, f2}, {s1, f2}}
MCNotifier   == {n1, n2, n3}
MCPollThread == {w1, w2}
=============================================================================
