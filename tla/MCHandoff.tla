----------------------------- MODULE MCHandoff -----------------------------
(* Instances of Handoff for TLC. *)
EXTENDS Handoff, TLC

Browser(m, i, w) == [mobile |-> m, inApp |-> i, projectId |-> w]
MCDevices == {Browser(TRUE, TRUE, TRUE), Browser(TRUE, FALSE, FALSE)}
=============================================================================
