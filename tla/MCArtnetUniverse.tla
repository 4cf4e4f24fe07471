-------------------------- MODULE MCArtnetUniverse --------------------------
(* Small instances of ArtnetUniverse for TLC.                              *)
EXTENDS ArtnetUniverse, TLC

CONSTANTS c1, c2, ap, sta

OffOn == {0, 1}

(* One controller on each of the two networks.                             *)
OneEach == (ap :> {c1}) @@ (sta :> {c2})
(* A single controller behind the access point.                            *)
OneOnAp == (ap :> {c1})
=============================================================================
