----------------------------- MODULE MCUpdater -----------------------------
(* The instances of Updater that TLC checks.                               *)
EXTENDS Updater, Sequences

FourFiles == {"app", "dll", "lib", "service"}
Blobs == {"a1", "a2", "a3", "d1", "d2", "l1", "s1", "s2"}

(* Release 2 changes the app and the service, 3 the app and both           *)
(* libraries, which are then the same file.                                *)
ThreeReleases ==
  << [app |-> "a1", dll |-> "d1", lib |-> "l1", service |-> "s1"],
     [app |-> "a2", dll |-> "d1", lib |-> "l1", service |-> "s2"],
     [app |-> "a3", dll |-> "d2", lib |-> "d2", service |-> "s2"] >>

TwoReleases == SubSeq(ThreeReleases, 1, 2)
=============================================================================
