---------------------------- MODULE MCFileStores ----------------------------
(* Instances of FileStores.                                                *)
EXTENDS FileStores, TLC

CONSTANTS s1, s2, ssoA

(* Consumers and extracting processes are named by values that no          *)
(* definition tells apart.                                                 *)
Symmetry == Permutations(Procs) \cup Permutations(Writers)

Message(good, o, t) == [ok |-> good, source |-> s1, sso |-> o, time |-> t]

(* A message that does not decode, then a source that is associated, and   *)
(* whose association is updated.                                           *)
FourMessages == <<Message(FALSE, None, None), Message(TRUE, None, None),
                  Message(TRUE, ssoA, 1), Message(TRUE, ssoA, 2)>>

(* The columns of three records: two with the same ones in another order.  *)
(* All have column 2.                                                      *)
ThreeShapes == <<<<2, 1>>, <<1, 2>>, <<3, 2>>>>

(* Two alerts of one source and night, one of another.                     *)
Stamps(s, t) == [science |-> s, template |-> t]
ThreeCutouts == {[source |-> s1, night |-> 1, stamps |-> Stamps("fits", "fits")],
                 [source |-> s1, night |-> 1, stamps |-> Stamps("fits", "none")],
                 [source |-> s2, night |-> 2, stamps |-> Stamps("bad", "none")]}
TwoKinds == <<"science", "template">>
=============================================================================
