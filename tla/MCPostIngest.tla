---------------------------- MODULE MCPostIngest ----------------------------
(* Instances of PostIngest: what is ingested, copied and run.              *)
EXTENDS PostIngest

CONSTANT NoValue

Obs(m, e, s, o, r, obj) ==
    [mjd |-> m, ext |-> e, snr |-> s, sso |-> o, reassoc |-> r, source |-> 1, object |-> obj]

(* A candidate without SNR and one with, an extended alert of the same     *)
(* object, and a candidate with an SNR too low.                            *)
FourAlerts == <<Obs(9, 7, NoValue, 1, 1, 1), Obs(9, 5, 6, 1, 0, NoValue),
                Obs(8, 9, 6, 0, 1, 1), Obs(9, 3, 4, 1, 0, 1)>>

(* One name with two definitions: one limited, the other with the limit 0, *)
(* which is none.                                                          *)
TwoConfigs ==
    {[Filter("mine", {Cond("snr", ">=", 2), Cond("ext", "IS NULL", NoValue)})
        EXCEPT !.combine = "OR", !.limit = 1],
     [Filter("mine", {Cond("reassoc", "=", 1)}) EXCEPT !.limit = 0]}

(* A plugin of its own, and one that replaces a built-in class.            *)
TwoPlugins == {Entry("plugin", "plugin", "base_processor"),
               Entry("minimoon_candidates", "plugin", "mine")}

(* The daily run, a list that may have an unknown name in it, and whatever *)
(* is registered without saving; these two stop at the first failure.      *)
ThreeRequests ==
    {[names |-> <<"minimoon_candidates", "source_summary">>, window |-> 5,
      save |-> TRUE, stop |-> FALSE],
     [names |-> <<"reassociation_tracker", "plugin", "example">>, window |-> 5,
      save |-> TRUE, stop |-> TRUE],
     [names |-> NoValue, window |-> 5, save |-> FALSE, stop |-> TRUE]}
=============================================================================
