---------------------------- MODULE MCInterfaces ----------------------------
(* Instances of Interfaces: what the sources have and what is exported.    *)
EXTENDS Interfaces

CONSTANTS name1, name2

Good(n) == [id |-> n, what |-> "good"]
Bad(n, what) == [id |-> n, what |-> what]
Avro(s) == [type |-> "avro", records |-> s]

(* A folder with every type of file, one with a file that cannot be read,  *)
(* one of one file, a file, one that does not exist, and a pattern.        *)
TwoAvro == <<Avro(<<Bad(1, "invalid"), Good(2), Good(3)>>), Avro(<<Bad(4, "anonymous"), Good(5)>>)>>
Csv == [type |-> "csv", records |-> <<Bad(6, "partial"), Good(7), Good(8)>>]
MCFolders ==
    [directory |-> TwoAvro \o <<Csv>>,
     pattern |-> <<Csv, [type |-> "unknown", records |-> <<Good(9)>>], Avro(<<Good(10)>>)>>,
     damaged |-> <<Avro(<<Good(11), Good(12)>>), [type |-> "broken", records |-> <<>>], Csv>>,
     single |-> <<Avro(<<Bad(16, "timeless"), Bad(17, "partial"), Good(18), Good(19)>>)>>,
     table |-> <<[type |-> "csv", records |-> <<Good(20), Good(21), Good(22)>>]>>,
     missing |-> <<>>,
     star |-> <<Avro(<<Good(13)>>)>>]
MCBeside == <<Avro(<<Good(14), Good(15)>>)>>

MCFixtures == <<Good(1), Bad(2, "partial"), Good(3), Bad(4, "invalid"), Good(5)>>
MCRocks == <<Bad(1, "unreachable"), Good(2), Good(3)>>
MCLoci == <<<<Good(1)>>, <<>>, <<Good(2), Good(3)>>, <<Good(4), Bad(5, "timeless")>>,
            <<Bad(6, "anonymous")>>, <<Bad(7, "partial"), Good(8)>>, <<Good(9)>>>>

(* Two alerts of one time, one out of order; SNRs that are missing, zero,  *)
(* give the default error, give it when stretched and give another one;    *)
(* ids that a double has and does not have; an alert two filters took.     *)
Alert(n, m, s, t, o, c) ==
    [id |-> n, mjd |-> m, snr |-> s, stretch |-> t, sso |-> o, copies |-> c]
MCTable == <<Alert(7, 2, Blank, 1, 1, 2), Alert(8, 2, 5, 1, 0, 1),
             Alert(9, 1, 10, 2, 1, 0), Alert(11, 3, 0, 3, 1, 1), Alert(10, 1, 25, 3, 0, 0)>>

(* Errors of which one is the default, and of which one is missing.        *)
Line(c, n, m, x, y) == [code |-> c, name |-> n, mjd |-> m, rmsRA |-> x, rmsDec |-> y]
MCListing == <<Line("X05", name1, 3, 10, 15), Line("ZZZ", Blank, 2, Blank, Blank),
               Line("X05", Blank, 2, 15, 20), Line(Blank, Blank, 1, Blank, Blank),
               Line("X05", Blank, Blank, Blank, Blank), Line("X05", Blank, 1, 10, Blank)>>

Opt(s, f, m, e) == [sso |-> s, filtered |-> f, from |-> m, sigma |-> e]
MCOptions == {Opt(FALSE, FALSE, Blank, 20), Opt(TRUE, FALSE, 2, 20), Opt(FALSE, TRUE, 2, 30),
              Opt(TRUE, TRUE, Blank, 20), Opt(FALSE, FALSE, 2, 30), Opt(FALSE, FALSE, Blank, 30)}
=============================================================================
