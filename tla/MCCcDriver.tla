----------------------------- MODULE MCCcDriver -----------------------------
(* Two sources under every combination of options that changes the passes,   *)
(* and the mixtures of sources, assembler text and objects that matter.      *)
EXTENDS CcDriver

C(b) == [base |-> b, suf |-> "c"]
A(b) == [base |-> b, suf |-> "s"]
O(b) == [base |-> b, suf |-> "o"]
R(opts, items) == [opts |-> opts, items |-> items]

TwoOptions == {{}, {"c"}, {"O"}, {"O", "c"}, {"S"}, {"S", "O"}, {"P"}, {"E"}}
MCRuns == {R(o, <<C("a"), C("b")>>) : o \in TwoOptions}
          \cup {R({}, <<C("a")>>), R({}, <<A("a"), O("b")>>), R({}, <<O("a")>>),
                R({"c"}, <<C("a"), A("a")>>), R({"S"}, <<C("a"), A("a")>>),
                R({"P"}, <<C("a"), A("b")>>)}
MCMissing == {{}, {<<"a", "c">>}, {<<"a", "s">>}, {<<"a", "o">>, <<"b", "o">>}}
MCCrash == {2, 11}
=============================================================================
