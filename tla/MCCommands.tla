----------------------------- MODULE MCCommands -----------------------------
(***************************************************************************)
(* One run for the safety of the research commands.                        *)
(***************************************************************************)
EXTENDS RobustnessMatrix, TLC

(* Windows of six days, two with one name for the file; w3 is unusable.    *)
MCWindows == [l \in Labels |->
    CASE l = "w1" -> [start |-> 1, split |-> 4, end |-> 6]
      [] l = "w-2" -> [start |-> 2, split |-> 3, end |-> 6]
      [] l = "w_2" -> [start |-> 3, split |-> 4, end |-> 6]
      [] OTHER -> [start |-> 2, split |-> 2, end |-> 5]]

MCSlug == [c \in Codes \X Labels |-> IF c[2] = "w-2" THEN <<c[1], "w_2">> ELSE c]

(* Monthly rebalances; some months do not settle, or only one does.        *)
MCSettlements == {{1, 2, 4, 6}, {2, 3, 5}, {1, 3, 5}, {3}}

MCSigns ==
    LET table(a, b) == [f \in Factors |->
            [p \in Subperiods |-> IF f = "ep" THEN a ELSE IF p = "train" THEN b ELSE "negative"]]
    IN  {table("positive", "negative"), table("positive", "none"), table("negative", "positive")}

(* Legal files and files with one mistake each.                            *)
MCRawConfigs ==
    LET noRob == [on |-> FALSE, universes |-> {}, windows |-> {}, skip |-> {}]
        noSub == [on |-> FALSE, groups |-> {}, multipliers |-> {}, independent |-> {},
                  hypotheses |-> << >>, minRebalances |-> 1]
        rob(us, ws, skip) == [on |-> TRUE, universes |-> us, windows |-> ws, skip |-> skip]
        sub(ind, hyp, k) == [on |-> TRUE, groups |-> {{"ep"}, Factors}, multipliers |-> {1, 2},
                             independent |-> ind, hypotheses |-> hyp, minRebalances |-> k]
        file(r, s) == [source |-> "tushare", model |-> "ic_weighted", code |-> "i", own |-> "w1",
                       oos |-> TRUE, overwrite |-> TRUE, robustness |-> r, subset |-> s]
        Both == {"i", "j"}
        Signed == ("ep" :> "positive") @@ ("vol" :> "negative")
        Grid == rob(Both, {"w1"}, {})
        Legal ==
            {file(r, noSub) : r \in {noRob, Grid, rob({"i"}, {"w1", "w-2"}, {<<"i", "w1">>})}}
            \cup {file(Grid, sub(ind, Signed, 2)) : ind \in {{}, {<<"i", "w1">>}, {<<"i", "w1">>, <<"j", "w1">>}}}
            \cup {file(rob(Both, {"w-2"}, {<<"j", "w-2">>}), sub({<<"i", "w-2">>}, h, k)) :
                     h \in {Signed, << >>}, k \in {1, 3}}
            \cup {[file(rob({"i"}, {"w-2", "w_2"}, {}), noSub) EXCEPT !.overwrite = o] :
                     o \in BOOLEAN}
        plain == file(Grid, sub({}, Signed, 2))
        Wrong ==
            {[plain EXCEPT !.source = "demo"], [plain EXCEPT !.model = "equal_weight"],
             [plain EXCEPT !.oos = FALSE], [plain EXCEPT !.own = "w3"]}
            \cup {file(r, noSub) : r \in {rob({}, {"w1"}, {}), rob(Both, {"w3"}, {}),
                                          rob(Both, {"w1"}, {<<"i", "w-2">>}),
                                          rob({"i"}, {"w1"}, {<<"i", "w1">>})}}
            \cup {file(rob(Both, {"w1"}, {<<"j", "w1">>}), sub({<<"j", "w1">>}, Signed, 2)),
                  file(noRob, sub({<<"i", "w1">>}, Signed, 2)),
                  file(Grid, sub({}, ("size" :> "positive"), 2))}
            \cup {[plain EXCEPT !.subset.groups = g] : g \in {{}, {{}}, {{"size"}}}}
            \cup {[plain EXCEPT !.subset.multipliers = {2}], [plain EXCEPT !.subset.minRebalances = 0]}
    IN  Legal \cup Wrong
=============================================================================
