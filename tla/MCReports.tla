------------------------------ MODULE MCReports -----------------------------
EXTENDS Reports

(* Posts of either cooperation, of both, of none; tiers by label and at the *)
(* edges of the ladder in both units; with and without views, engagement,   *)
(* agency; and one with a missing metric.                                   *)
Post(type, level, fan, complete, price, views, eng, mcn) ==
  [type |-> type, level |-> level, fan |-> fan, complete |-> complete,
   price |-> price, views |-> views, eng |-> eng, mcn |-> mcn]
MCPosts ==
  { Post({"PAID"}, "tail", None, TRUE, 3, 2, 1, "a"),
    Post({"PAID"}, "base", 150, TRUE, 1, 0, 2, "a"),
    Post({"PAID", "SOFT"}, "unclear", 400, TRUE, 2, 1, 0, ""),
    Post({"SOFT"}, "unclear", 10000, TRUE, 2, 3, 3, "b"),
    Post({"SOFT"}, "unclear", 200000, TRUE, 1, 1, 1, "b"),
    Post({"SOFT"}, "head", 1000000, TRUE, 5, 1, 2, ""),
    Post({"SOFT"}, "koc", 400001, TRUE, 0, 2, 2, "a"),
    Post({}, "waist", 1000, TRUE, 4, 1, 1, "a"),
    Post({"PAID"}, "unclear", None, TRUE, 1, 2, 1, ""),
    Post({"PAID"}, "tail", 300, FALSE, 9, 9, 9, "a") }

(* Every way to divide up to 16 posts among up to 9 slices of the donut,    *)
(* largest first.                                                           *)
MCShares[n \in 0..16, most \in 0..16] ==
  IF n = 0 THEN {<<>>}
  ELSE UNION {{<<k>> \o rest : rest \in MCShares[n - k, k]} :
              k \in {j \in 1..most : j <= n}}
MCSlices == <<Post({"PAID"}, "head", None, TRUE, 1, 1, 1, ""),
              Post({"SOFT"}, "head", None, TRUE, 1, 1, 1, ""),
              Post({"PAID"}, "waist", None, TRUE, 1, 1, 1, ""),
              Post({"SOFT"}, "waist", None, TRUE, 1, 1, 1, ""),
              Post({"PAID"}, "tail", None, TRUE, 1, 1, 1, ""),
              Post({"SOFT"}, "tail", None, TRUE, 1, 1, 1, ""),
              Post({"PAID"}, "koc", None, TRUE, 1, 1, 1, ""),
              Post({"SOFT"}, "koc", None, TRUE, 1, 1, 1, ""),
              Post({}, "koc", None, TRUE, 1, 1, 1, "")>>
MCRows(shares) ==
  FoldLeft(LAMBDA rows, i : rows \o [j \in 1..shares[i] |-> MCSlices[i]],
           <<>>, [i \in DOMAIN shares |-> i])

MCAnalyses ==
  [rows : UNION {[1..n -> MCPosts] : n \in 0..2}, mode : {"label", "fanbase"}]
  \cup {[rows |-> MCRows(s), mode |-> "label"] :
          s \in {t \in UNION {MCShares[n, n] : n \in {3, 7, 13, 16}} : Len(t) <= 9}}

(* Up to two filled cells in the first columns of the block, over the       *)
(* header, one verdict row and a row below the data.                        *)
MCFilled == {F \in SUBSET ((1..3) \X (1..4)) : Cardinality(F) <= 2}
MCExports ==
  {[sheet |-> [rc \in F \cup {<<2, 0>>} |-> IF rc = <<2, 0>> THEN s ELSE "text"],
    verdicts |-> 2 :> v, overrides |-> 2 :> o] :
     F \in MCFilled, s \in {Blank, "missing", "note"},
     v \in {"matched", "missing"}, o \in {Blank, "matched", "missing"}}

(* A cell by its text: "LINK" is another spelling of "link".                *)
MCCell(text) == [text |-> text, key |-> IF text = "LINK" THEN "link" ELSE text]
MCRow(texts) == [c \in DOMAIN texts |-> MCCell(texts[c])]

(* What a model may answer: any fields, one unknown to the registry, in any *)
(* order, in columns up to one beyond the sample; of a header row without a *)
(* gap, with values under one, and with an empty column.                    *)
MCAnswers ==
  {a \in UNION {[1..n -> (Fields \cup {"x"}) \X (0..4)] : n \in 0..3} :
     \A i, j \in DOMAIN a : i # j => a[i][1] # a[j][1]}
MCProposed == {<<MCRow(<<"x", "LINK", "y">>)>>,
               <<MCRow(<<"x", "", "">>), MCRow(<<"", "", "">>), MCRow(<<"", "y", "">>),
                 MCRow(<<"", "", "z">>)>>}
MCProposals ==
  {[answer |-> a, sheet |-> [name |-> "s1", rows |-> rows], row |-> 1] :
     a \in MCAnswers, rows \in MCProposed}

(* Workbooks of one or two sheets; the header row stands above or below     *)
(* another row, and the last column lies outside the sample.                *)
MCHeader == {<<a, b, c, d>> : a \in {"", "name", "like", "x"}, b \in {"name", "LINK", "x"},
                              c \in {"", "name", "like"}, d \in {"", "name"}}
MCOther  == {<<"", "", "", "">>, <<"x", "name", "link", "">>}
MCBook(rows) == <<[name |-> "s1", rows |-> [i \in DOMAIN rows |-> MCRow(rows[i])]]>>
MCBooks  ==
  {MCBook(rows) : rows \in {<<h, o>> : h \in MCHeader, o \in MCOther}
                           \cup {<<o, h>> : h \in MCHeader, o \in MCOther}}
MCFront == [name |-> "s2",
            rows |-> <<MCRow(<<"x", "x", "", "">>), MCRow(<<"name", "x", "", "">>)>>]
MCColumns ==
  {f \in UNION {[K -> 1..3] : K \in {{"name", "link"}, {"name", "link", "like"}}} :
     \A k, l \in DOMAIN f : f[k] = f[l] => k = l}
MCMaps == [sheet : {"s1"}, row : 1..2, columns : MCColumns]
MCApprovals(books, maps) ==
  {a \in [kind : {"plog", "eff"}, wb : books, m : maps] :
     /\ Parse(a.kind, a.wb) = NoParse /\ Acceptable(a.kind, a.m.columns)
     /\ IsMapping(a.wb, a.m)}

(* The same book, one with other data, one behind another sheet, one with   *)
(* another header in the sample, one outside it, and one that spells a      *)
(* header in another way.                                                   *)
MCLater(wb, row) ==
  LET other == 3 - row IN
  { wb, <<MCFront>> \o wb,
    [wb EXCEPT ![1].rows[other] = MCRow(<<"x", "", "x", "">>)],
    [wb EXCEPT ![1].rows[row][4] = MCCell("link")],
    [wb EXCEPT ![1].rows[row][1] = MCCell("link")],
    [wb EXCEPT ![1].rows[row][2] = MCCell(IF @.text = "LINK" THEN "link" ELSE "LINK")] }
MCOnce ==
  {[approvals |-> <<a>>, later |-> [kind : {a.kind}, wb : MCLater(a.wb, a.m.row)]] :
     a \in MCApprovals(MCBooks, MCMaps)}

(* Two approvals: of one layout or two, of the same file or of files that   *)
(* differ in their data, of one kind or two; later files have both rows or  *)
(* one of them.                                                             *)
MCPairBooks ==
  {MCBook(<<<<"x", "y", "", "">>, <<"u", "v", "", "">>>>),
   MCBook(<<<<"x", "y", "", "">>, <<"1", "2", "3", "">>>>),
   MCBook(<<<<"1", "2", "3", "">>, <<"u", "v", "", "">>>>)}
MCPairMaps ==
  {m \in MCMaps : \/ m.columns \in [{"name", "link"} -> 1..2]
                  \/ m.columns = [name |-> 1, link |-> 2, like |-> 3]}
MCTwice ==
  {[approvals |-> <<a, b>>, later |-> [kind : {"plog", "eff"}, wb : MCPairBooks]] :
     a \in MCApprovals(MCPairBooks, MCPairMaps), b \in MCApprovals(MCPairBooks, MCPairMaps)}
MCMappings == MCOnce \cup MCTwice

MCVerdicts == {[status |-> "REVIEW", candidates |-> TRUE],
               [status |-> "REVIEW", candidates |-> FALSE],
               [status |-> "LINK_ERROR", candidates |-> TRUE],
               [status |-> "MATCH", candidates |-> TRUE]}
MCDialogues == UNION {[1..n -> MCVerdicts] : n \in 1..4}

=============================================================================
