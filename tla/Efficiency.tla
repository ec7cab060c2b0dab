----------------------------- MODULE Efficiency -----------------------------
(***************************************************************************)
(* The numbers of the KOL efficiency report (app/efficiency/analysis.py):  *)
(* classification of posts, metrics of a group computed along two paths,   *)
(* and the cross-checks that have to pass before anything is drawn.        *)
(*                                                                         *)
(* A post is a record                                                      *)
(*   type      the cooperation words its TYPE cell contains                *)
(*   level     the tier word of its LEVEL cell, or "unclear"               *)
(*   fan       the number in its FAN BASE cell, or None                    *)
(*   complete  no metric cell is empty                                     *)
(*   price, views, eng   PRICE, IMPRESSION and TTL ENGAGEMENT              *)
(*   mcn       the agency (letter case folded), or ""                      *)
(* Ratios are exact: <<numerator, denominator>>, and None where the report *)
(* draws no bar.  Shares count tenths of a percent, the precision          *)
(* share_decimals = 1 that no request can change; likewise the policy on   *)
(* missing values is always to exclude the row, so no finding blocks.      *)
(***************************************************************************)
EXTENDS Integers, Sequences, FiniteSets

CONSTANT None

(* None is no number, no name and no pair of them. *)
ASSUME NoneAssumption ==
  /\ None \notin Int
  /\ None \notin {"TOP", "MID", "BOT", "KOC", "PAID", "SOFT"}
  /\ None \notin Int \X Int /\ None \notin {"TOP", "MID", "BOT", "KOC"} \X {"PAID", "SOFT"}

NoAgency == ""

Posts == [type : SUBSET STRING, level : STRING, fan : Int \cup {None}, complete : BOOLEAN,
          price : Int, views : Int, eng : Int, mcn : STRING]

Tiers == {"TOP", "MID", "BOT", "KOC"}
Coops == {"PAID", "SOFT"}

-----------------------------------------------------------------------------
(* Classification. *)

(* Seeded bug: the cutoff itself is read as thousands. *)
FollowersCutoff(v) == IF v > 10000 THEN v ELSE 1000 * v
(* FAN BASE is in thousands, except where that cannot be. *)
Followers(v) == IF v >= 10000 THEN v ELSE 1000 * v

TierFromFanbase(f) ==
  CASE f >= 1000000                 -> "TOP"
    [] f > 400000 /\ f < 1000000    -> "MID"
    [] f > 200000 /\ f <= 400000    -> "BOT"
    [] OTHER                        -> "KOC"

(* Tail and base are one tier; both LEVEL vocabularies are in use. *)
TierOfLevel ==
  [head |-> "TOP", waist |-> "MID", tail |-> "BOT", base |-> "BOT", koc |-> "KOC"]

Tier(p, mode) ==
  IF mode = "label" /\ p.level \in DOMAIN TierOfLevel THEN TierOfLevel[p.level]
  ELSE IF p.fan = None THEN None
  ELSE TierFromFanbase(Followers(p.fan))

Coop(p) == IF "PAID" \in p.type THEN "PAID"
           ELSE IF "SOFT" \in p.type THEN "SOFT" ELSE None

(* Row.group *)
GroupOf(p, mode) ==
  IF Tier(p, mode) = None \/ Coop(p) = None THEN None
  ELSE <<Tier(p, mode), Coop(p)>>

(* V2: a row with a missing metric is excluded from all of them.  Groups are *)
(* sets of row numbers from here on.                                         *)
Active(rows) == {i \in DOMAIN rows : rows[i].complete}

-----------------------------------------------------------------------------
(* Metrics. *)

Prices(rows)      == [i \in DOMAIN rows |-> rows[i].price]
Views(rows)       == [i \in DOMAIN rows |-> rows[i].views]
Engagements(rows) == [i \in DOMAIN rows |-> rows[i].eng]

SumOf(column) ==
  LET upto[n \in 0..Len(column)] == IF n = 0 THEN 0 ELSE upto[n - 1] + column[n]
  IN  upto[Len(column)]
Total(column, S) == SumOf([i \in DOMAIN column |-> IF i \in S THEN column[i] ELSE 0])
With(unit, S)    == {i \in S : unit[i] > 0}

Ratio(n, d)  == IF d = 0 THEN None ELSE <<n, d>>
SameRatio(a, b) ==
  IF a = None \/ b = None THEN a = b ELSE a[1] * b[2] = b[1] * a[2]
AtMost(a, b) == a[1] * b[2] <= b[1] * a[2]

(* _mean of price per unit over posts that have units. *)
MeanRatio(scale, price, unit, S) ==
  LET upto[n \in 0..Len(price)] ==
        IF n = 0 THEN <<0, 1>>
        ELSE LET q == upto[n - 1]
             IN  IF n \in S THEN <<q[1] * unit[n] + scale * price[n] * q[2], q[2] * unit[n]>>
                 ELSE q
      sum == upto[Len(price)]
  IN  Ratio(sum[1], sum[2] * Cardinality(S))

(* Seeded bug: posts without views are paid for by the others. *)
PooledOverAll(scale, price, unit, S) == Ratio(scale * Total(price, S), Total(unit, S))
(* Total spend over total units, of the posts that have units. *)
Pooled(scale, price, unit, S) ==
  Ratio(scale * Total(price, With(unit, S)), Total(unit, With(unit, S)))

PerPost(scale, price, unit, S) == MeanRatio(scale, price, unit, With(unit, S))

Metrics(rows, S) ==
  LET price == Prices(rows)
      views == Views(rows)
      eng   == Engagements(rows)
  IN  [n |-> Cardinality(S), spend |-> Total(price, S),
       avgPrice   |-> Ratio(Total(price, S), Cardinality(S)),
       cpmPooled  |-> Pooled(1000, price, views, S), cpePooled  |-> Pooled(1, price, eng, S),
       cpmPerPost |-> PerPost(1000, price, views, S), cpePerPost |-> PerPost(1, price, eng, S)]

(* compute_metrics: tier by tier, cooperation by cooperation. *)
Members(rows, mode, t, c) ==
  {i \in Active(rows) : Tier(rows[i], mode) = t /\ Coop(rows[i]) = c}
Groups(rows, mode) ==
  [g \in {h \in Tiers \X Coops : Members(rows, mode, h[1], h[2]) # {}} |->
     Metrics(rows, Members(rows, mode, g[1], g[2]))]

Unclassified(rows, mode) == {i \in Active(rows) : GroupOf(rows[i], mode) = None}

(* _mcn_metrics: an agency has no CPM. *)
Clients(rows, a) == {i \in Active(rows) : rows[i].mcn = a}
AgencyFigures(rows, S) ==
  [n |-> Cardinality(S), spend |-> Total(Prices(rows), S),
   cpePooled  |-> Pooled(1, Prices(rows), Engagements(rows), S),
   cpePerPost |-> PerPost(1, Prices(rows), Engagements(rows), S)]
Agencies(rows) ==
  [a \in {rows[i].mcn : i \in Active(rows)} \ {NoAgency} |->
     AgencyFigures(rows, Clients(rows, a))]

(* compute_metrics_pandas: one frame, grouped by the value of a column; a   *)
(* figure is undefined where no post has units.                             *)
Mean(scale, price, unit, S) ==
  IF With(unit, S) = {} THEN None ELSE PerPost(scale, price, unit, S)
Quotient(scale, price, unit, S) ==
  IF With(unit, S) = {} THEN None
  ELSE <<scale * Total(price, With(unit, S)), Total(unit, With(unit, S))>>
FrameOfGroups(rows, mode) ==
  LET price == Prices(rows)
      views == Views(rows)
      eng   == Engagements(rows)
      Figures(S) ==
        [n |-> Cardinality(S), avgPrice |-> <<Total(price, S), Cardinality(S)>>,
         cpmPooled  |-> Quotient(1000, price, views, S),
         cpePooled  |-> Quotient(1, price, eng, S),
         cpmPerPost |-> Mean(1000, price, views, S), cpePerPost |-> Mean(1, price, eng, S)]
  IN  [g \in {GroupOf(rows[i], mode) : i \in Active(rows)} \ {None} |->
         Figures({i \in Active(rows) : GroupOf(rows[i], mode) = g})]
FrameOfAgencies(rows) ==
  LET price == Prices(rows)
      eng   == Engagements(rows)
      Figures(S) ==
        [n |-> Cardinality(S), spend |-> Total(price, S),
         cpePooled |-> Quotient(1, price, eng, S), cpePerPost |-> Mean(1, price, eng, S)]
  IN  [a \in {rows[i].mcn : i \in Active(rows)} \ {NoAgency} |->
         Figures({i \in Active(rows) : rows[i].mcn = a})]

-----------------------------------------------------------------------------
(* The cross-checks. *)

(* diff: every figure of the second path is that of the first.  A share is  *)
(* the same expression of n on both paths.                                  *)
SameOfGroup(first, second) ==
  /\ first.n = second.n
  /\ SameRatio(first.avgPrice, second.avgPrice)
  /\ SameRatio(first.cpmPooled, second.cpmPooled)
  /\ SameRatio(first.cpePooled, second.cpePooled)
  /\ SameRatio(first.cpmPerPost, second.cpmPerPost)
  /\ SameRatio(first.cpePerPost, second.cpePerPost)
SameOfAgency(first, second) ==
  /\ first.n = second.n /\ first.spend = second.spend
  /\ SameRatio(first.cpePooled, second.cpePooled)
  /\ SameRatio(first.cpePerPost, second.cpePerPost)

(* verify_dual_path *)
DualPathAgrees(rows, mode) ==
  LET groups   == FrameOfGroups(rows, mode)
      agencies == FrameOfAgencies(rows)
  IN  /\ DOMAIN Groups(rows, mode) = DOMAIN groups
      /\ \A g \in DOMAIN groups : SameOfGroup(Groups(rows, mode)[g], groups[g])
      /\ DOMAIN Agencies(rows) = DOMAIN agencies
      /\ \A a \in DOMAIN agencies : SameOfAgency(Agencies(rows)[a], agencies[a])

(* Rounding of a share to tenths of a percent.  A tie goes either way: which *)
(* depends on the parity of the digit and on the binary fraction.            *)
ShareUp(c, n)   == (2000 * c + n) \div (2 * n)
ShareDown(c, n) == -((n - 2000 * c) \div (2 * n))

(* Seeded bug: the tolerance does not grow with the number of slices. *)
FixedTolerance(sum, slices) == sum - 1000 \in -3..3
Tolerated(sum, slices) == 2 * (sum - 1000) \in -slices..slices

(* verify_reconciliation, whichever way the ties are rounded.  The slices of *)
(* the donut: the groups and the posts without one.                          *)
Slices == <<<<"TOP", "SOFT">>, <<"TOP", "PAID">>, <<"MID", "SOFT">>, <<"MID", "PAID">>,
            <<"BOT", "SOFT">>, <<"BOT", "PAID">>, <<"KOC", "SOFT">>, <<"KOC", "PAID">>, None>>
Reconciles(rows, mode) ==
  LET groups == Groups(rows, mode)
      loose  == Unclassified(rows, mode)
      Drawn  == {k \in DOMAIN Slices :
                   IF Slices[k] = None THEN loose # {} ELSE Slices[k] \in DOMAIN groups}
      count  == [k \in DOMAIN Slices |->
                   IF Slices[k] = None THEN Cardinality(loose)
                   ELSE IF k \in Drawn THEN groups[Slices[k]].n ELSE 0]
      spend  == [k \in DOMAIN Slices |->
                   IF Slices[k] = None THEN Total(Prices(rows), loose)
                   ELSE IF k \in Drawn THEN groups[Slices[k]].spend ELSE 0]
      up     == [k \in DOMAIN Slices |-> ShareUp(count[k], Cardinality(Active(rows)))]
      down   == [k \in DOMAIN Slices |-> ShareDown(count[k], Cardinality(Active(rows)))]
  IN  /\ SumOf(count) = Cardinality(Active(rows))
      /\ SumOf(spend) = Total(Prices(rows), Active(rows))
      /\ IF Active(rows) = {} THEN Tolerated(0, 0)
         ELSE /\ Tolerated(Total(up, Drawn), Cardinality(Drawn))
              /\ Tolerated(Total(down, Drawn), Cardinality(Drawn))

Verified(rows, mode) == DualPathAgrees(rows, mode) /\ Reconciles(rows, mode)

=============================================================================
