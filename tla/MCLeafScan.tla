----------------------------- MODULE MCLeafScan -----------------------------
(* Small trees and workloads for LeafTree and LeafScan. *)
EXTENDS LeafScan

MCKeys == 1 .. 9
MCHash == [k \in MCKeys |-> 1 + (k % 3)]   \* keys share tags

Upserts(s) == [i \in DOMAIN s |-> <<"upsert", s[i]>>]
Removes(s) == [i \in DOMAIN s |-> <<"remove", s[i]>>]
All == {<<"scan", 1>>}

\* Leaves {1, 3, 4, 5} and {7, 8, 9}: 2 splits the first one.
LoadFull == Upserts(<<4, 1, 5, 3, 7, 8, 9>>)
Split == [load |-> LoadFull, string |-> FALSE,
          ops |-> << {<<"upsert", 2>>, <<"upsert", 6>>},
                     {"lookup", "update"} \X {1, 2, 5, 7},
                     {<<"update", 5>>, <<"remove", 1>>, <<"remove", 5>>} >>]
ScanSplit == [load |-> LoadFull, string |-> FALSE,
              ops |-> << {<<"upsert", 2>>, <<"update", 4>>},
                         All \cup {<<"lower", 3>>, <<"upper", 4>>}, {} >>]
ScanInsert == [load |-> LoadFull, string |-> FALSE, ops |-> << {<<"upsert", 6>>}, All, {} >>]

\* Leaves {1, 3}, {5}, {7, 8, 9}: removing 1 or 3 merges the first two.
LoadThree == Upserts(<<4, 1, 5, 3, 7, 8, 9, 2>>) \o Removes(<<2, 4>>)
Merge3 == [load |-> LoadThree, string |-> FALSE,
           ops |-> << {<<"remove", 1>>, <<"remove", 3>>},
                      {"lookup", "update"} \X {1, 3, 5, 7},
                      {<<"update", 5>>, <<"upsert", 3>>, <<"upsert", 6>>} >>]
ScanMerge == [load |-> LoadThree, string |-> FALSE,
              ops |-> << {<<"remove", 1>>, <<"remove", 3>>},
                         All \cup {<<"lower", 2>>, <<"upper", 3>>}, {} >>]
ScanMoved == [load |-> LoadThree, string |-> FALSE, ops |-> << {<<"remove", 1>>}, All, {} >>]
BoundMoved == [load |-> LoadThree, string |-> FALSE,
               ops |-> << {<<"remove", 1>>}, {<<"upper", 3>>}, {} >>]

\* The same leaves, without splits and merges: two scans sort leaves that change.
ScanSort == [load |-> LoadThree, string |-> FALSE,
             ops |-> << {<<"update", 5>>, <<"update", 7>>, <<"upsert", 2>>, <<"remove", 8>>},
                        All \cup {<<"upper", 3>>}, {<<"lower", 7>>} >>]

\* Strings.  Leaves {1} and {5, 7, 8, 9}: the right one is split and merged
\* into the left one.
Token == [load |-> Upserts(<<1, 2, 3, 4, 5, 7, 8, 9>>) \o Removes(<<2, 3, 4>>), string |-> TRUE,
          ops |-> << {<<"upsert", 6>>}, {<<"remove", 1>>}, {<<"lookup", 9>>} >>]

\* Leaves {1, 3, 4, 7} and {8, 9}: 6 goes to the new leaf of a split.
ScanRight == [load |-> Upserts(<<1, 3, 4, 7, 8, 9>>), string |-> FALSE,
              ops |-> << {<<"upsert", 6>>}, {<<"lower", 7>>}, {} >>]

\* For leaves of two slots.  Leaves {1} and {5}: removing 1 merges them, and
\* the right one is the rightmost leaf.
LoadLast == Upserts(<<1, 3, 5>>) \o Removes(<<3>>)
Last2 == [load |-> LoadLast, string |-> FALSE,
          ops |-> << {<<"remove", 1>>}, {<<"lookup", 1>>, <<"lookup", 5>>}, {} >>]
ScanLast == [load |-> LoadLast, string |-> FALSE,
             ops |-> << {<<"remove", 1>>}, {<<"lower", 1>>}, {} >>]

\* For leaves of two slots.  Leaves {1, 2} and {5, 9}: two splits of the
\* second, one right after the other.
Twice == [load |-> Upserts(<<1, 2, 5, 9>>), string |-> FALSE,
          ops |-> << {<<"upsert", 3>>}, {<<"upsert", 4>>}, {<<"lookup", 9>>} >>]
TwiceString == [Twice EXCEPT !.string = TRUE]

SplitString == [Split EXCEPT !.string = TRUE]
MergeString == [Merge3 EXCEPT !.string = TRUE]

LeafSetups == {Split, SplitString, Merge3, MergeString, Token, ScanSplit, ScanMerge, ScanSort}
TwiceSetups == {Twice}
TwiceStringSetups == {TwiceString}
InsertSetups == {ScanInsert}
RightSetups == {ScanRight}
MovedSetups == {ScanMoved}
BoundSetups == {BoundMoved}
LastSetups == {Last2}
ScanLastSetups == {ScanLast}
-----------------------------------------------------------------------------
\* Where leaves change but are not split or merged, a scan yields every key
\* that was there all the time, although it sorts leaves that others update,
\* insert into and remove from (kv_sort, bound, advance).
SortingScanComplete == ops = ScanSort.ops => ScanComplete

\* There, too, no iterator points to a slot that nobody has written.
SortingIteratorsPointToPairs == ops = ScanSort.ops => IteratorsPointToPairs
=============================================================================
