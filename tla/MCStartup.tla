----------------------------- MODULE MCStartup -------------------------------
(***************************************************************************)
(* Instances of DaemonStartup for TLC: a machine with three cores, and     *)
(* files of up to two plugins.                                             *)
(***************************************************************************)
EXTENDS DaemonStartup

Num(v)  == [t |-> "num", v |-> v]
Word    == [t |-> "word", v |-> 0]
Huge    == [t |-> "huge", v |-> 0]

Tok(v, d)   == [num |-> Num(v), d |-> d]
Scalar(ts)  == [kind |-> "scalar", toks |-> ts]
Items(is)   == [kind |-> "sequence", items |-> is]
Mapping     == [kind |-> "mapping"]

\* Cores: 0, 0-1, 0-2, 0,2, 1-2, 0-1-2, 2,1, a word and an empty text, then [0,1],
\* [1,0], [2], [-1], [1,7], a list whose second item is out of range, [] and a mapping;
\* and with numbers beyond an int, 256 (which is stored as 0), 0-256 and [256,1].
CoreNodes ==
  {Scalar(<<Tok(0, "end")>>), Scalar(<<Tok(0, "-"), Tok(1, "end")>>),
   Scalar(<<Tok(0, "-"), Tok(2, "end")>>), Scalar(<<Tok(0, ","), Tok(2, "end")>>),
   Scalar(<<Tok(1, "-"), Tok(2, "end")>>), Scalar(<<Tok(0, "-"), Tok(1, "-"), Tok(2, "end")>>),
   Scalar(<<Tok(2, ","), Tok(1, "end")>>), Scalar(<<[num |-> Word, d |-> "end"]>>), Scalar(<<>>),
   Items(<<Num(0), Num(1)>>), Items(<<Num(1), Num(0)>>), Items(<<Num(2)>>), Items(<<Num(-1)>>),
   Items(<<Num(1), Num(7)>>), Items(<<Num(0), Huge>>), Items(<<>>), Mapping,
   Scalar(<<Tok(2 * IntLimit, "end")>>), Scalar(<<Tok(0, "-"), Tok(2 * IntLimit, "end")>>),
   Items(<<Num(2 * IntLimit), Num(1)>>)}

\* Priorities: 50, 50-60, 40-50, 1-2-3, 50,9-60, a word, a number out of range, an
\* empty text, [50, 60], [60, 50], [40], [-1, 2], [1, 2, 3], [] and a mapping; and
\* [50, 316], which is stored as [50, 60].
PriorityNodes ==
  {Scalar(<<Tok(50, "end")>>), Scalar(<<Tok(50, "-"), Tok(60, "end")>>),
   Scalar(<<Tok(40, "-"), Tok(50, "end")>>), Scalar(<<Tok(1, "-"), Tok(2, "-"), Tok(3, "end")>>),
   Scalar(<<Tok(50, ","), Tok(9, "-"), Tok(60, "end")>>),
   Scalar(<<[num |-> Word, d |-> "end"]>>), Scalar(<<[num |-> Huge, d |-> "end"]>>), Scalar(<<>>),
   Items(<<Num(50), Num(60)>>), Items(<<Num(60), Num(50)>>), Items(<<Num(40)>>),
   Items(<<Num(-1), Num(2)>>), Items(<<Num(1), Num(2), Num(3)>>), Items(<<>>), Mapping,
   Items(<<Num(50), Num(2 * IntLimit + 60)>>)}

Item(name, path, pr, co) == [name |-> name, path |-> path, priority |-> pr, cores |-> co]

Doc(util, items) ==
  [yaml |-> TRUE, rr_timeslice |-> Num(100), sched_max_util |-> util, plugins |-> items]

\* Any item next to one of two plain ones, before or after it; and files that are
\* wrong as a whole.
First  == {Item("a", "relative", pr, co) : pr \in PriorityNodes, co \in CoreNodes}
Plain  == {Item("b", "absolute", Scalar(<<Tok(40, "-"), Tok(49, "end")>>), Items(<<Num(1)>>)),
           Item("b", "relative", Items(<<Num(51), Num(99)>>), Scalar(<<Tok(0, ","), Tok(2, "end")>>))}
NoYaml == [Doc(Num(0), <<>>) EXCEPT !.yaml = FALSE]

SomeDocs ==
  {Doc(Num(19), <<x, y>>) : x \in First, y \in Plain}
    \cup {Doc(Num(19), <<y, x>>) : x \in First, y \in Plain}
    \cup {Doc(u, <<y>>) : u \in {Num(0), Num(20), Num(21), Num(-1), Word}, y \in Plain}
    \cup {Doc(Num(20), <<y, y>>) : y \in Plain}
    \cup {Doc(Num(20), <<[y EXCEPT !.path = "empty"]>>) : y \in Plain}
    \cup {NoYaml, [Doc(Num(19), <<>>) EXCEPT !.rr_timeslice = Huge]}

SomeParams == {[rr |-> 25, rt |-> 19], [rr |-> 25, rt |-> -1]}

==============================================================================
