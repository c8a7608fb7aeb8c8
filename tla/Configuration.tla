--------------------------- MODULE Configuration -----------------------------
(***************************************************************************)
(* daemon/retif_config.c with the helpers of retif_yaml.h: what the daemon *)
(* reads from retifconf.yaml, and the checks the result must pass.         *)
(*                                                                         *)
(* A document is abstracted to its nodes.  A number in it is a token that  *)
(* converts to a long ("num"), one without digits ("word") or one that     *)
(* strtol finds out of range ("huge").  Cores and priorities are ints: a   *)
(* long is cut to its low bits when it is stored.  The text of a scalar is *)
(* its tokens, each with the delimiter that follows it: 0-2,4 is 0 '-',    *)
(* 2 ',', 4 'end'; only the last token can be the end.                     *)
(* Every plugin has its four keys, in the order of the installed file;     *)
(* unknown keys are skipped and are left out.                              *)
(***************************************************************************)
EXTENDS Integers, SequencesExt, FiniteSetsExt

CONSTANTS Procs,     \* get_nprocs2
          Full,      \* the utilisation 1.0, in the unit of the document
          IntLimit   \* an int is below it: 2^31 in the code

ASSUME ConfigurationAssumption ==
  Procs \in Nat \ {0} /\ Full \in Nat \ {0} /\ IntLimit \in Nat \ {0}

(***************************************************************************)
(* A document, as libyaml hands it over.                                   *)
(***************************************************************************)
Token    == [t : {"num", "word", "huge"}, v : Int]
CoreTok  == [num : Token, d : {"-", ",", "end"}]
Text     == {ts \in Seq(CoreTok) : \A i \in 1..Len(ts) - 1 : ts[i].d # "end"}
Node     == [kind : {"scalar"}, toks : Text]
              \cup [kind : {"sequence"}, items : Seq(Token)]
              \cup [kind : {"mapping"}]
Document == [yaml : BOOLEAN, rr_timeslice : Token, sched_max_util : Token,
             plugins : Seq([name : STRING, path : STRING, priority : Node, cores : Node])]

-----------------------------------------------------------------------------
\* The ints, and the int in which a long is stored.
CInt     == -IntLimit..IntLimit - 1
ToInt(v) == ((v + IntLimit) % (2 * IntLimit)) - IntLimit

(***************************************************************************)
(* The parser threads two values through its calls: what the last function *)
(* returned (ret, 0 for success) and errno, which string_to_long tests and *)
(* nobody resets.                                                          *)
(***************************************************************************)

(***************************************************************************)
(* string_to_long on a token; string_to_double converts the same way.      *)
(***************************************************************************)
string_to_long(tok, errno) ==
  LET e == IF tok.t = "huge" THEN 1 ELSE errno
  IN  [ret |-> IF e # 0 THEN 2 ELSE IF tok.t = "word" THEN 3 ELSE 0, errno |-> e, v |-> tok.v]

(***************************************************************************)
(* One or two numbers are the bounds of a window: lo is the first one,     *)
(* converted; a failure ends the reading.                                  *)
(***************************************************************************)
Upper(ts, lo) ==
  IF Len(ts) = 1 \/ lo.ret # 0 THEN lo ELSE string_to_long(ts[2], lo.errno)

Bounds(lo, hi) == [ret |-> hi.ret, errno |-> hi.errno, min |-> lo.v, max |-> hi.v]

Window(ts, lo) == Bounds(lo, Upper(ts, lo))

(***************************************************************************)
(* The scalar form of priority: strtok at '-' only, so a token goes on     *)
(* over a comma and is converted up to it.  Tokens after the second are    *)
(* never asked for; there must be a first.                                 *)
(***************************************************************************)
PriorityTokens(toks) ==
  LET later == {i \in 2..Len(toks) : toks[i - 1].d = "-"}
  IN  IF later = {} THEN <<toks[1].num>> ELSE <<toks[1].num, toks[Min(later)].num>>

NoWindow(errno) == [ret |-> 1, errno |-> errno, min |-> -1, max |-> -1]

ScalarPriority(toks, errno) ==
  IF toks = <<>> THEN NoWindow(errno)
  ELSE Window(PriorityTokens(toks), string_to_long(toks[1].num, errno))

(***************************************************************************)
(* The sequence form of priority: one or two items.  The number of items   *)
(* is looked at after the two were read.                                   *)
(***************************************************************************)
AtMostTwo(items, w) == IF w.ret = 0 /\ Len(items) > 2 THEN [w EXCEPT !.ret = 1] ELSE w

SequencePriority(items, errno) ==
  IF items = <<>> THEN NoWindow(errno)
  ELSE AtMostTwo(items, Window(items, string_to_long(items[1], errno)))

NotNegative(w) == IF w.ret = 0 /\ (w.min < 0 \/ w.max < 0) THEN [w EXCEPT !.ret = 1] ELSE w

\* The bounds are tested as longs and stored as ints.
Stored(w) == [w EXCEPT !.min = ToInt(@), !.max = ToInt(@)]

parse_priority(node, errno) ==
  Stored(NotNegative(CASE node.kind = "scalar"   -> ScalarPriority(node.toks, errno)
                       [] node.kind = "sequence" -> SequencePriority(node.items, errno)
                       [] OTHER                  -> NoWindow(errno)))

-----------------------------------------------------------------------------
\* The numbers from .. to, as a list.
Ascend(from, to) == [i \in 1..(to - from + 1) |-> from + i - 1]

(***************************************************************************)
(* One turn of the loop over a scalar list of cores.  A number is compared *)
(* as a long with the last core, an int, and then stored as an int.  The   *)
(* loop that fills a range up to a number that no int reaches does not end *)
(* (Endless, in place of a result).                                        *)
(***************************************************************************)
Endless == 4

CoreToken(acc, tk) ==
  LET n    == string_to_long(tk.num, acc.errno)
      last == acc.cores[Len(acc.cores)]
  IN  IF acc.ret # 0 THEN acc
      ELSE IF n.ret # 0 THEN [acc EXCEPT !.ret = n.ret, !.errno = n.errno]
      ELSE IF acc.cores # <<>> /\ n.v <= last THEN [acc EXCEPT !.ret = 1]
      ELSE IF acc.in_range /\ n.v >= IntLimit THEN [acc EXCEPT !.ret = Endless]
      ELSE [ret |-> IF tk.d = "-" /\ acc.in_range THEN 1 ELSE 0,
            errno |-> n.errno,
            cores |-> acc.cores \o (IF acc.in_range THEN Ascend(last + 1, n.v)
                                    ELSE <<ToInt(n.v)>>),
            in_range |-> IF tk.d = "end" THEN acc.in_range ELSE tk.d = "-"]

(***************************************************************************)
(* One turn of the loop over a sequence of cores: any number is appended.  *)
(***************************************************************************)
CoreItem(acc, tok) ==
  LET n == string_to_long(tok, acc.errno)
  IN  IF acc.ret # 0 THEN acc
      ELSE IF n.ret # 0 THEN [acc EXCEPT !.ret = n.ret, !.errno = n.errno]
      ELSE [acc EXCEPT !.cores = Append(@, ToInt(n.v))]

(***************************************************************************)
(* parse_conf_plugins_item_cores returns 0 whatever happened, if it ever   *)
(* returns: after an error the cores read so far stay, and errno too.      *)
(***************************************************************************)
NoCores(errno) == [ret |-> 0, errno |-> errno, cores |-> <<>>, in_range |-> FALSE]

CoresRead(node, errno) ==
  CASE node.kind = "scalar"   -> FoldLeft(CoreToken, NoCores(errno), node.toks)
    [] node.kind = "sequence" -> FoldLeft(CoreItem, NoCores(errno), node.items)
    [] OTHER                  -> NoCores(errno)

CoresResult(r) == [ret |-> IF r.ret = Endless THEN Endless ELSE 0,
                   errno |-> r.errno, cores |-> r.cores]

parse_cores(node, errno) == CoresResult(CoresRead(node, errno))

-----------------------------------------------------------------------------
(***************************************************************************)
(* parse_conf_plugins_item, for one item of the list: pr and co are what   *)
(* its priority and its cores gave.                                        *)
(***************************************************************************)
AddItem(acc, item, pr, co) ==
  [ret |-> co.ret, errno |-> co.errno,
   plugins |-> Append(acc.plugins,
                      [name |-> item.name, path |-> item.path, cores |-> co.cores,
                       priority_min |-> pr.min, priority_max |-> pr.max])]

ReadCores(acc, item, pr) ==
  IF pr.ret # 0 THEN [acc EXCEPT !.ret = pr.ret, !.errno = pr.errno]
  ELSE AddItem(acc, item, pr, parse_cores(item.cores, pr.errno))

parse_item(acc, item) ==
  IF acc.ret # 0 THEN acc ELSE ReadCores(acc, item, parse_priority(item.priority, acc.errno))

(***************************************************************************)
(* The list of plugins, up to the first item that fails.                   *)
(***************************************************************************)
NoPlugins(sys) == [ret |-> sys.ret, errno |-> sys.errno, plugins |-> <<>>]

parse_conf_plugins(items, sys) == FoldLeft(parse_item, NoPlugins(sys), items)

parse_conf_system(doc) ==
  LET rr == string_to_long(doc.rr_timeslice, 0)
      ut == IF rr.ret # 0 THEN rr ELSE string_to_long(doc.sched_max_util, rr.errno)
  IN  [ret |-> ut.ret, errno |-> ut.errno, rr |-> rr.v, ut |-> ut.v]

(***************************************************************************)
(* parse_conf: the system part, then the plugins.                          *)
(***************************************************************************)
parse_conf(doc) ==
  LET sys == parse_conf_system(doc)
      ps  == parse_conf_plugins(doc.plugins, sys)
  IN  [ret |-> ps.ret,
       conf |-> [rr_timeslice |-> sys.rr, sched_max_util |-> sys.ut, plugins |-> ps.plugins]]

Zeroed == [rr_timeslice |-> 0, sched_max_util |-> 0, plugins |-> <<>>]

-----------------------------------------------------------------------------
(***************************************************************************)
(* The checks.  A negative core number is huge when compared as a size_t.  *)
(***************************************************************************)
check_cpus(conf) ==
  \A i \in DOMAIN conf.plugins : \A c \in ToSet(conf.plugins[i].cores) : c >= 0 /\ c < Procs

\* Mutant: both cursors move when the cores differ.
MutCommonCpus(a, b) ==
  LET met[i \in 1..Len(a) + 1, j \in 1..Len(b) + 1] ==
        /\ i <= Len(a) /\ j <= Len(b)
        /\ a[i] = b[j] \/ met[i + 1, j + 1]
  IN  met[1, 1]

(***************************************************************************)
(* plugins_have_common_cpus: one pass over both lists, as in a merge; c    *)
(* holds the two cursors.                                                  *)
(***************************************************************************)
plugins_have_common_cpus(a, b) ==
  LET met[c \in (1..Len(a) + 1) \X (1..Len(b) + 1)] ==
        /\ c[1] <= Len(a) /\ c[2] <= Len(b)
        /\ IF a[c[1]] < b[c[2]] THEN met[<<c[1] + 1, c[2]>>]
           ELSE IF a[c[1]] > b[c[2]] THEN met[<<c[1], c[2] + 1>>] ELSE TRUE
  IN  met[<<1, 1>>]

check_priority_windows(conf) ==
  \A high, low \in DOMAIN conf.plugins :
    high < low /\ plugins_have_common_cpus(conf.plugins[high].cores, conf.plugins[low].cores)
      => conf.plugins[high].priority_min > conf.plugins[low].priority_max

check_minmax_priorities(conf) ==
  \A i \in DOMAIN conf.plugins : conf.plugins[i].priority_min <= conf.plugins[i].priority_max

check_max_util(conf) == conf.sched_max_util \in 0..Full

check_plugin_names(conf) ==
  \A high, low \in DOMAIN conf.plugins :
    high < low => conf.plugins[high].name # conf.plugins[low].name

configuration_valid(conf) ==
  /\ check_max_util(conf)
  /\ check_cpus(conf)
  /\ check_minmax_priorities(conf)
  /\ check_priority_windows(conf)
  /\ check_plugin_names(conf)

(***************************************************************************)
(* parse_configuration.  A file that is no YAML leaves res at the 0 that   *)
(* yaml_parser_load returned, which is success: the configuration is then  *)
(* the zeroed memory of the daemon's global data.                          *)
(***************************************************************************)
parse_configuration(doc) ==
  IF ~doc.yaml THEN [ret |-> 0, conf |-> Zeroed]
  ELSE LET r == parse_conf(doc)
       IN  IF r.ret # 0 THEN r
           ELSE [ret |-> IF configuration_valid(r.conf) THEN 0 ELSE 1, conf |-> r.conf]

-----------------------------------------------------------------------------
(***************************************************************************)
(* The reference: what the comments of conf/retifconf.yaml say a file      *)
(* means, without a parser.                                                *)
(***************************************************************************)
IsNum(tok) == tok.t = "num"

Strictly(s) == \A i \in 1..Len(s) - 1 : s[i] < s[i + 1]

\* A list of cores written as the comments ask: ints in ascending order, no
\* range that starts where another ends.
CoresWritten(node) ==
  \/ /\ node.kind = "scalar"
     /\ \A i \in 1..Len(node.toks) : IsNum(node.toks[i].num) /\ node.toks[i].num.v \in CInt
     /\ Strictly([i \in 1..Len(node.toks) |-> node.toks[i].num.v])
     /\ \A i \in 1..Len(node.toks) - 1 : ~(node.toks[i].d = "-" /\ node.toks[i + 1].d = "-")
  \/ /\ node.kind = "sequence"
     /\ node.items # <<>>
     /\ \A i \in 1..Len(node.items) : IsNum(node.items[i]) /\ node.items[i].v \in CInt
     /\ Strictly([i \in 1..Len(node.items) |-> node.items[i].v])

\* The cores it names.
CoresNamed(node) ==
  IF node.kind = "sequence" THEN {node.items[i].v : i \in 1..Len(node.items)}
  ELSE UNION {IF i > 1 /\ node.toks[i - 1].d = "-"
              THEN node.toks[i - 1].num.v..node.toks[i].num.v
              ELSE {node.toks[i].num.v} : i \in 1..Len(node.toks)}

\* A priority is a single number, min-max or [min, max], of ints.
PriorityNums(node) ==
  IF node.kind = "scalar" THEN [i \in 1..Len(node.toks) |-> node.toks[i].num] ELSE node.items

PriorityWritten(node) ==
  /\ node.kind \in {"scalar", "sequence"}
  /\ Len(PriorityNums(node)) \in {1, 2}
  /\ \A i \in 1..Len(PriorityNums(node)) : IsNum(PriorityNums(node)[i])
                                           /\ PriorityNums(node)[i].v \in 0..IntLimit - 1
  /\ node.kind = "scalar" => \A i \in 1..Len(node.toks) : node.toks[i].d # ","

WellWritten(doc) ==
  /\ doc.yaml
  /\ IsNum(doc.rr_timeslice) /\ IsNum(doc.sched_max_util)
  /\ \A i \in 1..Len(doc.plugins) :
       CoresWritten(doc.plugins[i].cores) /\ PriorityWritten(doc.plugins[i].priority)

\* Numbers in their order.
InOrder(S) == CHOOSE s \in [1..Cardinality(S) -> S] : Strictly(s)

\* The configuration a well-written file describes.
PluginMeant(p) ==
  LET ns == PriorityNums(p.priority)
  IN  [name |-> p.name, path |-> p.path, cores |-> InOrder(CoresNamed(p.cores)),
       priority_min |-> ns[1].v, priority_max |-> ns[Len(ns)].v]

Meaning(doc) ==
  [rr_timeslice |-> doc.rr_timeslice.v, sched_max_util |-> doc.sched_max_util.v,
   plugins |-> [i \in 1..Len(doc.plugins) |-> PluginMeant(doc.plugins[i])]]

(***************************************************************************)
(* The rules for a configuration, as the comments state them.  They do not *)
(* ask for a core: a plugin with an empty list passes here, as it passes   *)
(* configuration_valid, although RetifScheduler starts from plugins with   *)
(* at least one core.                                                      *)
(***************************************************************************)
Acceptable(conf) ==
  /\ conf.sched_max_util >= 0 /\ conf.sched_max_util <= Full
  /\ \A i \in 1..Len(conf.plugins) :
       /\ ToSet(conf.plugins[i].cores) \subseteq 0..Procs - 1
       /\ conf.plugins[i].priority_min <= conf.plugins[i].priority_max
  /\ \A i, j \in 1..Len(conf.plugins) : i < j =>
       /\ conf.plugins[i].name # conf.plugins[j].name
       /\ ToSet(conf.plugins[i].cores) \cap ToSet(conf.plugins[j].cores) # {} =>
            conf.plugins[i].priority_min > conf.plugins[j].priority_max

==============================================================================
