------------------------------ MODULE MCTask ------------------------------
(* A workspace for the task commands: a capsule of three members, one of    *)
(* them unreadable, that a fourth joins while commands run; a plain task; a *)
(* late one recorded meanwhile; two records that derive from each other;    *)
(* and a wide one whose environment does not fit a cell.                    *)
EXTENDS TaskCommands, TLC

CONSTANTS cap, m1, m2, m3, m4, plain, late, ring1, ring2, wide, c1, c2

MCTaskIds == {cap, m1, m2, m3, m4, plain, late, ring1, ring2, wide}

-----------------------------------------------------------------------------
(* Texts: every value of at most three of x, "," and ":", and every pair    *)
(* that has a backslash or a line end; a row of string columns puts the     *)
(* awkward ends and beginnings of cells next to each other. A header has    *)
(* seven names of dimensions, the unused ones empty.                        *)
Texts(S, n) == [1..n -> S]
InOrder(S) == FoldSet(LAMBDA v, acc : Append(acc, v), <<>>, S)

Values == InOrder(UNION {Texts({"x", Comma, Colon}, n) : n \in 0..3})
          \o InOrder(Texts({"n", "r", Comma, Backslash, Newline, Return}, 2))

Cells == InOrder(UNION {Texts({"x", Comma}, n) : n \in 0..2})

Columns ==
  [i \in DOMAIN (Cells \o Reverse(Cells)) |->
     LET text == (Cells \o Reverse(Cells))[i]
     IN  [name |-> text, type |-> "string", vals |-> <<text, <<"x", "x", "x", "x">>>>]]
  \o <<[name |-> <<"c">>, type |-> "char", vals |-> <<<<Comma>>, <<"x">>>>]>>

Dims(named) == [j \in 1..7 |-> IF j <= named THEN <<"x">> ELSE <<>>]

EveryText ==
  [env    |-> [i \in DOMAIN Values |-> [key |-> <<"k", "y">>, val |-> Values[i]]],
   cols   |-> Columns,
   fields |-> [i \in DOMAIN Cells |-> [key |-> <<"k">>, val |-> Cells[i]]],
   headers |-> [i \in DOMAIN Cells |->
                  [name |-> Cells[i], tag |-> <<>>, note |-> <<"x", Comma>>,
                   dimnames |-> [Dims(8 - i) EXCEPT ![1] = Cells[i]]]]]

NoText == [env |-> <<>>, cols |-> <<>>, fields |-> <<>>, headers |-> <<>>]
LongText == [NoText EXCEPT !.env = <<[key |-> <<"k">>, val |-> <<"x", "x", "x", "x">>]>>]

-----------------------------------------------------------------------------
(* Instants around the change to summer time of a zone, the ends of months, *)
(* years and of the range of years, and zones on both sides of UTC.         *)
Instant(year, mo, d, s) == <<MonthStart(year)[mo] + d - 1, s>>
Spring(s) == Instant(2024, 3, 31, s)
Autumn(s) == Instant(2024, 10, 27, s)

Instants ==
  {Instant(1970, 1, 1, 0), Instant(1970, 1, 1, 43200), Instant(1999, 12, 31, 86399),
   Instant(2000, 2, 28, 86399), Instant(2000, 2, 29, 0), Instant(2000, 3, 1, 0),
   Instant(2024, 2, 29, 5), Instant(2100, 2, 28, 80000), Instant(2100, 3, 1, 1),
   Instant(2225, 12, 31, 1), Instant(2225, 12, 31, 40000), Instant(2225, 12, 31, 86399)}
  \cup {Spring(s) : s \in {3599, 3600, 5400, 9000}}
  \cup {Autumn(s) : s \in {1800, 3599, 3600, 5400, 9000}}

Summer(std, dst) == [std |-> std, dst |-> dst, from |-> Spring(3600), to |-> Autumn(3600)]
MCZone == Summer(3600, 7200)
Zones == {MCZone, Summer(0, 0), Summer(-18000, -14400), Summer(20700, 20700),
          Summer(45900, 49500)}
Biases == {0, 60, -60, 345, -570, 1, -1, 840, -720}

(* The stamps of the half hours around the change, by their bits. *)
Utc(n) == <<27775, 4096 * (n \div 2) + 1920 * (n % 2)>>
ASSUME UtcIsStamp == \A n \in 1..5 : Stamp(Spring(1800 * n)) = {Utc(n)}

MCDateText ==
  [w \in {"03:30", "02:30+01:00"} |->
     CASE w = "03:30"       -> Text(Gmtime(Spring(12600)), "bare", 0)
       [] w = "02:30+01:00" -> Text(Gmtime(Spring(9000)), "offset", 60)]

MCNumber == [w \in {"0", "1", "2"} |->
               CASE w = "0" -> 0 [] w = "1" -> 1 [] w = "2" -> 2]

(* One range fits the buffer, two are cut, and a fourth lands behind it. *)
ASSUME RangeExamples ==
  LET text(n) == RangeText({<<2 * k + 1, 2 * k + 1>> : k \in 0..(n - 1)})
  IN  /\ text(1).pos + 1 < RangeMax /\ text(2).pos + 1 >= RangeMax
      /\ ~text(3).past /\ text(4).past

(* Words of hex digits, the prefixes of task, kernel, batch and thread IDs. *)
MCHexDigits == [w \in {"a", "a1", "m", "p", "x", "f0", "b0", "u", "d0"} |->
                  IF w \in {"a", "a1", "m", "p", "x"} THEN 6 ELSE 4]

-----------------------------------------------------------------------------
Out(name, type, unit, ndim) ==
  [name |-> <<name>>, type |-> type, unit |-> unit, n |-> 2, ndim |-> ndim]

Rec(derive, capsule, n, outs, prefixes) ==
  [derive |-> derive, inheritAll |-> capsule, link |-> capsule, ins |-> <<>>,
   outs |-> outs, more |-> <<>>, utc |-> Utc(n), kernel |-> <<"stream">>,
   exit |-> n % 2, host |-> IF derive = None THEN "h" ELSE None,
   kernelPrefixes |-> {"f0"}, batchPrefixes |-> {"b0"}, tids |-> {"d0"},
   prefixes |-> prefixes,
   scalars |-> [key \in {"tbatch_id", "kernel_id", "btime", "duration", "pid", "tid",
                         "duration_seconds", "handle_index", "reserve"} |-> n]]

Bw(unit) == Out("bw", "f64", unit, 1)
Plain == <<Bw("GB"), Out("tag", "str", "", 1), Out("two", "f64", "s", 1),
           Out("two", "f64", "s", 1)>>

MCAttr ==
  [id \in MCTaskIds |->
     CASE id = cap   -> Rec(None, TRUE, 2, <<>>, {"a", "a1"})
       [] id = m1    -> Rec(cap, FALSE, 3, <<Bw("GB"), Out("lat", "f64", "ns", 1)>>, {"m"})
       [] id = m2    -> Rec(cap, FALSE, 3, <<Bw("GB")>>, {})
       [] id = m3    -> [Rec(cap, FALSE, 4, <<Bw("MB")>>, {}) EXCEPT !.tids = {}, !.host = "h"]
       [] id = m4    -> Rec(cap, FALSE, 4, <<Out("lat", "f64", "us", 1),
                                           Out("bw", "f32", "GB", 2)>>, {})
       [] id = plain -> [Rec(None, FALSE, 1, Plain, {"a", "p"})
                        EXCEPT !.ins = <<Out("size", "i64", "B", 1)>>,
                               !.more = <<Out("env", "str", "", 1)>>]
       [] id = late  -> Rec(None, FALSE, 5, <<Bw("GB")>>, {"p"})
       [] id = ring1 -> Rec(ring2, FALSE, 1, <<>>, {"x"})
       [] id = ring2 -> Rec(ring1, FALSE, 1, <<>>, {})
       [] id = wide  -> Rec(None, FALSE, 1, <<>>, {"u"})]

MCTextOf == [id \in MCTaskIds |-> CASE id = plain -> EveryText [] id = wide -> LongText
                                     [] OTHER -> NoText]

MCJoiners == (cap :> <<m4>>)
Members == (cap :> <<m1, m2, m3>>)

Old == [files |-> MCTaskIds \ {late}, index |-> <<plain, m1, cap, m2, m3, ring1, ring2, wide, m4>>,
        member |-> Members, ridmap |-> None,
        dirs |-> (<<plain, 0>> :> {File("user", None, None)})]
MCInitStates == {Old, [Old EXCEPT !.ridmap = <<cap, plain>>, !.dirs = <<>>]}

-----------------------------------------------------------------------------
(* The command lines: an argument is a sequence of words. *)
Ls(args) == <<<<"task">>, <<"ls">>>> \o args
Gr(args) == <<<<"task">>, <<"get-result">>>> \o args
Ex(args) == <<<<"task">>, <<"export">>>> \o args

Ids(list) == <<<<"-i">>, list>>
Rids(list) == <<<<"-r">>, list>>
Filter(key, op, val) == <<<<"-f">>, <<key, op, val>>>>
DataOf(list) == <<<<"--data-name">>, list>>
MetaOf(list) == <<<<"--meta-name">>, list>>
Word(w) == <<<<w>>>>
Header(n, field) == <<"header[", n, "].", field>>

MCLines ==
  {Ls(<<>>),
   Ls(<<<<"-N">>, <<"1">>>>),
   Ls(Filter("exit_code", "=", "1") \o Filter("datetime", ">=", "03:30")
      \o Filter("kernel_name", "=", "stream")),
   Ls(Filter("datetime", "<", "02:30+01:00") \o Filter("kernel_id", "=", "f0")
      \o Filter("tbatch_id", "=", "b0")),
   Ls(Filter("exit_code", ">", "1")),
   Gr(Rids(<<"1", ",", "0", "-", "1">>)),
   Gr(DataOf(<<"bw", ",", " ", "lat">>) \o Ids(<<"a1">>) \o DataOf(<<"\"", "no", ",", "\"">>)),
   Gr(Ids(<<"a1">>) \o DataOf(<<"bw", ",", "two">>) \o Word("--show-each-subrank")
      \o MetaOf(<<"datetime", ",", "exit_code", ",">> \o Header("1", "name"))),
   Gr(Ids(<<"a1", ",", "m">>) \o DataOf(<<"--help">>)),
   Gr(Ids(<<"a1">>) \o MetaOf(Header("0", "unit") \o <<",", "batch_host">>)
      \o MetaOf(<<"pid", ",", "kernel", ",", "nmember">>)),
   Gr(Ids(<<"p">>) \o DataOf(<<"bw", ",", "tag", ",", "two">>)),
   Gr(Ids(<<"p">>) \o DataOf(<<>>) \o MetaOf(Header("2", "ndim"))),
   Gr(Ids(<<"p">>) \o MetaOf(Header("1", "colour"))),
   Gr(Ids(<<"a">>)),
   Gr(Ids(<<"x">>)),
   Gr(Rids(<<"0">>) \o Ids(<<"p">>)),
   Ex(Ids(<<"u", ",", " ", "p">>) \o Word("--keep-current")),
   Ex(Rids(<<"1">>) \o Word("--keep-current")),
   Ex(Word("--from-ls") \o <<<<"-f">>, <<"subrank", "=", "1", ",", " ", "1">>>> \o Word("--keep-current")
      \o Filter("subtid", "=", "d0")),
   Ex(Ids(<<"m">>)),
   Ex(Word("--help"))}

Symmetry == Permutations(Cmds)

-----------------------------------------------------------------------------
(* The option groups that are put in every order. *)
LsGroups == {<<<<"-n">>, <<"1">>>>, <<<<"-N">>, <<"2">>>>, Filter("exit_code", "=", "1"),
             Filter("kernel_name", "=", "stream") \o Filter("datetime", "<", "03:30"),
             Filter("duration", "=", "1")}
GrGroups == {Ids(<<"p">>), Rids(<<"0">>), DataOf(<<"bw">>), DataOf(<<"lat", ",", "bw">>),
             DataOf(<<"a", ",", "b", ",", "c">>), DataOf(<<>>), DataOf(<<"--help">>), MetaOf(<<"pid", ",">>), MetaOf(<<"-h">>),
             Word("--show-each-subrank")}
ExGroups == {Ids(<<"p">>), Rids(<<"0">>), Word("--from-ls"), Word("--keep-current"),
             Word("--trace-to-entry"), Filter("subrank", "=", "1"),
             Filter("subtid", "=", "d0"), Filter("subtid", "<", "d0")}
Names == {<<"a">>, <<"a", ",">>, <<"\"">>, <<" ", "a">>, <<",", "\"", ",">>}

(* The order of the options does not matter, computed once. *)
AllCommute ==
  /\ \A op \in {<<Ls(<<>>), LsGroups>>, <<Gr(<<>>), GrGroups>>, <<Ex(<<>>), ExGroups>>} :
       Commute(op[1], op[2])
  /\ NamesReadBack(Names)

(* A command that has read its line acts on options whose order does not   *)
(* matter: two options after any third give the same options in either     *)
(* order, or both orders are refused (rival options, too many of a kind, a *)
(* level of the tree left and entered again); and names that are quoted    *)
(* reach get-result as they are. --help is left out: it ends the parse.    *)
OptionsCommute == (\E c \in Cmds : ~At(c, "idle")) => AllCommute

(* The times of the instants and zones above, computed once. *)
AllTimesReadBack ==
  /\ StampsOrdered(Instants) /\ ShownReadsBack(Instants, Zones)
  /\ BareReadsBack(Instants, Zones) /\ OffsetsReadBack(Instants, Biases)

(* Once a listing is shown, its times can be given back as datetime filters: *)
(* stamps are ordered as the instants are (so the listing is in order of     *)
(* time), a time shown in one zone reads back in any zone as the same stamp, *)
(* and a bare local time means an instant at which the clocks of the zone    *)
(* show it, across the changes of summer time.                               *)
TimesReadBack == listed # {} => AllTimesReadBack
=============================================================================
