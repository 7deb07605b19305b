----------------------------- MODULE MCMetadata -----------------------------
(* Tar streams of up to three headers.  A day has 3 * 2 * 4 seconds and a second
   100 parts, so that centuries fit the integers of TLC; days, months, years and
   the borrowing of a second are as they are. *)
EXTENDS Metadata

Path(comps) == Text(comps, TRUE)
Plain == [type |-> "Regular", path |-> Path(<<"a">>), link |-> None, size |-> 2,
          uid |-> 1, gid |-> 1, mode |-> 4, mtime |-> 7, uname |-> Some("u"),
          gname |-> None, realSize |-> None]
Global(records) == [global |-> TRUE, records |-> records, header |-> Plain]
Member(records, header) == [global |-> FALSE, records |-> records, header |-> header]

Listing(streams, patterns, offsets) ==
    [stream: streams, patterns: patterns, offset: offsets]
Unfiltered(streams) == Listing(streams, {{}}, {0})

(* Every way a global header, another one or a member, and a last member can
   speak of one thing. *)
Words(keys, values) == keys \X values
Course(records) ==
    LET some == SeqOf(records, 1)
        more == SeqOf(records, 2)
        globals == {Global(r) : r \in some}
        between == globals \cup {Member(r, Plain) : r \in some}
    IN {<<g, y, Member(r, Plain)>> : g \in globals, y \in between, r \in more}

Overrides ==
    Course(Words({Key("uid")}, {Empty, Junk, Number(3, TRUE), Number(5, FALSE)}))
    \cup Course(Words({Schily("x")}, {Empty, Text("s", TRUE)})
                \cup Words({Libarchive("x")}, {Empty, Junk, Text("l", TRUE)}))
    \cup Course(Words({Key("path")}, {Empty, Path(<<"b">>), Text(<<"?">>, FALSE)}))
    \cup Course(Words({Key("mode")}, {Number(MaxU32, FALSE), Number(MaxU32 + 1, FALSE),
                                      Number(1, TRUE)}))
    \cup Course({<<Key("linkpath"), Path(<<"t">>)>>, <<Key("gid"), Number(2, FALSE)>>,
                 <<Key("gname"), Text("g", TRUE)>>})
    \cup Course(Words({Key("uname")}, {Empty, Text("n", TRUE), Text("?", FALSE)}))
    \cup Course(Words({Key("mtime"), Key("atime")},
                      {Empty, Junk, Time("-", 1, <<2>>)}))

(* Every type of header with every statement of its size. *)
HeaderTypes == {"Regular", "Continuous", "Directory", "Symlink", "Link", "Char",
                "Block", "Fifo", "Sparse"}
SizeHeaders == {[Plain EXCEPT !.type = t, !.size = n, !.realSize = r] :
                   t \in HeaderTypes, n \in {0, 2}, r \in {None, Some(4)}}
SizeWords == {<<Key("size"), Number(2, FALSE)>>, <<Key("size"), Number(3, TRUE)>>,
              <<Key("size"), Empty>>, <<GnuSparse("major"), Number(1, FALSE)>>}
Sizes == {<<Global(g), Member(r, h)>> :
             g \in SeqOf(SizeWords, 1), r \in SeqOf(SizeWords, 2), h \in SizeHeaders}

(* Timestamps. *)
Stamps == {Time(s, w, f) : s \in {"", "+", "-"}, w \in {0, 1, MaxI64 - 1, MaxI64, MaxI64 + 1},
              f \in {<<>>, <<0>>, <<0, 0>>, <<5>>, <<0, 1>>, <<9, 9>>, <<0, 0, 7>>,
                     <<9, 9, 9>>}}
Clocks == {<<Member(<<<<Key(k), v>>>>, Plain)>> : k \in {"mtime", "atime", "ctime"},
              v \in Stamps}

(* Days of the years about leap years, the turn of the century, and the end of
   the years that can be counted. *)
SecsPerDay == SecsPerMin * MinsPerHour * HoursPerDay
NewYear(y) == 365 * (y - 1970) + LeapDaysBefore(y) - LeapDaysBefore(1970)
Days == UNION {NewYear(y) .. NewYear(y + 1) - 1 :
                  y \in {1970, 1972, 1973, 1999, 2000, 2001, 2100, 2101,
                        YearSpan - 1, YearSpan}}
Dates == {<<Member(<<>>, [Plain EXCEPT !.mtime = d * SecsPerDay - 1])>> :
             d \in Days \ {0}}
         \cup {<<Member(<<>>, [Plain EXCEPT !.mtime = s])>> :
                  s \in 0 .. SecsPerDay}
         \cup {<<Member(<<<<Key("mtime"), v>>>>, Plain)>> :
                  v \in {Time("-", 3, <<>>), Time("-", MaxI64, <<5>>), Time("", MaxI64, <<>>)}}

(* Which members are listed.  A pattern that is only "." or "./" is left out. *)
Spellings == {<<"a">>, <<".", "a">>, <<"a", "">>, <<".", "a", "b">>, <<"a", "b", "">>,
              <<"ab">>, <<"c", "d">>, <<"*">>}
Trees == {<<Member(<<>>, [Plain EXCEPT !.path = Path(x)]),
            Member(<<>>, [Plain EXCEPT !.path = Path(y)])>> :
             x, y \in Spellings \cup {<<".", "">>}}
MCGlobMatches(pattern, path) == pattern = path \/ pattern = <<"*">>

MCScenarios ==
    Unfiltered(Overrides \cup Sizes \cup Clocks)
    \cup Listing(Dates, {{}}, {0, 5, -5})
    \cup Listing(Trees, {ps \in SUBSET Spellings : Cardinality(ps) <= 2}, {0})
=============================================================================
