------------------------------ MODULE Metadata ------------------------------
(***************************************************************************)
(* What the table of contents says of a member, and what `list` shows of   *)
(* it: member_metadata_from_entry and the PAX records in wrap.rs, the      *)
(* verbose listing of cmd_list.rs, the path filter of filter.rs.           *)
(*                                                                         *)
(* The parser yields global extension headers, whose records hold for all  *)
(* members to come, and members with records of their own.  A record is a  *)
(* key and a value, <<key, value>>; a key is a name and, for extended      *)
(* attributes, a suffix; a value says what its text can be read as.  An    *)
(* Option is a set of at most one element.  Where in the tar stream a      *)
(* member lies is in Wrap.                                                 *)
(***************************************************************************)
EXTENDS Integers, Sequences, FiniteSets, SequencesExt

CONSTANTS
    Scenarios,    \* a tar stream and a listing of it
    XattrNames,
    MaxU64, MaxU32, MaxI64,
    YearSpan,     \* u32::MAX + 1, for the year of a listing
    FracDigits,   \* digits of a second that are kept: 9
    SecsPerMin, MinsPerHour, HoursPerDay,  \* 60, 60, 24
    GlobMatches(_, _)  \* the glob crate: pattern, path -> BOOLEAN

EntryTypes == {"File", "Dir", "Symlink", "HardLink", "CharDevice", "BlockDevice",
               "Fifo", "Other"}
None == {}
Some(x) == {x}
UnwrapOr(option, default) ==
    IF option = None THEN default ELSE CHOOSE x \in option : TRUE

(* Values.  `padded`: with blanks around it. *)
Empty == [as |-> "nothing"]
Junk == [as |-> "junk"]
Number(n, padded) == [as |-> "number", n |-> n, padded |-> padded]
Text(name, utf8) == [as |-> "text", name |-> name, utf8 |-> utf8]
(* A timestamp: its sign, the number before and the digits after the point. *)
Time(sign, whole, frac) ==
    [as |-> "time", sign |-> sign, whole |-> whole, frac |-> frac]

Key(name) == <<name, "">>
Schily(name) == <<"SCHILY.xattr.", name>>
Libarchive(name) == <<"LIBARCHIVE.xattr.", name>>
GnuSparse(name) == <<"GNU.sparse.", name>>
Keys == {Key(k) : k \in {"path", "linkpath", "size", "uid", "gid", "mtime",
                         "atime", "ctime", "mode", "uname", "gname"}}
        \cup {Schily(n) : n \in XattrNames} \cup {Libarchive(n) : n \in XattrNames}
        \cup {GnuSparse(n) : n \in {"major", "name"}}

ASSUME WidthsAssumption ==
    /\ MaxU64 \in Nat /\ MaxU32 \in 0 .. MaxU64 /\ MaxI64 \in 0 .. MaxU64
    /\ MaxU64 = 2 * MaxI64 + 1
ASSUME YearsAssumption == YearSpan \in Nat /\ 1970 < YearSpan
ASSUME UnitsAssumption ==
    /\ FracDigits \in Nat \ {0}
    /\ {SecsPerMin, MinsPerHour, HoursPerDay} \subseteq Nat \ {0}

(* What the fields of a header and the digits of a number can hold. *)
IsValue(v) == /\ v.as = "number" => v.n \in Nat
              /\ v.as = "time" => v.whole \in Nat /\ v.frac \in Seq(0 .. 9)
IsHeader(h) == /\ {h.uid, h.gid, h.size, h.mtime} \cup h.realSize \subseteq 0 .. MaxU64
               /\ h.mode \in 0 .. MaxU32
ASSUME ScenariosAssumption == \A s \in Scenarios :
    /\ s.offset \in Int
    /\ s.stream \in Seq(Range(s.stream))
    /\ \A e \in Range(s.stream) :
          /\ IsHeader(e.header)
          /\ e.records \in Seq(Range(e.records))
          /\ \A r \in Range(e.records) : r[1] \in Keys /\ IsValue(r[2])

VARIABLES
    scenario,   \* the stream, and how it is listed
    next,       \* the next header of the stream, then the next member to list
    phase,      \* "wrap", "list", or how it ended
    globalPax,  \* global_pax: key -> value
    toc,        \* the members' entries in the table of contents
    from,       \* history: the index in the stream of each of them
    listed      \* the lines of the listing

vars == <<scenario, next, phase, globalPax, toc, from, listed>>

stream == scenario.stream
-----------------------------------------------------------------------------
(* PAX records. *)

(* An empty value takes the record back. *)
UpdatePaxRecord(records, update) ==
    IF update[2] = Empty
      THEN [k \in DOMAIN records \ {update[1]} |-> records[k]]
      ELSE [k \in DOMAIN records \cup {update[1]} |->
               IF k = update[1] THEN update[2] ELSE records[k]]
UpdatePaxRecords(records, updates) ==
    LET after[i \in 0 .. Len(updates)] ==
            IF i = 0 THEN records ELSE UpdatePaxRecord(after[i - 1], updates[i])
    IN after[Len(updates)]

Said(records, key) == IF key \in DOMAIN records THEN Some(records[key]) ELSE None

AndThen(option, Read(_)) == UNION {Read(v) : v \in option}

(* `s.trim().parse::<u64>()`; the mode is read without the trim. *)
ReadU64(v) == IF v.as = "number" /\ v.n <= MaxU64 THEN Some(v.n) ELSE None
ReadMode(v) ==
    IF v.as = "number" /\ v.n <= MaxU32 /\ ~v.padded THEN Some(v.n) ELSE None
ReadUtf8(v) == IF v.as = "text" /\ v.utf8 THEN Some(v.name) ELSE None

Power10(n) ==
    LET power[i \in 0 .. n] == IF i = 0 THEN 1 ELSE 10 * power[i - 1] IN power[n]
Unit == Power10(FracDigits)

(* The first FracDigits digits of the fraction, filled up with zeros. *)
Digit(frac, i) == IF i <= Len(frac) THEN frac[i] ELSE 0
Nanos(frac) ==
    LET upTo[i \in 0 .. FracDigits] ==
            IF i = 0 THEN 0 ELSE 10 * upTo[i - 1] + Digit(frac, i)
    IN upTo[FracDigits]

(* Variant: no case of its own for whole seconds. *)
AlwaysBorrow(v) ==
    LET ns == Nanos(v.frac) IN
    IF v.as # "time" \/ v.whole > MaxI64 THEN None
    ELSE IF v.sign # "-" THEN Some([sec |-> v.whole, ns |-> Some(ns)])
    ELSE Some([sec |-> -v.whole - 1, ns |-> Some(Unit - ns)])

(* Seconds are rounded down, so a negative time with a fraction is one second
   earlier, plus what is missing to it. *)
ParsePaxTimestamp(v) ==
    LET ns == Nanos(v.frac)
        time(sec, nsec) == [sec |-> sec, ns |-> Some(nsec)]
    IN IF v.as # "time" \/ v.whole > MaxI64 THEN None
       ELSE IF v.sign # "-" THEN Some(time(v.whole, ns))
       ELSE IF ns = 0 THEN Some(time(-v.whole, 0))
       ELSE Some(time(-v.whole - 1, Unit - ns))

ReadTime(v) == IF v.as = "time" THEN ParsePaxTimestamp(v) ELSE None

(* Attributes of the one format win over those of the other, wherever they
   stand; the other is base64, and what cannot be decoded is left out. *)
Xattrs(records) ==
    LET schily == {n \in XattrNames : Schily(n) \in DOMAIN records}
        libarchive == {n \in XattrNames : /\ Libarchive(n) \in DOMAIN records
                                          /\ records[Libarchive(n)] # Junk}
    IN [n \in schily \cup libarchive |->
           IF n \in schily THEN records[Schily(n)] ELSE records[Libarchive(n)]]

PaxDataFromRecords(records) ==
    LET read(k, Read(_)) == AndThen(Said(records, Key(k)), Read) IN
    [sparse |-> \E k \in DOMAIN records : k[1] = "GNU.sparse.",
     path |-> Said(records, Key("path")),
     linkpath |-> Said(records, Key("linkpath")),
     size |-> read("size", ReadU64),
     uid |-> read("uid", ReadU64), gid |-> read("gid", ReadU64),
     mode |-> read("mode", ReadMode),
     mtime |-> read("mtime", ReadTime), atime |-> read("atime", ReadTime),
     ctime |-> read("ctime", ReadTime),
     uname |-> read("uname", ReadUtf8), gname |-> read("gname", ReadUtf8),
     xattrs |-> Xattrs(records)]
-----------------------------------------------------------------------------
(* A member's entry.  `realSize` is what the parser has found of a sparse map. *)

ToEntryType(type) ==
    CASE type \in {"Regular", "Continuous"} -> "File"
      [] type = "Directory" -> "Dir"
      [] type = "Link" -> "HardLink"
      [] type = "Char" -> "CharDevice"
      [] type = "Block" -> "BlockDevice"
      [] type \in {"Symlink", "Fifo"} -> type
      [] OTHER -> "Other"

EffectivePax(global, e) == PaxDataFromRecords(UpdatePaxRecords(global, e.records))

IsSparse(pax, h) == h.realSize # None \/ pax.sparse

(* What the parser says the size is: it knows the member's own records. *)
EntrySize(e) ==
    UnwrapOr(PaxDataFromRecords(UpdatePaxRecords(<<>>, e.records)).size, e.header.size)

SizesDisagree(pax, h) ==
    /\ h.type \in {"Regular", "Continuous"} /\ ~IsSparse(pax, h)
    /\ \E n \in pax.size : h.size # 0 /\ h.size # n

Seconds(h) == [sec |-> IF h.mtime > MaxI64 THEN h.mtime - (MaxU64 + 1) ELSE h.mtime,
               ns |-> None]

MemberMetadata(pax, e) ==
    LET h == e.header
        type == IF IsSparse(pax, h) THEN "Other" ELSE ToEntryType(h.type)
        onDisk == IF IsSparse(pax, h) THEN EntrySize(e)
                  ELSE UnwrapOr(pax.size, EntrySize(e))
    IN [type |-> type,
        rawType |-> IF type = "Other" THEN Some(h.type) ELSE None,
        path |-> UnwrapOr(pax.path, h.path),
        size |-> UnwrapOr(h.realSize, onDisk),
        mode |-> UnwrapOr(pax.mode, h.mode),
        uid |-> UnwrapOr(pax.uid, h.uid), gid |-> UnwrapOr(pax.gid, h.gid),
        mtime |-> UnwrapOr(pax.mtime, Seconds(h)),
        atime |-> pax.atime, ctime |-> pax.ctime,
        uname |-> IF pax.uname = None THEN h.uname ELSE pax.uname,
        gname |-> IF pax.gname = None THEN h.gname ELSE pax.gname,
        xattrs |-> pax.xattrs,
        link |-> IF pax.linkpath = None THEN h.link ELSE pax.linkpath]
-----------------------------------------------------------------------------
(* The path filter.  A path is what stands between its slashes: "./a/" is
   <<".", "a", "">> and the empty path is <<"">>. *)

Trimmed(path) ==
    LET first == CHOOSE i \in DOMAIN path : /\ i = Len(path) \/ path[i] # "."
                                            /\ \A j \in 1 .. i - 1 : path[j] = "."
        last == CHOOSE i \in first .. Len(path) :
                    /\ i = first \/ path[i] # ""
                    /\ \A j \in i + 1 .. Len(path) : path[j] = ""
    IN SubSeq(path, first, last)

FilterMatches(patterns, path) ==
    \/ patterns = {}
    \/ \E pattern \in patterns :
           \/ IsPrefix(Trimmed(pattern), Trimmed(path))
           \/ GlobMatches(Trimmed(pattern), Trimmed(path))
-----------------------------------------------------------------------------
(* The time in a verbose listing. *)

(* Variant: every fourth year. *)
EveryFourth(year) == year % 4 = 0

IsLeap(year) == (year % 4 = 0 /\ year % 100 # 0) \/ year % 400 = 0

(* The length of the year that `year`, a u32, is when it has been counted to a
   number that may have outgrown it. *)
DaysInYear == [count \in Nat |-> IF IsLeap(count % YearSpan) THEN 366 ELSE 365]
MonthDays(year) ==
    <<31, IF IsLeap(year) THEN 29 ELSE 28, 31, 30, 31, 30, 31, 31, 30, 31, 30, 31>>

(* Both loops take away the length of the year or month they are at, until what
   is left lies in it: where they are, and the days left, after so many turns. *)
Walk(lengths, first, days, turns) ==
    LET after[n \in 0 .. turns] ==
            IF n = 0 THEN <<first, days>>
            ELSE LET at == after[n - 1] IN
                 IF at[2] < lengths[at[1]] THEN at
                 ELSE <<at[1] + 1, at[2] - lengths[at[1]]>>
    IN after[turns]

(* A turn takes at least 365 days. *)
CountYears(days) == Walk(DaysInYear, 1970, days, days \div 365)
YearOf(days) == LET at == CountYears(days) IN <<at[1] % YearSpan, at[2]>>
MonthOf(year, dayOfYear) == Walk(MonthDays(year), 1, dayOfYear, 12)

(* `mtime.saturating_add`. *)
Shifted(sec, offset) ==
    IF sec + offset > MaxI64 THEN MaxI64
    ELSE IF sec + offset < -MaxI64 - 1 THEN -MaxI64 - 1
    ELSE sec + offset

(* With overflow checks, `year += 1` panics. *)
YearOverflows(sec, offset) ==
    LET t == Shifted(sec, offset) IN
    t >= 0 /\ CountYears(t \div (SecsPerMin * MinsPerHour * HoursPerDay))[1] >= YearSpan

FormatMtime(sec, offset) ==
    LET t == Shifted(sec, offset)
        perHour == SecsPerMin * MinsPerHour
        year == YearOf(t \div (perHour * HoursPerDay))
        month == MonthOf(year[1], year[2])
    IN IF t < 0 THEN None
       ELSE Some([year |-> year[1], month |-> month[1], day |-> month[2] + 1,
                  hour |-> (t \div perHour) % HoursPerDay,
                  minute |-> (t \div SecsPerMin) % MinsPerHour])
-----------------------------------------------------------------------------
Init ==
    /\ scenario \in Scenarios
    /\ next = 1 /\ phase = "wrap"
    /\ globalPax = <<>> /\ toc = <<>> /\ from = <<>> /\ listed = <<>>

E == stream[next]
Reading == phase = "wrap" /\ next <= Len(stream)

ParseGlobal ==
    /\ Reading /\ E.global
    /\ globalPax' = UpdatePaxRecords(globalPax, E.records)
    /\ next' = next + 1
    /\ UNCHANGED <<scenario, phase, toc, from, listed>>

(* Variant: the member's own records are kept. *)
ParseMemberInPlace ==
    /\ Reading /\ ~E.global
    /\ LET pax == EffectivePax(globalPax, E) IN
       /\ ~SizesDisagree(pax, E.header)
       /\ toc' = Append(toc, MemberMetadata(pax, E))
    /\ globalPax' = UpdatePaxRecords(globalPax, E.records)
    /\ from' = Append(from, next)
    /\ next' = next + 1
    /\ UNCHANGED <<scenario, phase, listed>>

ParseMember ==
    /\ Reading /\ ~E.global
    /\ LET pax == EffectivePax(globalPax, E) IN
       /\ ~SizesDisagree(pax, E.header)
       /\ toc' = Append(toc, MemberMetadata(pax, E))
    /\ from' = Append(from, next)
    /\ next' = next + 1
    /\ UNCHANGED <<scenario, phase, globalPax, listed>>

(* "PAX size disagrees with in-header size" *)
RefuseMember ==
    /\ Reading /\ ~E.global
    /\ SizesDisagree(EffectivePax(globalPax, E), E.header)
    /\ phase' = "refused"
    /\ UNCHANGED <<scenario, next, globalPax, toc, from, listed>>

ParseEnd ==
    /\ phase = "wrap" /\ next > Len(stream)
    /\ phase' = "list" /\ next' = 1
    /\ UNCHANGED <<scenario, globalPax, toc, from, listed>>

(* `list -v` with the scenario's patterns, in a place so far from UTC: one
   member, if it is asked for. *)
List ==
    /\ phase = "list" /\ next <= Len(toc)
    /\ listed' =
           IF FilterMatches(scenario.patterns, toc[next].path.name)
             THEN Append(listed,
                         [member |-> next,
                          time |-> FormatMtime(toc[next].mtime.sec, scenario.offset)])
             ELSE listed
    /\ next' = next + 1
    /\ UNCHANGED <<scenario, phase, globalPax, toc, from>>

ListPanics ==
    /\ phase = "list" /\ next <= Len(toc)
    /\ FilterMatches(scenario.patterns, toc[next].path.name)
    /\ YearOverflows(toc[next].mtime.sec, scenario.offset)
    /\ phase' = "panicked"
    /\ UNCHANGED <<scenario, next, globalPax, toc, from, listed>>

ListEnd ==
    /\ phase = "list" /\ next > Len(toc)
    /\ phase' = "done"
    /\ UNCHANGED <<scenario, next, globalPax, toc, from, listed>>

Ended == phase \in {"done", "refused", "panicked"} /\ UNCHANGED vars

Next == \/ ParseGlobal \/ ParseMember \/ RefuseMember \/ ParseEnd
        \/ List \/ ListPanics \/ ListEnd \/ Ended

Spec == Init /\ [][Next]_vars
-----------------------------------------------------------------------------
(* The types of an entry of the TOC: no number leaves its width, and the
   fraction of a second is less than one. *)
IsInstant(t) == t.sec \in -MaxI64 - 1 .. MaxI64 /\ t.ns \subseteq 0 .. Unit - 1
IsMember(m) ==
    /\ m.type \in EntryTypes
    /\ m.mode \in 0 .. MaxU32 /\ {m.uid, m.gid, m.size} \subseteq 0 .. MaxU64
    /\ \A t \in Some(m.mtime) \cup m.atime \cup m.ctime : IsInstant(t)
MetadataTypeOK ==
    /\ next \in 1 .. Len(stream) + 1
    /\ phase \in {"wrap", "list", "done", "refused", "panicked"}
    /\ DOMAIN globalPax \subseteq Keys
    /\ Len(from) = Len(toc)
    /\ \A i \in DOMAIN toc : IsMember(toc[i])

(* The records that speak of a key in one header, and in the last of some
   headers that has any. *)
Told(records, key) == {j \in DOMAIN records : records[j][1] = key}
Word(headers, key) ==
    LET speak == {i \in headers : Told(stream[i].records, key) # {}}
        records == stream[Max(speak)].records
    IN IF speak = {} THEN None ELSE {records[Max(Told(records, key))][2]} \ {Empty}

(* What holds of a key for the member of header n: all global headers before it
   and its own records speak.  The last word counts; an empty one takes back what
   was said before. *)
LastWord(n, key) == Word({i \in 1 .. n : i = n \/ stream[i].global}, key)

(* The time a text denotes, in the smallest units there are: the digits have the
   weights of their places, and those beyond the smallest do not count. *)
Denotes(v) ==
    LET units[i \in 0 .. FracDigits] ==
            IF i = 0 THEN Unit * v.whole
            ELSE units[i - 1] + Power10(FracDigits - i) * Digit(v.frac, i)
    IN IF v.sign = "-" THEN -units[FracDigits] ELSE units[FracDigits]
Says(v, t) == Unit * t.sec + UnwrapOr(t.ns, 0) = Denotes(v)

SayAll(words, times) == /\ (times = None) <=> (words = None)
                        /\ \A v \in words, t \in times : Says(v, t)

Times(n, key) == {v \in LastWord(n, key) : v.as = "time" /\ v.whole <= MaxI64}
Numbers(n, key, max, blanks) ==
    {v \in LastWord(n, key) : v.as = "number" /\ v.n <= max /\ (blanks \/ ~v.padded)}
Texts(n, key) == {v.name : v \in {w \in LastWord(n, key) : w.as = "text" /\ w.utf8}}
OrElse(words, header) == IF words = None THEN header ELSE words
OneOf(words, header, value) ==
    IF words = None THEN value = header ELSE \E v \in words : v.n = value

(* What the TOC says of a member, m, against the stream up to its header, n. *)
MemberTrue(m, n) ==
    LET h == stream[n].header
        sparse == h.realSize # None \/ \E g \in {"major", "name"} :
                      LastWord(n, GnuSparse(g)) # None
    IN /\ OneOf(Numbers(n, Key("uid"), MaxU64, TRUE), h.uid, m.uid)
       /\ OneOf(Numbers(n, Key("gid"), MaxU64, TRUE), h.gid, m.gid)
       /\ OneOf(Numbers(n, Key("mode"), MaxU32, FALSE), h.mode, m.mode)
       /\ IF sparse THEN m.type = "Other"
          ELSE OneOf(Numbers(n, Key("size"), MaxU64, TRUE), h.size, m.size)
       /\ m.path = UnwrapOr(LastWord(n, Key("path")), h.path)
       /\ m.link = OrElse(LastWord(n, Key("linkpath")), h.link)
       /\ m.uname = OrElse(Texts(n, Key("uname")), h.uname)
       /\ m.gname = OrElse(Texts(n, Key("gname")), h.gname)
       /\ LET words == Times(n, Key("mtime")) IN
          IF words = None
            THEN m.mtime.ns = None /\ m.mtime.sec \in {h.mtime, h.mtime - (MaxU64 + 1)}
            ELSE \E v \in words : Says(v, m.mtime)
       /\ SayAll(Times(n, Key("atime")), m.atime)
       /\ SayAll(Times(n, Key("ctime")), m.ctime)
       /\ \A x \in XattrNames :
              LET ours == LastWord(n, Schily(x))
                  theirs == LastWord(n, Libarchive(x)) \ {Junk}
                  word == IF ours # None THEN ours ELSE theirs
              IN IF word = None THEN x \notin DOMAIN m.xattrs
                 ELSE x \in DOMAIN m.xattrs /\ m.xattrs[x] \in word

(* "PAX local and global extension headers" (README.md:48): what the TOC says of
   a member is the last word of the records that hold for it, and of its header
   where there is none that can be read; records of one member say nothing of
   the next.  Times are exact to the last digit kept, before 1970 too. *)
LastWordCounts == \A i \in DOMAIN toc : MemberTrue(toc[i], from[i])

(* The Gregorian calendar, from the number of days before a date. *)
LeapDaysBefore(year) ==
    (year - 1) \div 4 - (year - 1) \div 100 + (year - 1) \div 400
LeapDay(year) == LeapDaysBefore(year + 1) - LeapDaysBefore(year)
MonthStarts == <<0, 31, 59, 90, 120, 151, 181, 212, 243, 273, 304, 334, 365>>
DaysBeforeMonth(year, month) ==
    MonthStarts[month] + (IF month > 2 THEN LeapDay(year) ELSE 0)
MonthLength(year, month) ==
    DaysBeforeMonth(year, month + 1) - DaysBeforeMonth(year, month)
DaysBefore(date) ==
    365 * (date.year - 1970) + LeapDaysBefore(date.year) - LeapDaysBefore(1970)
    + DaysBeforeMonth(date.year, date.month) + date.day - 1
MinutesBefore(date) ==
    (DaysBefore(date) * HoursPerDay + date.hour) * MinsPerHour + date.minute

(* From the first day that has no year which a u32 can hold. *)
IsBeyond(t) == t \div (SecsPerMin * MinsPerHour * HoursPerDay) >=
    DaysBefore([year |-> YearSpan, month |-> 1, day |-> 1])

(* The components of a path that name something, from the first to the last, for
   paths that have "." before them and slashes behind them only. *)
Named(path) == {i \in DOMAIN path : path[i] \notin {"", "."}}
WellSpelt(path) ==
    /\ path \in Seq(Range(path)) \ {<<>>}
    /\ \A i \in DOMAIN path \ Named(path) :
          IF \A j \in Named(path) : i < j
            THEN path[i] = (IF Named(path) = {} /\ i = Len(path) THEN "" ELSE ".")
            ELSE (\A j \in Named(path) : j < i) => path[i] = ""
Names(path) == IF Named(path) = {} THEN <<"">>
               ELSE SubSeq(path, Min(Named(path)), Max(Named(path)))

(* "Show mode, owner/group, size, and mtime" (main.rs:95), "Matching is by exact
   path, directory-prefix, or shell glob" (main.rs:112-114): the listing has the
   members that are asked for or lie below what is, however the two are spelt, in
   archive order, each with the date and the minute its time falls in there, as
   long as that has a year which a u32 can hold (cmd_list.rs:106 promises less,
   "valid for dates 1970-2106"); and only a time beyond makes it panic. *)
ListingTrue ==
    /\ phase = "panicked" => IsBeyond(toc[next].mtime.sec + scenario.offset)
    /\ phase = "done" =>
       /\ \A i, j \in DOMAIN listed : i < j => listed[i].member < listed[j].member
       /\ \A i \in DOMAIN toc :
             LET path == toc[i].path.name
                 wanted == \/ scenario.patterns = {}
                           \/ \E p \in scenario.patterns :
                                 \/ IsPrefix(Names(p), Names(path))
                                 \/ GlobMatches(Names(p), Names(path))
             IN (\A p \in scenario.patterns \cup {path} : WellSpelt(p)) =>
                   (wanted <=> \E l \in DOMAIN listed : listed[l].member = i)
       /\ \A l \in DOMAIN listed :
             LET t == toc[listed[l].member].mtime.sec + scenario.offset IN
             t <= MaxI64 =>
                /\ (listed[l].time = None) <=> (t < 0)
                /\ \A date \in listed[l].time : ~IsBeyond(t) =>
                      /\ t \div SecsPerMin = MinutesBefore(date)
                      /\ date.month \in 1 .. 12
                      /\ date.day \in 1 .. MonthLength(date.year, date.month)
                      /\ date.hour \in 0 .. HoursPerDay - 1
                      /\ date.minute \in 0 .. MinsPerHour - 1
=============================================================================
