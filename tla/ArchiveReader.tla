---------------------------- MODULE ArchiveReader ----------------------------
(***************************************************************************)
(* Reading entries of Data.p4k while the launcher may be patching it       *)
(* (extract/p4k.py): the end record, the central directory, walked or      *)
(* searched for the exact names, the local header, the data.               *)
(*                                                                         *)
(* The file is a sequence of cells: a record, or one unit of an entry's    *)
(* data.  The launcher is external; it replaces the cells in which two     *)
(* builds differ one at a time, in any order, and the reader reads one     *)
(* cell in a step.  A name is what it names, how its slashes are written   *)
(* and whether it is in capitals; a CRC is the content itself, except the  *)
(* field of a CIG-aligned entry, which is no CRC.  The last unit of a      *)
(* compressed stream ends it and holds two values; "zero" marks a unit of  *)
(* zero bytes, and Block units are one block of the cipher.  The reader's  *)
(* own buffer and records cut off in the middle are left out.              *)
(***************************************************************************)
EXTENDS Integers, Sequences, FiniteSetsExt, SequencesExt, TLC

CONSTANTS None,
          Sentinel,   \* UINT32_MAX
          Garbage,    \* bytes of a record read as data
          Kept,       \* what the destination held before
          Values,     \* what a unit of data holds
          Patches,    \* << build, build >>: the entries before and after
          Requests    \* [exact, wants]: how the archive is opened, what is read

VARIABLES builds, file, reader, destination

archiveVars == << builds, file, reader, destination >>

Block == 2

Entries ==
  [name : [of : STRING, slashes : STRING, upper : BOOLEAN], method : STRING,
   encrypted : BOOLEAN, aligned : BOOLEAN, endsInZero : BOOLEAN, content : Seq(Values)]

Builds == [wide : BOOLEAN, entries : Seq(Entries)]

-----------------------------------------------------------------------------
(* The file of a build: external.                                          *)

Unit(out, last, zero) == [k |-> "data", out |-> out, last |-> last, zero |-> zero]
Padding == Unit(<< >>, FALSE, TRUE)

\* The last unit of a compressed entry ends its stream.
Encoded(e) ==
  LET n == Len(e.content)
      last == IF n > 1 THEN n - 1 ELSE 1
  IN  IF e.method = "store"
      THEN [i \in 1 .. n |-> Unit(<< e.content[i] >>, FALSE, FALSE)]
      ELSE [i \in 1 .. last |->
              IF i < last THEN Unit(<< e.content[i] >>, FALSE, FALSE)
              ELSE Unit(SubSeq(e.content, i, n), TRUE, e.endsInZero)]

Units(e) ==
  IF e.encrypted /\ Len(Encoded(e)) % Block # 0 THEN Append(Encoded(e), Padding) ELSE Encoded(e)

Fields(e, at) ==
  [k |-> "central", name |-> e.name, method |-> e.method, encrypted |-> e.encrypted,
   crc |-> IF e.aligned THEN None ELSE e.content,
   csize |-> Len(Units(e)), fsize |-> Len(e.content), offset |-> at, extra |-> << >>]

\* A ZIP64 record: the sizes and the offset are in the extra field.
Central(e, at, wide) ==
  LET f == Fields(e, at)
  IN  IF wide THEN [f EXCEPT !.csize = Sentinel, !.fsize = Sentinel, !.offset = Sentinel,
                             !.extra = << f.fsize, f.csize, at >>]
      ELSE f

Local(e, wide) ==
  [k |-> "local", name |-> e.name, method |-> e.method, crc |-> Fields(e, 0).crc,
   csize |-> Central(e, 0, wide).csize, fsize |-> Central(e, 0, wide).fsize,
   aligned |-> e.aligned]

\* Headers and data of the first entries, and the records of the directory.
Body(build) ==
  LET after[n \in 0 .. Len(build.entries)] ==
        IF n = 0 THEN [cells |-> << >>, records |-> << >>]
        ELSE LET e == build.entries[n]
                 before == after[n - 1]
             IN  [cells |-> before.cells \o (<< Local(e, build.wide) >> \o Units(e)),
                  records |-> Append(before.records,
                                     Central(e, Len(before.cells) + 1, build.wide))]
  IN  after[Len(build.entries)]

End(kind, count, at) == [k |-> kind, count |-> count, size |-> count, offset |-> at]

\* The end record of a ZIP64 archive is found by way of its locator.
Ends(wide, count, start) ==
  IF wide
  THEN << End("end64", count, start), [k |-> "locator", at |-> start + count],
          End("end", Sentinel, Sentinel) >>
  ELSE << End("end", count, start) >>

Layout(build) ==
  LET body == Body(build)
  IN  (body.cells \o body.records)
        \o Ends(build.wide, Len(body.records), Len(body.cells) + 1)

\* A patch changes what the cells hold, and not where the file ends.
ArchiveAssumption ==
  /\ Patches \in SUBSET (Builds \X Builds)
  /\ \A patch \in Patches : Len(Layout(patch[1])) = Len(Layout(patch[2]))
  /\ Requests \in SUBSET [exact : BOOLEAN, wants : Seq({"localization", "datacore"})]
  /\ Sentinel \notin Nat
  /\ None \notin Seq(Values)
  /\ Garbage \notin Values

\* The launcher writes one more cell.
Patch ==
  LET next == Layout(builds[2])
  IN  \E i \in DOMAIN next :
        /\ file[i] # next[i]
        /\ file' = [file EXCEPT ![i] = next[i]]
        /\ UNCHANGED << builds, reader, destination >>

-----------------------------------------------------------------------------
(* Opening: P4KArchive.__init__ and _read_central_directory.               *)

Running(r) == r.pc \notin {"done", "refused", "missing", "cancelled"}

ArchiveInit ==
  /\ builds \in Patches
  /\ file = Layout(builds[1])
  /\ \E request \in Requests :
       reader = [pc |-> "end", exact |-> request.exact, wants |-> request.wants,
                 directory |-> None, at |-> 0, candidates |-> {}, entries |-> {},
                 entry |-> None, aligned |-> FALSE, units |-> << >>, read |-> << >>]
  /\ destination = [holds |-> Kept, partial |-> FALSE]

Go(pc) == reader' = [reader EXCEPT !.pc = pc] /\ UNCHANGED << builds, file, destination >>

\* Any error: the helper file of an extraction goes, the destination stays.
Stop(why) ==
  /\ reader' = [reader EXCEPT !.pc = why]
  /\ destination' = [destination EXCEPT !.partial = FALSE]
  /\ UNCHANGED << builds, file >>

Cancel == Running(reader) /\ Stop("cancelled")

Locate(record) ==
  IF record.size < record.count \/ record.offset + record.size - 1 > Len(file)
  THEN Stop("refused")
  ELSE /\ reader' = [reader EXCEPT !.directory = record, !.at = 0,
                       !.pc = IF record.count = 0 THEN "next"
                              ELSE IF reader.exact THEN "search" ELSE "walk"]
       /\ UNCHANGED << builds, file, destination >>

FindEnd ==
  /\ reader.pc = "end"
  /\ LET ends == {i \in DOMAIN file : file[i].k = "end"}
     IN  IF ends = {} THEN Stop("refused")
         ELSE IF file[Max(ends)].offset = Sentinel
         THEN /\ reader' = [reader EXCEPT !.pc = "locator", !.at = Max(ends) - 1]
              /\ UNCHANGED << builds, file, destination >>
         ELSE Locate(file[Max(ends)])

ReadLocator ==
  /\ reader.pc = "locator"
  /\ IF reader.at = 0 \/ file[reader.at].k # "locator" THEN Stop("refused")
     ELSE /\ reader' = [reader EXCEPT !.pc = "end64", !.at = file[reader.at].at]
          /\ UNCHANGED << builds, file, destination >>

ReadEnd64 ==
  /\ reader.pc = "end64"
  /\ IF file[reader.at].k # "end64" THEN Stop("refused") ELSE Locate(file[reader.at])

\* The fields the extra data may replace, in its order.
Through(field) ==
  CASE field = "fsize"  -> {"fsize"}
    [] field = "csize"  -> {"fsize", "csize"}
    [] field = "offset" -> {"fsize", "csize", "offset"}

\* _apply_zip64: it holds those that are sentinels.
Widened(record) ==
  LET place(field) == Cardinality({f \in Through(field) : record[f] = Sentinel})
      Real(field) == IF record[field] # Sentinel \/ place(field) > Len(record.extra)
                     THEN record[field] ELSE record.extra[place(field)]
  IN  [record EXCEPT !.fsize = Real("fsize"), !.csize = Real("csize"), !.offset = Real("offset")]

\* The file name of an entry: slashes are made alike.
Filename(name) == [of |-> name.of, upper |-> name.upper]

Wanted(name) == reader.exact \/ name.of = "localization"

\* One record of the directory; "rest" moves on.
Admit(record, rest) ==
  IF ~ Wanted(record.name) THEN reader' = rest /\ UNCHANGED << builds, file, destination >>
  ELSE IF \E e \in reader.entries : Filename(e.name) = Filename(record.name)
  THEN Stop("refused")
  ELSE /\ reader' = [rest EXCEPT !.entries = @ \union {Widened(record)}]
       /\ UNCHANGED << builds, file, destination >>

Walk ==
  /\ reader.pc = "walk"
  /\ LET cell == file[reader.directory.offset + reader.at]
     IN  IF cell.k # "central" THEN Stop("refused")
         ELSE Admit(cell, [reader EXCEPT !.at = @ + 1,
                             !.pc = IF reader.at + 1 = reader.directory.count THEN "next" ELSE @])

\* The names asked for are searched with one kind of slashes or the other.
Spelled(name) == name.slashes # "mixed" /\ ~ name.upper

Search ==
  /\ reader.pc = "search"
  /\ LET here == reader.directory.offset + reader.at
         found == file[here].k = "central" /\ Spelled(file[here].name)
     IN  reader' = [reader EXCEPT
           !.candidates = IF found THEN @ \union {<< here, file[here].name >>} ELSE @,
           !.at = @ + 1,
           !.pc = IF reader.at + 1 = reader.directory.size THEN "examine" ELSE @]
  /\ UNCHANGED << builds, file, destination >>

\* Each place is read again, in order, and must still hold that name.
Examine ==
  /\ reader.pc = "examine"
  /\ IF reader.candidates = {} THEN Go("next")
     ELSE LET first == CHOOSE c \in reader.candidates : \A d \in reader.candidates : c[1] <= d[1]
              rest == [reader EXCEPT !.candidates = @ \ {first}]
              cell == file[first[1]]
          IN  IF cell.k = "central" /\ cell.name = first[2] THEN Admit(cell, rest)
              ELSE reader' = rest /\ UNCHANGED << builds, file, destination >>

-----------------------------------------------------------------------------
(* Reading: read_localization, extract, iter_read.                         *)

\* The next entry wanted.  Names of localization files differ in case, the
\* DataCore is found by its exact name and may be absent.
ReadNext ==
  /\ reader.pc = "next"
  /\ IF reader.wants = << >> THEN Go("done")
     ELSE LET want == Head(reader.wants)
              matches == {e \in reader.entries :
                            e.name.of = want /\ (want = "localization" \/ ~ e.name.upper)}
              skipped == [reader EXCEPT !.wants = Tail(@)]
          IN  CASE Cardinality(matches) > 1 -> Stop("refused")
                [] matches = {} /\ want = "localization" -> Stop("missing")
                [] matches = {} /\ want = "datacore" ->
                     reader' = skipped /\ UNCHANGED << builds, file, destination >>
                [] OTHER ->
                     /\ reader' = [skipped EXCEPT !.entry = CHOOSE e \in matches : TRUE,
                                                  !.pc = "header"]
                     /\ destination' = [destination EXCEPT !.partial = (want = "datacore")]
                     /\ UNCHANGED << builds, file >>

\* Mutant of Advisory: as for every entry compressed with zstd.
AnyAdvisory(entry, header) == entry.method = "zstd"

\* A CIG-aligned header: the CRC field is advisory.
Advisory(entry, header) == entry.method = "zstd" /\ header.aligned

Agrees(entry, header) ==
  /\ header.k = "local"
  /\ Filename(header.name) = Filename(entry.name)
  /\ header.method = entry.method
  /\ header.crc = entry.crc
  /\ entry.offset + entry.csize < reader.directory.offset
  /\ header.csize \in {entry.csize, Sentinel}
  /\ header.fsize \in {entry.fsize, Sentinel}

ReadHeader ==
  /\ reader.pc = "header"
  /\ LET entry == reader.entry
         header == file[entry.offset]
     IN  IF ~ Agrees(entry, header) THEN Stop("refused")
         ELSE /\ reader' = [reader EXCEPT !.pc = "data", !.units = << >>,
                                          !.aligned = Advisory(entry, header)]
              /\ UNCHANGED << builds, file, destination >>

ReadUnit ==
  /\ reader.pc = "data" /\ Len(reader.units) < reader.entry.csize
  /\ LET cell == file[reader.entry.offset + 1 + Len(reader.units)]
     IN  reader' = [reader EXCEPT !.units =
           Append(@, IF cell.k = "data" THEN cell ELSE Unit(<< Garbage >>, FALSE, FALSE))]
  /\ UNCHANGED << builds, file, destination >>

\* Trailing zero bytes of an encrypted, compressed entry: its padding.
Stripped(units) == SubSeq(units, 1, Max({0} \union {i \in DOMAIN units : ~ units[i].zero}))

Outs(units) == FlattenSeq([i \in DOMAIN units |-> units[i].out])

\* _iter_decrypt and _iter_decompress: the content, or None.
Decoded(entry, units) ==
  LET plain == IF entry.encrypted /\ entry.method # "store" THEN Stripped(units) ELSE units
      ends == {i \in DOMAIN plain : plain[i].last}
      stream == IF ends = {} THEN plain ELSE SubSeq(plain, 1, Min(ends))
      rest == SubSeq(plain, Len(stream) + 1, Len(plain))
      AllZero(us) == \A i \in DOMAIN us : us[i].zero
  IN  IF \/ entry.encrypted /\ Len(units) % Block # 0
         \/ Len(units) - Len(plain) >= Block
         \/ entry.method # "store" /\ \E i \in DOMAIN stream : stream[i].out = << Garbage >>
      THEN None
      ELSE CASE entry.method = "store" ->
                  IF ~ entry.encrypted THEN Outs(units)
                  ELSE IF AllZero(SubSeq(units, entry.fsize + 1, Len(units)))
                  THEN Outs(SubSeq(units, 1, Min({entry.fsize, Len(units)}))) ELSE None
             [] entry.method = "deflate" ->
                  IF ends # {} /\ (rest = << >> \/ (entry.encrypted /\ AllZero(rest)))
                  THEN Outs(stream) ELSE None
             [] entry.method = "zstd" -> Outs(stream)
             [] OTHER -> None

Finish ==
  /\ reader.pc = "data" /\ Len(reader.units) = reader.entry.csize
  /\ LET entry == reader.entry
         content == Decoded(entry, reader.units)
         got == [of |-> entry.name.of, content |-> content]
     IN  IF content = None THEN Stop("refused")
         ELSE IF Len(content) # entry.fsize \/ (content # entry.crc /\ ~ reader.aligned)
         THEN Stop("refused")
         ELSE /\ reader' = [reader EXCEPT !.pc = "next", !.read = Append(@, got)]
              /\ destination' = IF got.of = "datacore"
                                THEN [holds |-> content, partial |-> FALSE] ELSE destination
              /\ UNCHANGED << builds, file >>

ArchiveNext ==
  \/ Patch \/ Cancel
  \/ FindEnd \/ ReadLocator \/ ReadEnd64
  \/ Walk \/ Search \/ Examine
  \/ ReadNext \/ ReadHeader \/ ReadUnit \/ Finish

ArchiveSpec == ArchiveInit /\ [][ArchiveNext]_archiveVars

-----------------------------------------------------------------------------
(* Properties.                                                             *)

EntriesOf(of) == {e \in UNION {Range(builds[b].entries) : b \in 1 .. 2} : e.name.of = of}

\* What was read is an entry as one of the builds has it, never a mixture;
\* of a CIG-aligned entry only the length is known to be right.
ReadsOneBuild ==
  \A i \in DOMAIN reader.read :
    LET got == reader.read[i]
    IN  \E e \in EntriesOf(got.of) :
          got.content = e.content \/ (e.aligned /\ Len(got.content) = Len(e.content))

\* An archive that nobody patches is never refused, if its names are told
\* apart, none of its encrypted, compressed entries ends in a zero byte, and
\* only entries compressed with zstd are aligned.
Sound(build) ==
  /\ \A i, j \in DOMAIN build.entries :
       LET e == build.entries[i]
           f == build.entries[j]
       IN  i # j => e.name.of # f.name.of
  /\ \A e \in Range(build.entries) :
       /\ e.method \in {"store", "deflate", "zstd"}
       /\ ~ (e.encrypted /\ e.method # "store" /\ e.endsInZero)
       /\ e.aligned => e.method = "zstd"

SoundIsRead ==
  builds[1] = builds[2] /\ Sound(builds[1]) =>
    /\ reader.pc # "refused"
    /\ reader.pc = "missing" =>
         \A e \in EntriesOf("localization") : reader.exact /\ ~ Spelled(e.name)

\* The destination of an extraction is replaced by a whole entry or kept,
\* and a helper file stays only while it is written.
DestinationIsWhole ==
  /\ \/ destination.holds = Kept
     \/ [of |-> "datacore", content |-> destination.holds] \in Range(reader.read)
  /\ destination.partial => Running(reader)

\* A read of the archive delivers an entry of one build, whatever the launcher
\* writes meanwhile, or nothing.
ReadsAreFaithful == ReadsOneBuild /\ SoundIsRead /\ DestinationIsWhole
=============================================================================
