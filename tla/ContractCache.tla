---------------------------- MODULE ContractCache ----------------------------
(***************************************************************************)
(* The contracts read from a game's archive, cached on disk                *)
(* (src/starcompanion/store.py) and loaded or read again by the windows of *)
(* StarCompanion (gui/tabs/start.py), while the launcher patches the game. *)
(* OverviewJobs models when a window asks for them and drops them; here a  *)
(* window has one operation at a time.                                     *)
(*                                                                         *)
(* The archive is known by its build; other builds have another size or    *)
(* time.  What a read returns depends on the build, on the version of the  *)
(* manifest the window discovered the game with, and on the language.  A   *)
(* cache file holds a ContractCodec document, or a torn one, which no load *)
(* accepts: what is written, and read again, are operators of the module.  *)
(***************************************************************************)
EXTENDS Integers, Sequences

CONSTANTS Windows, Languages,
          LastBuild,   \* bound: builds are 1..LastBuild
          Contracts,   \* scope -> the contracts a read returns
          Document(_), Loads(_), Normalised(_), Invalid,   \* ContractCodec
          None,
          MaxReads     \* bound

Builds == 1 .. LastBuild

VARIABLES archive,    \* the build of Data.p4k
          present,    \* FALSE while the launcher is replacing it
          manifest,   \* the version in build_manifest.id
          install,    \* window -> the version of its GameInstall
          caches,     \* key -> file
          job,        \* window -> its operation
          loaded,     \* window -> scope and contracts of the last result
          moved,      \* keys whose file was read from another build
          reads

vars == << archive, present, manifest, install, caches, job, loaded, moved, reads >>

Scope == [language : Languages, version : Builds, build : Builds]
Keys  == [language : Languages, version : Builds, fingerprint : Builds]

\* Contracts that were written are read again as they were (RoundTrip), and a
\* document is neither nothing nor an exception.
CacheAssumption ==
  /\ LastBuild \in Nat \ {0}
  /\ \A scope \in Scope :
       /\ Document(Contracts[scope]) \notin {None, Invalid}
       /\ Loads(Document(Contracts[scope])) = Normalised(Contracts[scope])

Gone == [text |-> None, writers |-> {}]
Torn == Invalid

Init ==
  /\ archive = 1 /\ present = TRUE /\ manifest = 1
  /\ install = [w \in Windows |-> 1]
  /\ caches = [k \in Keys |-> Gone]
  /\ job = [w \in Windows |-> None]
  /\ loaded = [w \in Windows |-> None]
  /\ moved = {}
  /\ reads = 0

\* Mutant of CachePath: the name leaves out the archive.
PathOfVersion(w, language) ==
  IF ~present THEN None
  ELSE [language |-> language, version |-> install[w], fingerprint |-> install[w]]

CachePath(w, language) ==
  IF ~present THEN None
  ELSE [language |-> language, version |-> install[w], fingerprint |-> archive]

SetJob(w, j) == job' = [job EXCEPT ![w] = j]
At(w, stage) == job[w] # None /\ job[w].stage = stage

-----------------------------------------------------------------------------
(* The launcher.                                                           *)

RemoveArchive ==
  /\ present /\ archive < LastBuild /\ manifest = archive
  /\ present' = FALSE
  /\ archive' = archive + 1
  /\ UNCHANGED << manifest, install, caches, job, loaded, moved, reads >>

\* The new archive appears, whole, before or after its manifest.
WriteArchive ==
  /\ ~present
  /\ present' = TRUE
  /\ UNCHANGED << archive, manifest, install, caches, job, loaded, moved, reads >>

WriteManifest ==
  /\ manifest < archive
  /\ manifest' = archive
  /\ UNCHANGED << archive, present, install, caches, job, loaded, moved, reads >>

-----------------------------------------------------------------------------
(* A window.                                                               *)

\* Refreshing the list of games.
Discover(w) ==
  /\ job[w] = None /\ present /\ install[w] # manifest
  /\ install' = [install EXCEPT ![w] = manifest]
  /\ UNCHANGED << archive, present, manifest, caches, job, loaded, moved, reads >>

\* store.load computes the path, "forced" reads do not.
StartOperation(w) ==
  /\ job[w] = None
  /\ \E language \in Languages, kind \in {"load", "read"}, force \in BOOLEAN :
       /\ kind = "load" => ~force
       /\ kind = "read" => reads < MaxReads
       /\ SetJob(w, [stage |-> IF force THEN "read" ELSE "open", kind |-> kind,
                     language |-> language, path |-> CachePath(w, language),
                     from |-> archive])
       /\ reads' = IF kind = "read" THEN reads + 1 ELSE reads
  /\ UNCHANGED << archive, present, manifest, install, caches, loaded, moved >>

\* A file that is being written may be seen torn.
Readable(path) ==
  IF path = None THEN {Invalid}
  ELSE {IF text \in {None, Torn} THEN Invalid ELSE Loads(text) :
          text \in {caches[path].text} \union (IF caches[path].writers = {} THEN {} ELSE {Torn})}

ScopeOf(w) == [language |-> job[w].language, version |-> install[w], build |-> job[w].from]

Result(scope, contracts, excepted) ==
  [scope |-> scope, contracts |-> contracts, excepted |-> excepted]

\* A missing, torn or outdated cache is no cache.
OpenCache(w) ==
  /\ At(w, "open")
  /\ LET path == job[w].path IN
     \E cached \in Readable(path) :
       IF cached = Invalid
       THEN /\ SetJob(w, IF job[w].kind = "read" THEN [job[w] EXCEPT !.stage = "read"] ELSE None)
            /\ UNCHANGED loaded
       ELSE /\ SetJob(w, None)
            /\ loaded' = [loaded EXCEPT ![w] =
                 Result(ScopeOf(w), cached, path \in moved)]
  /\ UNCHANGED << archive, present, manifest, install, caches, moved, reads >>

\* The archive that is open is read to its end.
OpenArchive(w) ==
  /\ At(w, "read")
  /\ SetJob(w, IF ~present THEN None
               ELSE [job[w] EXCEPT !.stage = "reading", !.from = archive])
  /\ UNCHANGED << archive, present, manifest, install, caches, loaded, moved, reads >>

\* store.save, like store.load, computes the path and opens the file later;
\* open() empties it.
StartSave(w) ==
  /\ At(w, "reading")
  /\ SetJob(w, [job[w] EXCEPT !.stage = IF CachePath(w, job[w].language) = None
                                         THEN "deliver" ELSE "save",
                              !.path = CachePath(w, job[w].language)])
  /\ UNCHANGED << archive, present, manifest, install, caches, loaded, moved, reads >>

Truncate(w) ==
  /\ At(w, "save")
  /\ caches' = [caches EXCEPT ![job[w].path] =
                  [text |-> Torn, writers |-> @.writers \union {w}]]
  /\ SetJob(w, [job[w] EXCEPT !.stage = "write"])
  /\ UNCHANGED << archive, present, manifest, install, loaded, moved, reads >>

\* Two windows may write one file; each writes from its start.
WriteCache(w) ==
  /\ At(w, "write")
  /\ LET path == job[w].path
         text == Document(Contracts[ScopeOf(w)])
         mixed == IF caches[path].text \in {Torn, text} THEN {} ELSE {Torn}
     IN  IF w \in caches[path].writers
         THEN /\ \E written \in {text} \union mixed :
                   caches' = [caches EXCEPT ![path] = [text |-> written,
                                                       writers |-> @.writers \ {w}]]
              /\ moved' = IF path.fingerprint = job[w].from THEN moved \ {path}
                                                             ELSE moved \union {path}
         ELSE UNCHANGED << caches, moved >>
  /\ SetJob(w, [job[w] EXCEPT !.stage = "deliver"])
  /\ UNCHANGED << archive, present, manifest, install, loaded, reads >>

Deliver(w) ==
  /\ At(w, "deliver")
  /\ loaded' = [loaded EXCEPT ![w] =
                  Result(ScopeOf(w), Normalised(Contracts[ScopeOf(w)]), FALSE)]
  /\ SetJob(w, None)
  /\ UNCHANGED << archive, present, manifest, install, caches, moved, reads >>

\* The read is cancelled, fails, or the disk is full; the contracts are lost.
Fail(w) ==
  /\ job[w] # None
  /\ SetJob(w, None)
  /\ \E torn \in BOOLEAN :
       caches' = [k \in Keys |->
         IF w \notin caches[k].writers THEN caches[k]
         ELSE [text |-> IF torn THEN Torn ELSE caches[k].text,
               writers |-> caches[k].writers \ {w}]]
  /\ UNCHANGED << archive, present, manifest, install, loaded, moved, reads >>

\* store.clear removes the files; one being written stays so without a name.
Clear ==
  /\ \E k \in Keys : caches[k] # Gone
  /\ caches' = [k \in Keys |-> Gone]
  /\ moved' = {}
  /\ UNCHANGED << archive, present, manifest, install, job, loaded, reads >>

Next ==
  \/ RemoveArchive \/ WriteArchive \/ WriteManifest \/ Clear
  \/ \E w \in Windows :
       \/ Discover(w) \/ StartOperation(w) \/ OpenCache(w) \/ OpenArchive(w)
       \/ StartSave(w) \/ Truncate(w) \/ WriteCache(w) \/ Deliver(w) \/ Fail(w)

Spec == Init /\ [][Next]_vars

-----------------------------------------------------------------------------

TypeOK ==
  /\ archive \in Builds /\ present \in BOOLEAN /\ manifest \in Builds
  /\ install \in [Windows -> Builds]
  /\ \A k \in Keys : \A w \in caches[k].writers : At(w, "write") /\ job[w].path = k
  /\ \A w \in Windows : At(w, "reading") => job[w].from \in Builds
  /\ moved \subseteq Keys /\ reads \in 0 .. MaxReads

\* Whatever other windows write, however the game is patched, a window that
\* gets contracts gets what a read for its language and its version of the
\* game returns, never those of another: of the archive that was there when it
\* asked, or that it opened.  Only a file that a read saved after the archive
\* it was reading had been replaced holds those of an earlier archive: it is
\* named after the new one (store.py:83).
LoadedIsWhatWasAsked ==
  \A w \in Windows : loaded[w] # None =>
    LET scope == loaded[w].scope IN
    \E build \in 1 .. scope.build :
      /\ loaded[w].contracts = Normalised(Contracts[[scope EXCEPT !.build = build]])
      /\ build = scope.build \/ loaded[w].excepted

\* "A stale cache can never be used silently" (store.py:7): no load returns
\* the contracts of another archive than the one it asked for.
NeverStale ==
  \A w \in Windows :
    loaded[w] # None => loaded[w].contracts = Normalised(Contracts[loaded[w].scope])
=============================================================================
