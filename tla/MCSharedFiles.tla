---------------------------- MODULE MCSharedFiles ----------------------------
(***************************************************************************)
(* Model-checking instance of the files that several processes use with no *)
(* window between them: the lock file of a store (StoreLock) and the cache *)
(* of contracts (ContractCache).  They share no state, so a behaviour runs *)
(* one of them, named by "subject", and the other stays in its initial     *)
(* state; subject "codec" writes and reads every bounded set of contracts. *)
(***************************************************************************)
EXTENDS StoreLock, ContractCodec, TLC

CONSTANTS Windows, Languages, LastBuild, MaxReads, Nothing, fact1, fact2

VARIABLES subject, sample,
          archive, present, manifest, install, caches, job, loaded, moved, reads

\* What differs between the contracts of two scopes: a text, and the evidence.
SampleOf(scope) ==
  << [kind |-> "contract", id |-> "one", texts |-> [key |-> scope.language],
      base |-> [key |-> IF scope.build = 1 THEN scope.language ELSE "stock"],
      evidence |-> << fact1 >>,
      parts |-> << [name |-> "detail", evidence |-> << fact1, fact2 >>] >>],
     [kind |-> "pack", id |-> scope.version, texts |-> << >>, base |-> << >>,
      evidence |-> << fact2 >>, parts |-> << >>] >>

ArchiveContracts ==
  [scope \in [language : Languages, version : 1 .. LastBuild, build : 1 .. LastBuild] |->
     SampleOf(scope)]

Cache == INSTANCE ContractCache WITH None <- Nothing, Contracts <- ArchiveContracts

ASSUME CacheConstants ==
  /\ LastBuild \in Nat \ {0}
  /\ \A scope \in Cache!Scope :
       /\ ContractSet(ArchiveContracts[scope])
       /\ Document(ArchiveContracts[scope]) \notin {Nothing, Invalid}

cacheVars == << archive, present, manifest, install, caches, job, loaded, moved, reads >>

Facts == {<< >>, << fact1 >>, << fact2 >>, << fact1, fact2 >>, << fact2, fact1 >>}

Parts == {<< >>} \union {<< [name |-> "n", evidence |-> e] >> : e \in Facts}
         \union {<< [name |-> "n", evidence |-> e], [name |-> "m", evidence |-> << fact2 >>] >> :
                   e \in Facts}

ItemsOf(kind, bases, parts) ==
  {[kind |-> kind, id |-> 1, texts |-> [k |-> "text"], base |-> b, evidence |-> e, parts |-> p] :
     b \in bases, e \in Facts, p \in parts}

Contracts == ItemsOf("contract", {<< >>, [k |-> "text"], [k |-> "stock", l |-> "stock"]}, Parts)
Entities  == ItemsOf("entity", {<< >>}, Parts)
Pack      == ItemsOf("pack", {<< >>}, {<< >>})

Samples == {<< c, x >> : c \in Contracts, x \in Contracts \union Entities \union Pack}
           \union {<< x, y >> : x \in Entities, y \in Pack}

SharedInit ==
  /\ Init /\ Cache!Init
  /\ \/ subject \in {"lock", "cache"} /\ sample = << >>
     \/ subject = "codec" /\ sample \in Samples

SharedNext ==
  /\ UNCHANGED << subject, sample >>
  /\ \/ subject = "lock" /\ Next /\ UNCHANGED cacheVars
     \/ subject = "cache" /\ Cache!Next /\ UNCHANGED vars

\* The fairness of StoreLock.FairSpec.
OfLock(A) == subject = "lock" /\ A

SharedSpec ==
  /\ SharedInit
  /\ [][SharedNext]_<< subject, sample, vars, cacheVars >>
  /\ \A p \in Processes : WF_vars(OfLock(LiveStep(p)))
  /\ WF_vars(OfLock(LockAges))
  /\ WF_vars(OfLock(ReapAges))

LoadedIsWhatWasAsked == subject = "cache" => Cache!LoadedIsWhatWasAsked

\* No load returns the contracts of an archive that was replaced.
NeverStale == subject = "cache" => Cache!NeverStale

\* What is written, in the cache or for the window that asked the helper
\* process, is read again as it was.
WrittenIsReadAgain == subject = "codec" => RoundTrip(sample)
=============================================================================
